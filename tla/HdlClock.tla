------------------------------ MODULE HdlClock ------------------------------
(***************************************************************************)
(* Registers on a clock (lib/slowpy/slowpy/control/hdl/hdl.py): a cycle of *)
(* the clock's thread reads the input registers, runs the processes one    *)
(* after the other, and then makes what they have set the values of the    *)
(* registers.  The user's module is a shift register: the process of       *)
(* register k sets it to what register k - 1 has, and register 0 is an     *)
(* input from a button, a oneshot node (control/node.py 762-801) that      *)
(* other threads press.  Other threads may set registers as well.          *)
(*                                                                         *)
(* Processes run in the order of their names, which is any order here.     *)
(***************************************************************************)
EXTENDS Naturals

CONSTANT Depth       \* the number of the last register

ASSUME DepthAssumption == Depth \in Nat

VARIABLES hdGet, hdSet,   \* get_value of the registers, and set_value (none or one)
          hdPhase,        \* where the clock's thread is, or that it has died
          hdTodo,         \* registers still to be processed, or to be updated
          hdButton,       \* the value of the oneshot's node
          hdStart,        \* _start_time of the oneshot is set
          hdRead,         \* what the read in progress has got
          hdPress,        \* a press in progress
          hdPressed,      \* a press was completed since the last read
          hdMixed,        \* a press came during a read
          hdLatched       \* the registers after the inputs of this cycle were read

hdVars == <<hdGet, hdSet, hdPhase, hdTodo, hdButton, hdStart, hdRead, hdPress, hdPressed,
            hdMixed, hdLatched>>

Register == 0 .. Depth
Inner == 1 .. Depth
Unset == {}

HdlTypeOK ==
  /\ hdGet \in [Register -> BOOLEAN] /\ hdSet \in [Inner -> SUBSET BOOLEAN]
  /\ hdPhase \in {"idle", "read", "restore", "restored", "process", "output", "dead"}
  /\ hdTodo \subseteq Inner /\ hdLatched \in [Register -> BOOLEAN]
  /\ {hdButton, hdStart, hdRead, hdPress, hdPressed, hdMixed} \subseteq BOOLEAN

HdlInit ==
  /\ hdGet = [k \in Register |-> FALSE] /\ hdSet = [k \in Inner |-> Unset]
  /\ hdPhase = "idle" /\ hdTodo = {} /\ hdLatched = hdGet
  /\ hdButton = FALSE /\ hdStart = FALSE /\ hdRead = FALSE
  /\ hdPress = FALSE /\ hdPressed = FALSE /\ hdMixed = FALSE

ButtonIs == <<hdButton, hdStart, hdRead, hdPress, hdPressed, hdMixed>>

Reads == hdPhase \in {"read", "restore", "restored"}

\* OneshotNode.set(): the value first, the start time after it.
PressBegins ==
  /\ ~hdPress /\ hdPress' = TRUE /\ hdButton' = TRUE
  /\ hdMixed' = (hdMixed \/ Reads)
  /\ UNCHANGED <<hdGet, hdSet, hdPhase, hdTodo, hdStart, hdRead, hdPressed, hdLatched>>

PressEnds ==
  /\ hdPress /\ hdPress' = FALSE /\ hdStart' = TRUE /\ hdPressed' = TRUE
  /\ UNCHANGED <<hdGet, hdSet, hdPhase, hdTodo, hdButton, hdRead, hdMixed, hdLatched>>

\* RegisterNode.set() of another thread.  If a value is set already, it raises there.
OtherSets(k, v) ==
  /\ hdSet[k] = Unset /\ hdSet' = [hdSet EXCEPT ![k] = {v}]
  /\ UNCHANGED <<hdGet, hdPhase, hdTodo, ButtonIs, hdLatched>>

-----------------------------------------------------------------------------
\* Clock.loop() when the time has come: _update_input() calls get() of the
\* button.  It has been pressed if there is a start time; the first get() then
\* returns the value and puts the normal one back.
ReadButton ==
  /\ hdPhase = "idle"
  /\ hdPhase' = IF hdStart THEN "restore" ELSE "read"
  /\ hdRead' = hdButton /\ hdMixed' = (hdMixed \/ hdPress)
  /\ UNCHANGED <<hdGet, hdSet, hdTodo, hdButton, hdStart, hdPress, hdPressed, hdLatched>>

RestoreButton ==
  /\ hdPhase = "restore" /\ hdPhase' = "restored" /\ hdButton' = FALSE
  /\ UNCHANGED <<hdGet, hdSet, hdTodo, hdStart, hdRead, hdPress, hdPressed, hdMixed, hdLatched>>

InputRead ==
  /\ hdPhase \in {"read", "restored"} /\ hdPhase' = "process"
  /\ hdStart' = (hdPhase = "read" /\ hdStart)
  /\ hdGet' = [hdGet EXCEPT ![0] = hdRead] /\ hdLatched' = hdGet'
  /\ hdTodo' = Inner /\ hdPressed' = FALSE
  /\ UNCHANGED <<hdSet, hdButton, hdRead, hdPress, hdMixed>>

MutProcessSets(k, v) == hdSet' = [hdSet EXCEPT ![k] = {v}] /\ hdGet' = [hdGet EXCEPT ![k] = v]

\* reg <= value
ProcessSets(k, v) == hdSet' = [hdSet EXCEPT ![k] = {v}] /\ UNCHANGED hdGet

\* A process sets its register, or finds it set by another thread: the
\* exception ends the thread of the clock.
Process(k) ==
  /\ hdPhase = "process" /\ k \in hdTodo
  /\ IF hdSet[k] = Unset
     THEN /\ ProcessSets(k, hdGet[k - 1])
          /\ hdTodo' = IF hdTodo = {k} THEN Inner ELSE hdTodo \ {k}
          /\ hdPhase' = IF hdTodo = {k} THEN "output" ELSE "process"
     ELSE hdPhase' = "dead" /\ UNCHANGED <<hdGet, hdSet, hdTodo>>
  /\ UNCHANGED <<ButtonIs, hdLatched>>

\* _update_output()
Output(k) ==
  /\ hdPhase = "output" /\ k \in hdTodo
  /\ hdGet' = [hdGet EXCEPT ![k] = TRUE \in hdSet[k]] /\ hdSet' = [hdSet EXCEPT ![k] = Unset]
  /\ hdTodo' = hdTodo \ {k} /\ hdPhase' = IF hdTodo = {k} THEN "idle" ELSE "output"
  /\ UNCHANGED <<ButtonIs, hdLatched>>

HdlNext ==
  \/ PressBegins \/ PressEnds \/ \E k \in Inner, v \in BOOLEAN : OtherSets(k, v)
  \/ ReadButton \/ RestoreButton \/ InputRead
  \/ \E k \in Inner : Process(k) \/ Output(k)

HdlSpec == HdlInit /\ [][HdlNext]_hdVars

-----------------------------------------------------------------------------
\* The registers change as if all processes had run at the same time: after a
\* cycle each has what the one before it had when the inputs were read, in
\* whatever order they ran and whatever other threads set, which may stop the
\* clock but enters no value.  And a press that does not fall into a read is
\* read in one cycle and in one only (docs/SlowHDL.md:195, node.py:766).
CycleIsAtOnce ==
  /\ hdPhase = "idle" => \A k \in Inner : hdGet[k] = hdLatched[k - 1]
  /\ (hdPhase \in {"read", "restored"} /\ ~hdMixed) => hdRead = hdPressed
=============================================================================
