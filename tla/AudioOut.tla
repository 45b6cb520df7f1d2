------------------------------ MODULE AudioOut ------------------------------
(***************************************************************************)
(* The Agar-AU demo (src/demos/audio/audio.c): the GUI thread opens an     *)
(* output device and starts a sine-generator thread (OpenFileOut,          *)
(* OpenAudioOut), and stops it again (CloseOut) by raising the shared      *)
(* flag outAbort and spinning until a generator has cleared it.  The       *)
(* generator (GenSine) checks the flag under outLock, and otherwise writes *)
(* a buffer to the device auOut under that lock.                           *)
(*                                                                         *)
(* The GUI thread runs one event handler at a time; OpenFileOut and        *)
(* OpenAudioOut are atomic, CloseOut is split at its polling loop, the     *)
(* only place where the generators interleave with it.  Sample values,    *)
(* the frequency drift df and the AG_Delay pauses are abstracted away.     *)
(***************************************************************************)
EXTENDS Naturals, FiniteSets

CONSTANTS
  MaxOpens,   \* bound on the number of Open* handler invocations
  NULL,       \* the null device pointer
  NoThread    \* outLock is free

ASSUME MaxOpens \in Nat \ {0}

\* Open number i creates device i and, when it succeeds, generator thread i.
Threads == 1..MaxOpens
Devices == 1..MaxOpens

VARIABLES
  opens,       \* number of Open* handler invocations so far
  auOut,       \* the global AU_DevOut *auOut: NULL or a device
  devOpen,     \* devices opened by AU_OpenOut and not yet closed
  outAbort,    \* the global int outAbort
  outLock,     \* the owner of outLock
  pc,          \* control point of each generator thread
  ui,          \* control point of the GUI thread
  liveAtClose  \* ghost: live generators when CloseOut raised outAbort

vars == <<opens, auOut, devOpen, outAbort, outLock, pc, ui, liveAtClose>>

\* Generator control points: "none" (not created), "lock" (top of the
\* for(;;) loop, before AG_MutexLock), "check" (holding the lock, about to
\* test outAbort), "unlock" (wrote the buffer, before AG_MutexUnlock),
\* "done" (returned).
GenPCs == {"none", "lock", "check", "unlock", "done"}

Live == {t \in Threads : pc[t] \in {"lock", "check", "unlock"}}

TypeOK ==
  /\ opens \in 0..MaxOpens
  /\ auOut \in Devices \cup {NULL}
  /\ devOpen \subseteq Devices
  /\ outAbort \in {0, 1}
  /\ outLock \in Threads \cup {NoThread}
  /\ pc \in [Threads -> GenPCs]
  /\ ui \in {"idle", "closing"}
  /\ liveAtClose \in 0..MaxOpens

Init ==
  /\ opens = 0
  /\ auOut = NULL
  /\ devOpen = {}
  /\ outAbort = 0
  /\ outLock = NoThread
  /\ pc = [t \in Threads |-> "none"]
  /\ ui = "idle"
  /\ liveAtClose = 0

(* GUI thread handlers                                                     *)

\* OpenFileOut and OpenAudioOut differ only in the driver string given to
\* AU_OpenOut.  AU_OpenOut may fail and return NULL, which is stored in
\* auOut before the early return; on success AG_ThreadCreate starts GenSine.
OpenOut ==
  LET n == opens + 1 IN
  /\ ui = "idle"
  /\ opens < MaxOpens
  /\ opens' = n
  /\ \/ /\ auOut' = NULL
        /\ UNCHANGED <<devOpen, pc>>
     \/ /\ auOut' = n
        /\ devOpen' = devOpen \cup {n}
        /\ pc' = [pc EXCEPT ![n] = "lock"]
  /\ UNCHANGED <<outAbort, outLock, ui, liveAtClose>>

OpenFileOut == OpenOut

OpenAudioOut == OpenOut

\* CloseOut, first statement: outAbort = 1 (without taking outLock).
CloseOutStart ==
  /\ ui = "idle"
  /\ outAbort' = 1
  /\ ui' = "closing"
  /\ liveAtClose' = Cardinality(Live)
  /\ UNCHANGED <<opens, auOut, devOpen, outLock, pc>>

\* Fault: CloseOut leaves its loop without waiting for outAbort to clear.
CloseOutNoWait ==
  /\ ui = "closing"
  /\ IF auOut # NULL
       THEN /\ devOpen' = devOpen \ {auOut}
            /\ auOut' = NULL
       ELSE UNCHANGED <<devOpen, auOut>>
  /\ ui' = "idle"
  /\ UNCHANGED <<opens, outAbort, outLock, pc, liveAtClose>>

\* CloseOut, leaving the polling loop once outAbort reads 0, then closing
\* auOut if it is not NULL.  While outAbort reads 1 the loop only sleeps
\* (AG_Delay), which changes no state.
CloseOutFinish ==
  /\ ui = "closing"
  /\ outAbort = 0
  /\ IF auOut # NULL
       THEN /\ devOpen' = devOpen \ {auOut}
            /\ auOut' = NULL
       ELSE UNCHANGED <<devOpen, auOut>>
  /\ ui' = "idle"
  /\ UNCHANGED <<opens, outAbort, outLock, pc, liveAtClose>>

(* Generator thread GenSine                                                *)

GenLock(t) ==
  /\ pc[t] = "lock"
  /\ outLock = NoThread
  /\ outLock' = t
  /\ pc' = [pc EXCEPT ![t] = "check"]
  /\ UNCHANGED <<opens, auOut, devOpen, outAbort, ui, liveAtClose>>

\* Fault: the generator stops without acknowledging the abort request.
GenAbortNoAck(t) ==
  /\ pc[t] = "check"
  /\ outAbort = 1
  /\ outLock' = NoThread
  /\ pc' = [pc EXCEPT ![t] = "done"]
  /\ UNCHANGED <<opens, auOut, devOpen, outAbort, ui, liveAtClose>>

\* if (outAbort) { outAbort = 0; AG_MutexUnlock; break; }
GenAbort(t) ==
  /\ pc[t] = "check"
  /\ outAbort = 1
  /\ outAbort' = 0
  /\ outLock' = NoThread
  /\ pc' = [pc EXCEPT ![t] = "done"]
  /\ UNCHANGED <<opens, auOut, devOpen, ui, liveAtClose>>

\* Otherwise fill the buffer and AU_WriteFloat(auOut, ...): the device
\* written is whatever auOut holds at this moment.
GenWrite(t) ==
  /\ pc[t] = "check"
  /\ outAbort = 0
  /\ pc' = [pc EXCEPT ![t] = "unlock"]
  /\ UNCHANGED <<opens, auOut, devOpen, outAbort, outLock, ui, liveAtClose>>

\* AG_MutexUnlock, AG_Delay(200), df += 0.0001, back to the loop head.
GenUnlock(t) ==
  /\ pc[t] = "unlock"
  /\ outLock' = NoThread
  /\ pc' = [pc EXCEPT ![t] = "lock"]
  /\ UNCHANGED <<opens, auOut, devOpen, outAbort, ui, liveAtClose>>

GenSine(t) == GenLock(t) \/ GenAbort(t) \/ GenWrite(t) \/ GenUnlock(t)


Next ==
  \/ OpenFileOut
  \/ OpenAudioOut
  \/ CloseOutStart
  \/ CloseOutFinish
  \/ \E t \in Threads : GenSine(t)

\* The OS schedules every runnable thread: each generator and the GUI
\* thread's CloseOut loop keep running while they can.  The user's clicks
\* (Open*, CloseOutStart) are not assumed to happen.
Fairness ==
  /\ \A t \in Threads : WF_vars(GenSine(t))
  /\ WF_vars(CloseOutFinish)

Spec == Init /\ [][Next]_vars /\ Fairness

(* Properties                                                              *)

\* Every AU_WriteFloat in GenSine writes to a device that AU_OpenOut opened
\* and CloseOut has not closed (auOut is neither NULL nor closed).
WriteOnlyToOpenDevice ==
  [][\A t \in Threads : GenWrite(t) => auOut \in devOpen]_vars

\* When CloseOut returns, exactly one generator has stopped since it raised
\* outAbort: the flag handshake between CloseOut and GenSine neither lets
\* CloseOut return early nor stops more than one generator.
CloseStopsOneGenerator ==
  [][ui = "closing" /\ ui' = "idle" => Cardinality(Live') = liveAtClose - 1]_vars

\* A CloseOut started while a generator runs eventually returns to the
\* event loop.
CloseWithGeneratorReturns ==
  (ui = "closing" /\ liveAtClose > 0) ~> (ui = "idle")

\* Every CloseOut eventually returns to the event loop, which the GUI needs
\* to process the next event.
CloseOutReturns ==
  (ui = "closing") ~> (ui = "idle")

=============================================================================
