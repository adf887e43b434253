------------------------------ MODULE Signals ------------------------------
(***************************************************************************)
(* The signals of the daemon (src/src/daemon/signals.c).  sig_handler may  *)
(* interrupt the main thread between any two steps: it sets a flag and     *)
(* queues sig_handler_sync, which the main loop calls later and which      *)
(* serves every flag it finds set.                                         *)
(*                                                                         *)
(* The main loop is GLib's, external: it holds the lock of its context     *)
(* while it looks for what is due, and g_timeout_add takes that lock.      *)
(***************************************************************************)
EXTENDS Integers

CONSTANT MaxAsked    \* bound: signals of each kind

ASSUME BoundsAssumption == MaxAsked \in Nat

\* What the flags ask for, in the order sig_handler_sync looks at them; SIGINT,
\* SIGQUIT and SIGTERM are one.
Order == <<"hup", "usr1", "usr2", "exit">>
Kinds == {Order[i] : i \in 1..4}
Savers == {"hup", "usr2"}

VARIABLES
  pending,    \* the flags pending_sighup .. pending_exit
  queued,     \* calls of sig_handler_sync queued
  stage,      \* "loop", "test", "clear", "work", "save", "stuck" or "ended"
  at,         \* the flag sig_handler_sync is at
  saving,     \* state_saving
  locked,     \* the main loop holds the lock of its context
  quitting,   \* g_main_loop_quit was called
  asked,      \* history: signals received, by kind
  served      \* history: how many of them came before what serves them began

flags == <<pending, queued>>
place == <<stage, at>>
vars  == <<pending, queued, stage, at, saving, locked, quitting, asked, served>>

Stages == {"loop", "test", "clear", "work", "save", "stuck", "ended"}

TypeOK ==
  /\ pending \in [Kinds -> BOOLEAN] /\ queued \in Nat
  /\ stage \in Stages /\ at \in 1..4
  /\ saving = (stage = "save") /\ (stage = "save" => Order[at] \in Savers)
  /\ locked \in BOOLEAN /\ (locked => stage \in {"loop", "stuck"})
  /\ quitting \in BOOLEAN
  /\ asked \in [Kinds -> Nat] /\ served \in [Kinds -> Nat]
  /\ \A k \in Kinds : served[k] <= asked[k]

Init ==
  /\ pending = [k \in Kinds |-> FALSE] /\ queued = 0
  /\ stage = "loop" /\ at = 1
  /\ saving = FALSE /\ locked = FALSE /\ quitting = FALSE
  /\ asked = [k \in Kinds |-> 0] /\ served = [k \in Kinds |-> 0]

\* sig_handler.  One that comes while the loop holds the lock waits for the very
\* thread it interrupted, and the daemon hangs.
SignalUnlessHandling(k) ==
  /\ stage \notin {"stuck", "ended"} /\ asked[k] < MaxAsked
  /\ asked' = [asked EXCEPT ![k] = @ + 1]
  /\ pending' = [pending EXCEPT ![k] = TRUE]
  /\ IF locked THEN stage' = "stuck" /\ UNCHANGED queued
     ELSE queued' = (IF stage = "loop" THEN queued + 1 ELSE queued) /\ UNCHANGED stage
  /\ UNCHANGED <<at, saving, locked, quitting, served>>
Signal(k) ==
  /\ stage \notin {"stuck", "ended"} /\ asked[k] < MaxAsked
  /\ asked' = [asked EXCEPT ![k] = @ + 1]
  /\ pending' = [pending EXCEPT ![k] = TRUE]
  /\ IF locked THEN stage' = "stuck" /\ UNCHANGED queued
     ELSE queued' = queued + 1 /\ UNCHANGED stage
  /\ UNCHANGED <<at, saving, locked, quitting, served>>

-----------------------------------------------------------------------------
(* The main loop.                                                          *)

Lock ==
  /\ stage = "loop" /\ ~locked /\ locked' = TRUE
  /\ UNCHANGED <<flags, place, saving, quitting, asked, served>>

Unlock ==
  /\ stage = "loop" /\ locked /\ locked' = FALSE
  /\ UNCHANGED <<flags, place, saving, quitting, asked, served>>

\* Calls that are due are made although the loop was told to quit meanwhile.
Dispatch ==
  /\ stage = "loop" /\ ~locked /\ queued > 0
  /\ queued' = queued - 1 /\ stage' = "test" /\ at' = 1
  /\ UNCHANGED <<pending, saving, locked, quitting, asked, served>>

\* g_main_loop_run returns; main() saves and exits.
LoopEnds ==
  /\ stage = "loop" /\ ~locked /\ quitting /\ stage' = "ended"
  /\ UNCHANGED <<flags, at, saving, locked, quitting, asked, served>>

-----------------------------------------------------------------------------
(* sig_handler_sync, for each of the flags in turn.                        *)

\* The flag is done with.
GoOn == IF at = 4 THEN stage' = "loop" /\ UNCHANGED at ELSE stage' = "test" /\ at' = at + 1

\* A reload is deferred while the state is saved.
Test ==
  /\ stage = "test"
  /\ IF pending[Order[at]] /\ (Order[at] = "hup" => ~saving)
       THEN stage' = "clear" /\ UNCHANGED at ELSE GoOn
  /\ UNCHANGED <<flags, saving, locked, quitting, asked, served>>

\* The flag is cleared before what it asks for is done.
Clear ==
  /\ stage = "clear" /\ stage' = "work"
  /\ pending' = [pending EXCEPT ![Order[at]] = FALSE]
  /\ UNCHANGED <<queued, at, saving, locked, quitting, asked, served>>

\* What it asks for begins: SIGHUP has the configuration read, SIGUSR1 the
\* state and the statistics dumped, SIGUSR2 the state saved; the others end the
\* main loop.  After reading the configuration the state is saved too.
Work ==
  /\ stage = "work"
  /\ served' = [served EXCEPT ![Order[at]] = asked[Order[at]]]
  /\ quitting' = (quitting \/ Order[at] = "exit")
  /\ IF Order[at] \in Savers THEN stage' = "save" /\ saving' = TRUE /\ UNCHANGED at
     ELSE GoOn /\ UNCHANGED saving
  /\ UNCHANGED <<flags, locked, asked>>

\* The save is over.  A reload that came while SIGUSR2 saved is queued again.
SavedClearsAgain ==
  /\ stage = "save" /\ saving' = FALSE /\ GoOn
  /\ pending' = [pending EXCEPT ![Order[at]] = FALSE]
  /\ queued' = IF Order[at] = "usr2" /\ pending["hup"] THEN queued + 1 ELSE queued
  /\ UNCHANGED <<locked, quitting, asked, served>>
Saved ==
  /\ stage = "save" /\ saving' = FALSE /\ GoOn
  /\ queued' = IF Order[at] = "usr2" /\ pending["hup"] THEN queued + 1 ELSE queued
  /\ UNCHANGED <<pending, locked, quitting, asked, served>>

Handle == Test \/ Clear \/ Work \/ Saved

Next ==
  \/ \E k \in Kinds : Signal(k)
  \/ Lock \/ Unlock \/ Dispatch \/ LoopEnds \/ Handle

Spec == Init /\ [][Next]_vars

\* The loop dispatches what is due and ends when told; a callback goes on.
FairSpec ==
  Spec /\ WF_vars(Unlock) /\ SF_vars(Dispatch) /\ SF_vars(LoopEnds) /\ WF_vars(Handle)

-----------------------------------------------------------------------------
(* Properties.                                                             *)

\* The flag of kind i is still to be looked at by the call under way.
Ahead(i) == stage \in {"test", "clear", "work", "save"} /\ (at < i \/ (at = i /\ stage \in {"test", "clear"}))

\* A flag that is set will be looked at: a call of sig_handler_sync is queued,
\* or the one under way has not come to it yet.
NoneForgotten ==
  stage \notin {"stuck", "ended"} =>
    \A i \in 1..4 : pending[Order[i]] => queued > 0 \/ Ahead(i)

\* Each signal is served: what it asks for begins after it came, however the
\* signals and the steps of sig_handler_sync interleave, or the daemon has ended
\* or hangs.
EachServed ==
  \A k \in Kinds, n \in 1..MaxAsked :
    asked[k] >= n ~> served[k] >= n \/ stage \in {"ended", "stuck"}
=============================================================================
