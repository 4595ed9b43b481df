------------------------------ MODULE StateLog ------------------------------
(***************************************************************************)
(* The append-only event log on one git ref (tools/conductor/statelog.py)  *)
(* with the pushes of gitutil.py it is made of, shared by many writers.    *)
(*                                                                         *)
(* A commit is built with a fixed identity and date from the whole log     *)
(* text and its parent (gitutil.write_commit), so its OID is a function of *)
(* the event sequence it holds: an OID is modelled as that sequence, and   *)
(* two writers that append equal events to the same tip build the SAME     *)
(* commit.  A ref that does not exist is the empty sequence.               *)
(***************************************************************************)
EXTENDS Integers, Sequences, SequencesExt

CONSTANTS Writer,       \* processes that append
          MaxAppends,   \* bound: appends per writer
          MaxRetries,   \* append's max_retries
          Event,        \* the events
          EventOf,      \* EventOf[w, n]: the event of w's n-th append
          LossyAcks,    \* may an applied push be reported as a failure?
          FlakyFetch    \* may fetch_ref fail although the ref exists?

Ops == Writer \X (1..MaxAppends)

ASSUME StateLogAssumption ==
    /\ MaxAppends \in Nat
    /\ MaxRetries \in Nat \ {0}
    /\ EventOf \in [Ops -> Event]
    /\ LossyAcks \in BOOLEAN
    /\ FlakyFetch \in BOOLEAN

VARIABLES ref,          \* the remote ref: its tip OID, i.e. the logged events
          pc,           \* where each writer is in append()
          no,           \* how many appends each writer has begun
          tip,          \* the tip the writer read in this attempt
          attempt,      \* the number of this attempt
          acked         \* history: the appends that returned, with their slot

vars == <<ref, pc, no, tip, attempt, acked>>

NoTip == <<>>           \* fetch_ref returned None

Phase == {"idle", "read", "push", "exhausted"}

(***************************************************************************)
(* The pushes.  git calls a push of a commit the ref already holds         *)
(* "up-to-date" and exits 0 whatever the refspec or the lease says.        *)
(***************************************************************************)

FFPushAccepts(remote, commit) == IsPrefix(remote, commit)

\* Mutant of LeasePushAccepts: the lease names no expected value.
UnleasedPush(remote, commit, expected) ==
    IF expected = NoTip THEN FFPushAccepts(remote, commit) ELSE TRUE

LeasePushAccepts(remote, commit, expected) ==
    IF expected = NoTip THEN FFPushAccepts(remote, commit)
                        ELSE remote \in {expected, commit}

EventNow(w) == EventOf[<<w, no[w]>>]

\* Mutant of Candidate: the retry parents on the tip it read and its own lost
\* attempt, appending the event twice.
TwiceCandidate(w) ==
    IF attempt[w] > 1 THEN Append(Append(tip[w], EventNow(w)), EventNow(w))
                      ELSE Append(tip[w], EventNow(w))

Candidate(w) == Append(tip[w], EventNow(w))

Accepts(w) == LeasePushAccepts(ref, Candidate(w), tip[w])

-----------------------------------------------------------------------------

Init ==
    /\ ref = NoTip
    /\ pc = [w \in Writer |-> "idle"]
    /\ no = [w \in Writer |-> 0]
    /\ tip = [w \in Writer |-> NoTip]
    /\ attempt = [w \in Writer |-> 0]
    /\ acked = {}

\* A caller enters append(); a fresh run follows one that raised.
Begin(w) ==
    /\ pc[w] \in {"idle", "exhausted"}
    /\ no[w] < MaxAppends
    /\ no' = [no EXCEPT ![w] = @ + 1]
    /\ attempt' = [attempt EXCEPT ![w] = 1]
    /\ pc' = [pc EXCEPT ![w] = "read"]
    /\ UNCHANGED <<ref, tip, acked>>

\* read(): fetch the ref and parent the attempt on the tip it returns.
Read(w) ==
    /\ pc[w] = "read"
    /\ tip' = [tip EXCEPT ![w] = ref]
    /\ pc' = [pc EXCEPT ![w] = "push"]
    /\ UNCHANGED <<ref, no, attempt, acked>>

\* read() when the fetch fails: it is taken for a ref that does not exist.
ReadFails(w) ==
    /\ FlakyFetch
    /\ pc[w] = "read"
    /\ tip' = [tip EXCEPT ![w] = NoTip]
    /\ pc' = [pc EXCEPT ![w] = "push"]
    /\ UNCHANGED <<ref, no, attempt, acked>>

\* lease_push reports success: append() returns the new commit.
PushOk(w) ==
    /\ pc[w] = "push"
    /\ Accepts(w)
    /\ ref' = Candidate(w)
    /\ acked' = acked \cup
           {[writer |-> w, no |-> no[w], pos |-> Len(Candidate(w))]}
    /\ pc' = [pc EXCEPT ![w] = "idle"]
    /\ UNCHANGED <<no, tip, attempt>>

\* The loop's next turn, or RetriesExhausted after the last one.
Retry(w) ==
    /\ IF attempt[w] < MaxRetries
       THEN /\ attempt' = [attempt EXCEPT ![w] = @ + 1]
            /\ pc' = [pc EXCEPT ![w] = "read"]
       ELSE /\ pc' = [pc EXCEPT ![w] = "exhausted"]
            /\ UNCHANGED attempt
    /\ UNCHANGED <<no, tip, acked>>

PushRejected(w) ==
    /\ pc[w] = "push"
    /\ ~Accepts(w)
    /\ Retry(w)
    /\ UNCHANGED ref

\* The push was applied but git exits non-zero (the connection dropped).
PushUnheard(w) ==
    /\ LossyAcks
    /\ pc[w] = "push"
    /\ Accepts(w)
    /\ ref' = Candidate(w)
    /\ Retry(w)

\* The runner is killed inside append().
Crash(w) ==
    /\ pc[w] \in {"read", "push"}
    /\ pc' = [pc EXCEPT ![w] = "idle"]
    /\ UNCHANGED <<ref, no, tip, attempt, acked>>

Next ==
    \E w \in Writer :
        \/ Begin(w) \/ Read(w) \/ ReadFails(w)
        \/ PushOk(w) \/ PushRejected(w) \/ PushUnheard(w) \/ Crash(w)

Spec == Init /\ [][Next]_vars

-----------------------------------------------------------------------------
(* Properties *)

Ack == [writer : Writer, no : 1..MaxAppends, pos : Nat \ {0}]

TypeOK ==
    /\ ref \in Seq(Event)
    /\ pc \in [Writer -> Phase]
    /\ no \in [Writer -> 0..MaxAppends]
    /\ tip \in [Writer -> Seq(Event)]
    /\ attempt \in [Writer -> 0..MaxRetries]
    /\ acked \in SUBSET Ack

\* statelog.py:9-12: the ref is only ever extended, whatever interleaving,
\* stale tip, failed fetch or lost answer an attempt ran into.
AppendOnly == [][IsPrefix(ref, ref')]_ref

\* "Lost-update-free" (statelog.py:63), first half: an append that returned
\* finds its event at the slot its commit put it, now and ever after.
AckedStaysLogged ==
    \A a \in acked :
        /\ a.pos \in DOMAIN ref
        /\ ref[a.pos] = EventOf[<<a.writer, a.no>>]

\* "Lost-update-free", second half: no two returned appends share a slot, so
\* as many events are logged as appends returned.  It needs the appends'
\* events to differ: equal ones on equal tips are the same commit.
OwnSlot == \A a, b \in acked : a.pos = b.pos => a = b

\* StateLog implements EventLog.
Abstract == INSTANCE EventLog WITH log <- ref
ImplementsEventLog == Abstract!Spec
=============================================================================
