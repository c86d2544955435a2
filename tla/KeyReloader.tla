----------------------------- MODULE KeyReloader -----------------------------
(***************************************************************************)
(* The poller that puts a changed service-account key to work without a    *)
(* restart (stackit/keyreload.go), and the gauge that reports a rejected   *)
(* candidate (internal/controller/sakey_reload.go).                        *)
(*                                                                         *)
(* A poll reads the file once. Up to the provider probe it is one step;    *)
(* the probe's answer is a step of its own, because the file and the       *)
(* provider's opinion of the keys change while it is under way. A content  *)
(* stands for its hash. Log lines and counters are left out.               *)
(***************************************************************************)
EXTENDS Integers

CONSTANTS
  Contents,    \* the contents the key file takes
  Malformed,   \* those rejected without a call: unparsable, unusable, foreign project
  None,        \* no file, no hash, no probe under way
  Initial,     \* the key the process started on
  CapIntervals,\* reloadRejectBackoffMax in poll intervals, rounded down
  MaxChanges,  \* bound: changes of the file and of the provider's opinion
  MaxOutages   \* bound: probes the provider does not answer

ASSUME ReloaderAssumption ==
  /\ Malformed \subseteq Contents
  /\ None \notin Contents
  /\ Initial \in Contents \ Malformed
  /\ CapIntervals \in Nat
  /\ MaxChanges \in Nat /\ MaxOutages \in Nat

VARIABLES
  file,          \* what the key file holds; None: it cannot be read
  valid,         \* the keys the provider would mint a token for
  loaded,        \* the content the live credential was built from
  probing,       \* the candidate under probe
  backoffHash,   \* the content the current backoff was earned by
  waitIntervals, \* the gap to the retry after the next one
  ticksLeft,     \* the polls still to be skipped
  failing,       \* the gauge: the last reported poll rejected a candidate
  changes,       \* what is left of MaxChanges
  outages        \* what is left of MaxOutages

schedule == <<backoffHash, waitIntervals, ticksLeft>>
reloader == <<loaded, probing, schedule, failing>>
world == <<file, valid, changes, outages>>
vars == <<file, valid, loaded, probing, backoffHash, waitIntervals, ticksLeft,
          failing, changes, outages>>

\* Never below one: an interval longer than the cap still retries every poll.
MaxWaitIntervals == IF CapIntervals < 1 THEN 1 ELSE CapIntervals

Init ==
  /\ file = Initial /\ loaded = Initial
  /\ valid = {Initial}
  /\ probing = None
  /\ backoffHash = None /\ waitIntervals = 1 /\ ticksLeft = 0
  /\ failing = FALSE
  /\ changes = MaxChanges /\ outages = MaxOutages

----------------------------------------------------------------------------
(* The two ends of a poll. *)

\* Mutant of Settled: the candidate that earned the backoff is not forgotten.
SettledKeepsBackoff ==
  /\ waitIntervals' = 1 /\ ticksLeft' = 0 /\ UNCHANGED backoffHash
  /\ failing' = FALSE

Settled ==
  /\ waitIntervals' = 1 /\ ticksLeft' = 0 /\ backoffHash' = None
  /\ failing' = FALSE

Doubled(w) == IF w * 2 > MaxWaitIntervals THEN MaxWaitIntervals ELSE w * 2

\* Mutant of RejectedDefinitively: the wait of one candidate is charged to the next.
RejectedKeepsWait(hash) ==
  /\ ticksLeft' = waitIntervals - 1
  /\ waitIntervals' = waitIntervals * 2
  /\ backoffHash' = hash
  /\ failing' = TRUE

\* A rejection no retry of the same bytes can change: the retries of this
\* content move apart, and another content starts over.
RejectedDefinitively(hash) ==
  LET wait == IF hash = backoffHash THEN waitIntervals ELSE 1
  IN  /\ ticksLeft' = wait - 1
      /\ waitIntervals' = Doubled(wait)
      /\ backoffHash' = hash
      /\ failing' = TRUE

\* Nothing was learned about the candidate: it is retried at the next poll.
RejectedTransiently ==
  /\ ticksLeft' = 0
  /\ failing' = TRUE
  /\ UNCHANGED <<backoffHash, waitIntervals>>

----------------------------------------------------------------------------
(* tick. *)

\* Mutant of BackingOff: one poll too many is skipped.
BackingOffOnceMore == file = backoffHash /\ ticksLeft >= 0

BackingOff == file = backoffHash /\ ticksLeft > 0
Candidate == file \notin {None, loaded} /\ ~BackingOff

PollUnreadable ==
  /\ probing = None /\ file = None
  /\ RejectedTransiently
  /\ UNCHANGED <<loaded, probing, world>>

PollUnchanged ==
  /\ probing = None /\ file = loaded
  /\ Settled
  /\ UNCHANGED <<loaded, probing, world>>

\* Mutant of PollBackingOff: the skipped poll is not counted.
PollBackingOffForever ==
  /\ probing = None /\ file \notin {None, loaded} /\ BackingOff
  /\ UNCHANGED vars

PollBackingOff ==
  /\ probing = None /\ file \notin {None, loaded} /\ BackingOff
  /\ ticksLeft' = ticksLeft - 1
  /\ UNCHANGED <<loaded, probing, backoffHash, waitIntervals, failing, world>>

PollMalformed ==
  /\ probing = None /\ Candidate /\ file \in Malformed
  /\ RejectedDefinitively(file)
  /\ UNCHANGED <<loaded, probing, world>>

PollProbes ==
  /\ probing = None /\ Candidate /\ file \notin Malformed
  /\ probing' = file
  /\ UNCHANGED <<loaded, schedule, failing, world>>

\* Every check passed: the client's state is swapped, and only now.
ProbeAccepted ==
  /\ probing \in valid
  /\ loaded' = probing /\ probing' = None
  /\ Settled
  /\ UNCHANGED world

ProbeRefused ==
  /\ probing # None /\ probing \notin valid
  /\ RejectedDefinitively(probing)
  /\ probing' = None
  /\ UNCHANGED <<loaded, world>>

ProbeUnanswered ==
  /\ probing # None /\ outages > 0
  /\ outages' = outages - 1
  /\ RejectedTransiently
  /\ probing' = None
  /\ UNCHANGED <<loaded, file, valid, changes>>

Poll ==
  \/ PollUnreadable \/ PollUnchanged \/ PollBackingOff \/ PollMalformed \/ PollProbes
  \/ ProbeAccepted \/ ProbeRefused \/ ProbeUnanswered

----------------------------------------------------------------------------
(* The world: the mounted Secret is refreshed, keys are created and revoked. *)

FileChanges(c) ==
  /\ changes > 0 /\ changes' = changes - 1
  /\ c # file /\ file' = c
  /\ UNCHANGED <<valid, outages, reloader>>

KeyGranted(c) ==
  /\ changes > 0 /\ changes' = changes - 1
  /\ c \notin valid /\ valid' = valid \cup {c}
  /\ UNCHANGED <<file, outages, reloader>>

KeyRevoked(c) ==
  /\ changes > 0 /\ changes' = changes - 1
  /\ c \in valid /\ valid' = valid \ {c}
  /\ UNCHANGED <<file, outages, reloader>>

Next ==
  \/ Poll
  \/ \E c \in Contents \cup {None} : FileChanges(c)
  \/ \E c \in Contents \ Malformed : KeyGranted(c) \/ KeyRevoked(c)

Spec == Init /\ [][Next]_vars

\* The ticker fires and a probe ends, by its timeout if nothing else.
FairSpec == Spec /\ WF_vars(Poll)

----------------------------------------------------------------------------
(* Properties. *)

TypeOK ==
  /\ file \in Contents \cup {None}
  /\ valid \in SUBSET Contents
  /\ loaded \in Contents
  /\ probing \in Contents \cup {None}
  /\ backoffHash \in Contents \cup {None}
  /\ waitIntervals \in Nat /\ ticksLeft \in Nat
  /\ failing \in BOOLEAN
  /\ changes \in Nat /\ outages \in Nat

\* The schedule of tick and rejected: a wait is always owed to some rejected
\* content, it is shorter than the gap already granted to the next retry, and
\* no number of rejections pushes either past the cap; without a rejected
\* content the schedule is the initial one.
BackoffCoherent ==
  /\ 1 <= waitIntervals /\ waitIntervals <= MaxWaitIntervals
  /\ ticksLeft < waitIntervals
  /\ backoffHash = None => waitIntervals = 1 /\ ticksLeft = 0

\* The gauge of Observe does not go quiet on a rejected key: for as long as some
\* content is on the rejection schedule, the polls it silently skips included,
\* the gauge reports failing and that content is not the one in use.
AlarmStands == backoffHash # None => failing /\ backoffHash # loaded

\* A usable key in the file is put to work, however often it was rejected or
\* went unanswered before (tick: the schedule never stops looking).
GoodKeyApplied ==
  \A c \in Contents \ Malformed :
    (file = c /\ c \in valid) ~> (loaded = c \/ file # c \/ c \notin valid)

=============================================================================
