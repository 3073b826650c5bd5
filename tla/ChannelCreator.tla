--------------------------- MODULE ChannelCreator ---------------------------
(***************************************************************************)
(* The account that pays for new channel accounts of the managed pool, and *)
(* the monitor that warns its operators.  A call provisions one missing    *)
(* channel: it looks for the account, loads the creator, lets the monitor  *)
(* judge the balance it saw, submits a CreateAccount transaction built on  *)
(* the creator's sequence number, and judges the balance again.            *)
(*                                                                         *)
(* The monitor is one row of PostgreSQL per network.  An alert about its   *)
(* state is claimed in the row, sent, and given back when sending fails;   *)
(* calls of several requests do this at the same time, each with the       *)
(* snapshot of the account it holds.  An episode is the time the row keeps *)
(* one state.  Alerts have a configured destination; the ledger's base fee *)
(* and the creator's reserve are left out of the balance.                  *)
(***************************************************************************)
EXTENDS Integers, Sequences

CONSTANTS
    Provisions,   \* calls that can be in progress at the same time
    Accounts,     \* channel accounts that may be missing
    Null,
    Cost,         \* what the next channel requires of the balance
    Low, Recovery,    \* thresholds of the balance
    Funding, Amounts, \* balance at first, and what operators may add
    Retries,      \* CREATOR_SEQUENCE_RETRIES
    MaxTopUps, MaxCalls, MaxMishaps, MaxInstant    \* bounds

States == {"ready", "low", "insufficient"}
MonitorRow == [state : States, alerted : Nat \cup {Null}]

ASSUME CreatorAssumption ==
    /\ {Low, Recovery, Funding, MaxTopUps, MaxCalls, MaxMishaps, MaxInstant} \subseteq Nat
    /\ Amounts \subseteq Nat
    /\ Cost \in Nat \ {0} /\ Retries \in Nat \ {0} /\ Low <= Recovery
    /\ Null \notin Nat \cup States /\ Null \notin MonitorRow

VARIABLES
    balance, nextSequence,   \* the creator on the ledger
    existing,     \* channel accounts on the ledger
    pending,      \* submitted transactions whose outcome nobody was told
    row,          \* classic_managed_channel_creator_monitor
    call,         \* what each call remembers
    instant,      \* the time, as the calls read it
    topUps, calls, mishaps,  \* how much of the bounds is used
    told,         \* alerts that arrived, by episode
    excused,      \* episodes whose claim a failed call gave back for another reason
    lost          \* episodes whose claim nobody will give back

ledger == <<balance, nextSequence, existing, pending>>
bounds == <<instant, topUps, calls, mishaps>>
record == <<told, excused, lost>>
creatorVars == <<ledger, row, call, bounds, record>>

NoCall == [step |-> "idle", account |-> Null, monitored |-> FALSE, now |-> 0,
           attempt |-> 0, after |-> FALSE, balance |-> 0, sequence |-> 0,
           previous |-> Null, replaced |-> Null, state |-> "ready",
           event |-> Null, episode |-> 0, arrived |-> FALSE, again |-> FALSE]

CreatorInit ==
    /\ balance = Funding /\ nextSequence = 1 /\ existing = {} /\ pending = {}
    /\ row = Null
    /\ call = [c \in Provisions |-> NoCall]
    /\ instant = 1 /\ topUps = 0 /\ calls = 0 /\ mishaps = 0
    /\ told = <<>> /\ excused = {} /\ lost = {}

At(c, step) == call[c].step = step
Become(c, new) == call' = [call EXCEPT ![c] = new]
Proceed(c, step) == call' = [call EXCEPT ![c].step = step]
Mishap == mishaps < MaxMishaps /\ mishaps' = mishaps + 1
Uneventful == UNCHANGED bounds
Episode == Len(told)

-----------------------------------------------------------------------------
(* What the monitor makes of a balance.                                    *)

\* assessClassicManagedChannelCreatorCapacity: once low, low up to Recovery.
assessCapacity(amount, previous) ==
    LET threshold == IF previous \in {"low", "insufficient"} THEN Recovery ELSE Low IN
    CASE amount < Cost -> "insufficient"
      [] amount >= Cost /\ amount < threshold -> "low"
      [] OTHER -> "ready"

alertEvent(previous, current) ==
    CASE current = "insufficient" -> "capacity_exhausted"
      [] current = "low" /\ previous # "insufficient" -> "low_balance"
      [] current = "ready" /\ previous \in {"low", "insufficient"} -> "balance_recovered"
      [] OTHER -> Null

\* What the call keeps when it starts another step of its own.
Own(j, step) ==
    [NoCall EXCEPT !.step = step, !.account = j.account,
                   !.monitored = j.monitored, !.now = j.now,
                   !.attempt = j.attempt, !.after = j.after]

\* The monitor is done: the call creates the channel, refuses, or returns.
Judged(j) ==
    IF j.after \/ j.state = "insufficient" THEN NoCall
    ELSE [Own(j, "submit") EXCEPT !.sequence = j.sequence]

-----------------------------------------------------------------------------
(* provisionManagedChannelWithCreator.                                     *)

\* A call for a Request that already holds its lease has no monitor.
Start(c, a, monitored) ==
    /\ At(c, "idle") /\ calls < MaxCalls
    /\ calls' = calls + 1
    /\ instant' \in {instant, instant + 1} /\ instant' <= MaxInstant
    /\ Become(c, [NoCall EXCEPT !.step = "check", !.account = a,
                                !.monitored = monitored, !.now = instant'])
    /\ UNCHANGED <<ledger, row, topUps, mishaps, record>>

CheckAccount(c) ==
    /\ At(c, "check")
    /\ IF call[c].account \in existing THEN Become(c, NoCall) ELSE Proceed(c, "source")
    /\ UNCHANGED <<ledger, row, record>> /\ Uneventful

LoadCreator(c) ==
    /\ At(c, "source")
    /\ Become(c, [call[c] EXCEPT !.step = "get", !.balance = balance,
                                 !.sequence = nextSequence])
    /\ UNCHANGED <<ledger, row, record>> /\ Uneventful

\* The accepted transaction, now or once a pending one lands.
Applied(tx) ==
    /\ nextSequence' = nextSequence + 1
    /\ IF tx.account \notin existing /\ balance >= Cost
       THEN existing' = existing \cup {tx.account} /\ balance' = balance - Cost
       ELSE UNCHANGED <<existing, balance>>

Transaction(c) == [account |-> call[c].account, sequence |-> call[c].sequence]

\* submitTransactionXdr is answered: created, an operation failed, tx_bad_seq.
SubmitCreation(c) ==
    /\ At(c, "submit")
    /\ IF call[c].sequence = nextSequence
       THEN /\ Applied(Transaction(c))
            /\ Become(c, IF existing' # existing
                         THEN [Own(call[c], "source") EXCEPT !.after = TRUE]
                         ELSE Own(call[c], "verify"))
       ELSE /\ Become(c, [Own(call[c], "verify") EXCEPT !.again = TRUE])
            /\ UNCHANGED <<balance, nextSequence, existing>>
    /\ UNCHANGED <<pending, row, record>> /\ Uneventful

\* It is not answered: the outcome is unknown.
SubmitUnanswered(c) ==
    /\ At(c, "submit") /\ Mishap
    /\ pending' = pending \cup {Transaction(c)}
    /\ Become(c, [Own(call[c], "verify") EXCEPT !.again = TRUE])
    /\ UNCHANGED <<balance, nextSequence, existing, row, instant, topUps, calls, record>>

\* A failed submission: the account may be there, another attempt may be left.
Verify(c) ==
    LET j == call[c] IN
    /\ At(c, "verify")
    /\ \/ /\ j.account \in existing
          /\ Become(c, [Own(j, "source") EXCEPT !.after = TRUE])
       \/ /\ j.account \notin existing /\ j.again /\ j.attempt + 1 < Retries
          /\ Become(c, [Own(j, "check") EXCEPT !.attempt = @ + 1])
       \/ /\ j.account \notin existing /\ ~ (j.again /\ j.attempt + 1 < Retries)
          /\ Become(c, NoCall)
    /\ UNCHANGED <<ledger, row, record>> /\ Uneventful

-----------------------------------------------------------------------------
(* observeClassicManagedChannelCreator.                                    *)

Assessed(c, previous) ==
    [call[c] EXCEPT !.previous = previous, !.state = assessCapacity(call[c].balance, previous)]

Stored == IF row = Null THEN Null ELSE row.state

\* The state that was there, when the call has a monitor.
ReadMonitor(c) ==
    /\ At(c, "get")
    /\ IF call[c].monitored
       THEN Become(c, [Assessed(c, Stored) EXCEPT !.step = "observe"])
       ELSE Become(c, Judged(Assessed(c, Null)))
    /\ UNCHANGED <<ledger, row, record>> /\ Uneventful

\* A read that fails is a state that is not known.
ReadMonitorFails(c) ==
    /\ At(c, "get") /\ call[c].monitored /\ Mishap
    /\ Become(c, [Assessed(c, Null) EXCEPT !.step = "observe"])
    /\ UNCHANGED <<ledger, row, instant, topUps, calls, record>>

\* Fault: every observation clears the claim.
ClearedAlert(state) == Null

\* A claim lasts as long as the state.
KeptAlert(state) == IF Stored = state THEN row.alerted ELSE Null

\* observe: the row's state, and whether this one needs an alert.
Observe(c) ==
    LET j == call[c]
        event == alertEvent(Stored, j.state) IN
    /\ At(c, "observe")
    /\ row' = [state |-> j.state, alerted |-> KeptAlert(j.state)]
    /\ told' = IF Stored = j.state THEN told ELSE Append(told, 0)
    /\ Become(c, IF event = Null THEN Judged(j)
                 ELSE [j EXCEPT !.step = "claim", !.event = event, !.replaced = Stored])
    /\ UNCHANGED <<ledger, excused, lost>> /\ Uneventful

\* claimAlert, by the state alone.
ClaimAlert(c) ==
    LET j == call[c] IN
    /\ At(c, "claim")
    /\ IF row.state = j.state /\ row.alerted = Null
       THEN /\ row' = [row EXCEPT !.alerted = j.now]
            /\ Become(c, [j EXCEPT !.step = "send", !.episode = Episode])
       ELSE /\ Become(c, Judged(j)) /\ UNCHANGED row
    /\ UNCHANGED <<ledger, record>> /\ Uneventful

Arrives(c) == told' = [told EXCEPT ![call[c].episode] = @ + 1]

SendAlert(c) ==
    /\ At(c, "send")
    /\ Arrives(c) /\ Become(c, Judged(call[c]))
    /\ UNCHANGED <<ledger, row, excused, lost>> /\ Uneventful

\* A refusal, or a timeout after which the alert may have arrived.
SendAlertFails(c) ==
    /\ At(c, "send") /\ Mishap
    /\ \E arrived \in BOOLEAN :
          /\ IF arrived THEN Arrives(c) ELSE UNCHANGED told
          /\ Become(c, [call[c] EXCEPT !.step = "release", !.arrived = arrived])
    /\ UNCHANGED <<ledger, row, instant, topUps, calls, excused, lost>>

\* releaseAlertClaim, by state and instant.
ReleaseAlert(c) ==
    LET j == call[c] IN
    /\ At(c, "release")
    /\ IF row.state = j.state /\ row.alerted = j.now
       THEN /\ row' = [row EXCEPT !.alerted = Null]
            /\ excused' = IF j.arrived \/ j.episode # Episode THEN excused \cup {Episode}
                          ELSE excused
       ELSE UNCHANGED <<row, excused>>
    /\ Become(c, Judged(j))
    /\ UNCHANGED <<ledger, told, lost>> /\ Uneventful

\* A database error while the monitor works: logged, and the call goes on.
MonitorFails(c) ==
    LET j == call[c] IN
    /\ j.step \in {"observe", "claim", "release"} /\ Mishap
    /\ Become(c, Judged(j))
    /\ lost' = IF j.step = "release" THEN lost \cup {j.episode} ELSE lost
    /\ UNCHANGED <<ledger, row, instant, topUps, calls, told, excused>>

-----------------------------------------------------------------------------
(* Around the calls.                                                       *)

\* The process stops, or a request to Horizon fails and the call throws.
ProvisionStops(c) ==
    LET j == call[c] IN
    /\ j.step # "idle" /\ Mishap
    /\ Become(c, NoCall)
    /\ lost' = IF j.step \in {"send", "release"} THEN lost \cup {j.episode} ELSE lost
    /\ UNCHANGED <<ledger, row, instant, topUps, calls, told, excused>>

\* A transaction of unknown outcome lands, or is dropped.
Land(tx) ==
    /\ pending' = pending \ {tx}
    /\ IF tx.sequence = nextSequence THEN Applied(tx)
       ELSE UNCHANGED <<balance, nextSequence, existing>>
    /\ UNCHANGED <<row, call, record>> /\ Uneventful

Lapse(tx) ==
    /\ pending' = pending \ {tx}
    /\ UNCHANGED <<balance, nextSequence, existing, row, call, record>> /\ Uneventful

Deposit ==
    /\ topUps < MaxTopUps /\ topUps' = topUps + 1
    /\ \E amount \in Amounts : balance' = balance + amount
    /\ UNCHANGED <<nextSequence, existing, pending, row, call, instant, calls, mishaps, record>>

CreatorNext ==
    \/ \E c \in Provisions :
          \/ \E a \in Accounts, monitored \in BOOLEAN : Start(c, a, monitored)
          \/ CheckAccount(c) \/ LoadCreator(c) \/ SubmitCreation(c) \/ SubmitUnanswered(c)
          \/ Verify(c) \/ ReadMonitor(c) \/ ReadMonitorFails(c) \/ Observe(c)
          \/ ClaimAlert(c) \/ SendAlert(c) \/ SendAlertFails(c) \/ ReleaseAlert(c)
          \/ MonitorFails(c) \/ ProvisionStops(c)
    \/ \E tx \in pending : Land(tx) \/ Lapse(tx)
    \/ Deposit

CreatorSpec == CreatorInit /\ [][CreatorNext]_creatorVars

-----------------------------------------------------------------------------
(* Properties.                                                             *)

\* An episode is announced twice only if a send that arrived was reported as
\* failed, or a call that claimed an earlier episode at the same instant gave
\* this one's claim back.
RepeatsHaveACause == \A e \in DOMAIN told : told[e] > 1 => e \in excused

\* A claimed row was announced, or is about to be, or its claimant stopped.
ClaimsAreKept ==
    row # Null /\ row.alerted # Null =>
        \/ told[Episode] > 0 \/ Episode \in lost
        \/ \E c \in Provisions :
              call[c].step \in {"send", "release"} /\ call[c].episode = Episode

\* A recovery below the recovery threshold is announced only by a call whose
\* read of the row failed or was overtaken before its write.
RecoveryIsSeen ==
    \A c \in Provisions :
        call[c].step \in {"claim", "send"} /\ call[c].event = "balance_recovered"
            /\ call[c].balance < Recovery
        => call[c].previous # call[c].replaced

\* What operators are told of the creator's balance: no episode twice, none
\* claimed and then forgotten, no recovery that the hysteresis excludes,
\* whatever observations overlap, except for the causes named above.
AlertsAreAccounted == RepeatsHaveACause /\ ClaimsAreKept /\ RecoveryIsSeen
=============================================================================
