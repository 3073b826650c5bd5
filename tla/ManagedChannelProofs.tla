------------------------ MODULE ManagedChannelProofs ------------------------
(***************************************************************************)
(* What a lease of ManagedChannel guarantees, for any calls, Requests and  *)
(* pool.  The invariant follows a Request that a single call works on: no  *)
(* other call holds or drops its lease, so the lease lasts as long as its  *)
(* expiry says, or until the call that stored the Request cannot read it.  *)
(*                                                                         *)
(* And what ChannelCreator's monitor guarantees: the alert of an episode   *)
(* is the business of one call at a time, whose claim the row shows.       *)
(***************************************************************************)
EXTENDS ManagedChannel, ChannelCreator, TLAPS

Leaseless(r) == \A c \in Channels : lease[c] # None => lease[c].request # r

\* A call has a Request and a start in the past; a Request that left a trace
\* was begun, and one begun once has one call.
CallsCounted ==
    /\ \A j \in Jobs : /\ (job[j].at = "idle" <=> job[j].request = None)
                       /\ job[j].now <= clock
                       /\ job[j].request # None => starts[job[j].request] >= 1
    /\ \A r \in Requests : stored[r] # None \/ ~Leaseless(r) => starts[r] >= 1
    /\ \A j, k \in Jobs :
           /\ job[j].request # None /\ job[j].request = job[k].request
           /\ starts[job[j].request] = 1
           => j = k

Early == {"list", "find", "claim", "load", "build"}

\* The only call for Request r has found nothing that it did not leave there.
SoleCallKeeps(j, r) ==
    /\ job[j].at \in {"list", "find", "claim"} => Leaseless(r)
    /\ job[j].at \in Early \cup {"write"} => stored[r] = None
    /\ job[j].at = "drop" => stored[r] = None \/ r \in unread
    /\ /\ job[j].at \in {"load", "build", "write"}
       /\ clock < LeaseExpiry(job[j].now)
       => lease[job[j].channel] =
              [request |-> r, expires |-> LeaseExpiry(job[j].now)]

SoleCallsKeep ==
    \A j \in Jobs, r \in Requests :
        job[j].request = r /\ starts[r] = 1 => SoleCallKeeps(j, r)

Known == TypeOK /\ CallsCounted
IInv == Known /\ SoleCallsKeep /\ ActiveRequestKeepsItsLease

-----------------------------------------------------------------------------
(* Values.                                                                 *)

\* The pool's order stays in the pool.
LEMMA CandidateType ==
    ASSUME NEW r \in Requests, NEW k \in Channels
    PROVE  Candidate(r, k) \in Channels
<1>1. Baseline \in Nat \ {0} /\ MaxIndex \in Nat /\ Baseline <= MaxIndex
      BY ChannelAssumption
<1>2. Offset[r] \in Nat /\ k \in Nat
      BY ChannelAssumption DEF Channels
<1>3. (Offset[r] + k) % Baseline \in 0 .. Baseline - 1
      BY <1>1, <1>2
<1> QED
    BY <1>1, <1>3 DEF Candidate, Channels

\* A released Request has no lease, the others keep theirs.
LEMMA ReleasedType ==
    ASSUME NEW r, lease \in [Channels -> Lease \cup {None}]
    PROVE  /\ Released(r) \in [Channels -> Lease \cup {None}]
           /\ \A c \in Channels :
                  /\ lease[c] = None => Released(r)[c] = None
                  /\ lease[c] # None /\ lease[c].request = r
                         => Released(r)[c] = None
                  /\ lease[c] # None /\ lease[c].request # r
                         => Released(r)[c] = lease[c]
BY DEF Released, HeldBy, Leased

\* A call that begins or ends is well typed.
LEMMA IdleType == Idle \in Job
BY ChannelAssumption DEF Idle, Job, Channels

LEMMA EndType ==
    ASSUME TypeOK, NEW j \in Jobs, End(j)
    PROVE  job' \in [Jobs -> Job]
BY IdleType DEF End, TypeOK

LEMMA GotoType ==
    ASSUME TypeOK, NEW j \in Jobs,
           NEW l \in {"list", "find", "claim", "load", "build", "write",
                      "failed", "drop"},
           Goto(j, l)
    PROVE  job' \in [Jobs -> Job]
<1>1. [job[j] EXCEPT !.at = l] \in Job
      BY DEF TypeOK, Job
<1> QED
    BY <1>1 DEF Goto, TypeOK

\* The constants that are numbers, one by one.
LEMMA Numbers ==
    /\ Baseline \in Nat \ {0} /\ MaxIndex \in Nat /\ Baseline <= MaxIndex
    /\ Lifetime \in Nat /\ Grace \in Nat
    /\ MaxStarts \in Nat /\ MaxClock \in Nat
BY ChannelAssumption

\* What FindLease decides.
LEMMA FindLeaseChoice ==
    ASSUME NEW j \in Jobs, FindLease(j)
    PROVE  /\ clock' = clock /\ lease' = lease /\ stored' = stored
           /\ sequence' = sequence /\ onLedger' = onLedger /\ starts' = starts
           /\ unread' = unread
           /\ job[j].at = "find"
           /\ \/ /\ \A c \in Channels :
                        lease[c] # None => lease[c].request # job[j].request
                 /\ job' = [job EXCEPT ![j].at = "claim"]
              \/ \E c \in Channels :
                    /\ lease[c] # None /\ lease[c].request = job[j].request
                    /\ job' = [job EXCEPT ![j].at = "load", ![j].channel = c,
                                         ![j].reused = TRUE]
<1>1. CASE HeldBy(job[j].request) = {}
      BY <1>1 DEF FindLease, HeldBy, Leased, Goto, store
<1>2. CASE HeldBy(job[j].request) # {}
      BY <1>2 DEF FindLease, HeldBy, Leased, store
<1> QED
    BY <1>1, <1>2

LEMMA FindLeaseJob ==
    ASSUME TypeOK, NEW j \in Jobs, FindLease(j)
    PROVE  /\ \A k \in Jobs \ {j} : job'[k] = job[k]
           /\ job'[j].at \in {"claim", "load"}
           /\ job'[j].request = job[j].request /\ job'[j].now = job[j].now
<1>1. job \in [Jobs -> Job]
      BY DEF TypeOK
<1>2. CASE job' = [job EXCEPT ![j].at = "claim"]
      BY <1>1, <1>2 DEF Job
<1>3. ASSUME NEW c \in Channels,
             job' = [job EXCEPT ![j].at = "load", ![j].channel = c,
                                ![j].reused = TRUE]
      PROVE  /\ \A k \in Jobs \ {j} : job'[k] = job[k]
             /\ job'[j].at \in {"claim", "load"}
             /\ job'[j].request = job[j].request /\ job'[j].now = job[j].now
      BY <1>1, <1>3 DEF Job
<1> QED
    BY <1>2, <1>3, FindLeaseChoice

-----------------------------------------------------------------------------
(* Types.                                                                  *)

LEMMA TypeBegin ==
    ASSUME TypeOK, CallsCounted, NEW j \in Jobs, NEW r \in Requests, Begin(j, r)
    PROVE  TypeOK'
<1>lease. lease' \in [Channels -> Lease \cup {None}]
    BY DEF Begin, TypeOK, store
<1>unique. \A c, d \in Leased' : lease'[c].request = lease'[d].request => c = d
    BY DEF Begin, TypeOK, Leased, store
<1>stored. stored' \in [Requests -> StoredRequest \cup {None}]
    BY DEF Begin, TypeOK, store
<1>ledger. onLedger' \subseteq {q \in Requests : stored'[q] # None}
    BY DEF Begin, TypeOK, store
<1>job. job' \in [Jobs -> Job]
  <2>1. clock \in Nat /\ clock + Lifetime \in Nat /\ job[j] \in Job
        BY Numbers DEF TypeOK
  <2>2. [Idle EXCEPT !.at = "list", !.request = r, !.now = clock] \in Job
        BY <2>1, IdleType DEF Begin, TypeOK, Job
  <2> QED
      BY <2>2 DEF Begin, TypeOK
<1>rest. /\ clock' \in 0 .. MaxClock /\ sequence' \in [Channels -> Nat]
         /\ starts' \in [Requests -> 0 .. MaxStarts] /\ unread' \subseteq Requests
    BY ChannelAssumption DEF Begin, TypeOK, store
<1> QED
    BY <1>lease, <1>unique, <1>stored, <1>ledger, <1>job, <1>rest DEF TypeOK

LEMMA TypeListLeases ==
    ASSUME TypeOK, CallsCounted, NEW j \in Jobs, ListLeases(j)
    PROVE  TypeOK'
<1>lease. lease' \in [Channels -> Lease \cup {None}]
    BY DEF ListLeases, TypeOK, store
<1>unique. \A c, d \in Leased' : lease'[c].request = lease'[d].request => c = d
    BY DEF ListLeases, TypeOK, Leased, store
<1>stored. stored' \in [Requests -> StoredRequest \cup {None}]
    BY DEF ListLeases, TypeOK, store
<1>ledger. onLedger' \subseteq {q \in Requests : stored'[q] # None}
    BY DEF ListLeases, TypeOK, store
<1>job. job' \in [Jobs -> Job]
  <2>1. clock \in Nat /\ clock + Lifetime \in Nat /\ job[j] \in Job
        BY Numbers DEF TypeOK
  <2>2. [job[j] EXCEPT !.at = "find", !.candidates = Reach] \in Job
        BY <2>1 DEF Reach, Job
  <2> QED
      BY <2>2 DEF ListLeases, TypeOK
<1>rest. /\ clock' \in 0 .. MaxClock /\ sequence' \in [Channels -> Nat]
         /\ starts' \in [Requests -> 0 .. MaxStarts] /\ unread' \subseteq Requests
    BY DEF ListLeases, TypeOK, store
<1> QED
    BY <1>lease, <1>unique, <1>stored, <1>ledger, <1>job, <1>rest DEF TypeOK

LEMMA TypeFindLease ==
    ASSUME TypeOK, CallsCounted, NEW j \in Jobs, FindLease(j)
    PROVE  TypeOK'
<1>lease. lease' \in [Channels -> Lease \cup {None}]
    BY DEF FindLease, TypeOK, store
<1>unique. \A c, d \in Leased' : lease'[c].request = lease'[d].request => c = d
    BY DEF FindLease, TypeOK, Leased, store
<1>stored. stored' \in [Requests -> StoredRequest \cup {None}]
    BY DEF FindLease, TypeOK, store
<1>ledger. onLedger' \subseteq {q \in Requests : stored'[q] # None}
    BY DEF FindLease, TypeOK, store
<1>job. job' \in [Jobs -> Job]
  <2>1. \A c \in Channels :
            [job[j] EXCEPT !.at = "load", !.channel = c, !.reused = TRUE] \in Job
        BY DEF TypeOK, Job
  <2>2. HeldBy(job[j].request) \subseteq Channels
        BY DEF HeldBy, Leased
  <2>3. CASE HeldBy(job[j].request) # {}
    <3>1. PICK c \in Channels :
              job' = [job EXCEPT ![j].at = "load", ![j].channel = c,
                                 ![j].reused = TRUE]
          BY <2>2, <2>3 DEF FindLease
    <3> QED
        BY <2>1, <3>1 DEF TypeOK
  <2>4. CASE HeldBy(job[j].request) = {}
        BY <2>4, GotoType DEF FindLease
  <2> QED
      BY <2>3, <2>4
<1>rest. /\ clock' \in 0 .. MaxClock /\ sequence' \in [Channels -> Nat]
         /\ starts' \in [Requests -> 0 .. MaxStarts] /\ unread' \subseteq Requests
    BY DEF FindLease, TypeOK, store
<1> QED
    BY <1>lease, <1>unique, <1>stored, <1>ledger, <1>job, <1>rest DEF TypeOK

LEMMA TypeClaim ==
    ASSUME TypeOK, CallsCounted, NEW j \in Jobs, Claim(j)
    PROVE  TypeOK'
<1>1. job[j] \in Job /\ job[j].request \in Requests
      BY DEF TypeOK, CallsCounted, Claim, Job
<1>2. Candidate(job[j].request, job[j].tried) \in Channels
      BY <1>1, CandidateType DEF Job
<1>3. LeaseExpiry(job[j].now) \in Nat
      BY <1>1, Numbers DEF Job, LeaseExpiry
<1>4. [request |-> job[j].request, expires |-> LeaseExpiry(job[j].now)] \in Lease
      BY <1>1, <1>3 DEF Lease
<1>lease. lease' \in [Channels -> Lease \cup {None}]
    BY <1>2, <1>4 DEF Claim, TypeOK
<1>unique. \A c, d \in Leased' : lease'[c].request = lease'[d].request => c = d
    BY <1>lease DEF Claim, Unique, HeldBy, TypeOK, Leased
<1>stored. stored' \in [Requests -> StoredRequest \cup {None}]
    BY DEF Claim, TypeOK
<1>ledger. onLedger' \subseteq {q \in Requests : stored'[q] # None}
    BY DEF Claim, TypeOK
<1>job. job' \in [Jobs -> Job]
  <2> DEFINE c == Candidate(job[j].request, job[j].tried)
  <2>1. c \in Channels
        BY <1>1, CandidateType DEF Job
  <2>2. [job[j] EXCEPT !.at = "load", !.channel = c] \in Job
        BY <1>1, <2>1 DEF Job
  <2>3. ASSUME job[j].tried + 1 \in job[j].candidates
        PROVE  [job[j] EXCEPT !.tried = @ + 1] \in Job
        BY <1>1, <2>3 DEF Job
  <2> QED
      BY <2>2, <2>3, EndType DEF Claim, TypeOK
<1>rest. /\ clock' \in 0 .. MaxClock /\ sequence' \in [Channels -> Nat]
         /\ starts' \in [Requests -> 0 .. MaxStarts] /\ unread' \subseteq Requests
    BY DEF Claim, TypeOK
<1> QED
    BY <1>lease, <1>unique, <1>stored, <1>ledger, <1>job, <1>rest DEF TypeOK

LEMMA TypeLoadAccount ==
    ASSUME TypeOK, CallsCounted, NEW j \in Jobs, LoadAccount(j)
    PROVE  TypeOK'
<1>lease. lease' \in [Channels -> Lease \cup {None}]
    BY DEF LoadAccount, TypeOK, store
<1>unique. \A c, d \in Leased' : lease'[c].request = lease'[d].request => c = d
    BY DEF LoadAccount, TypeOK, Leased, store
<1>stored. stored' \in [Requests -> StoredRequest \cup {None}]
    BY DEF LoadAccount, TypeOK, store
<1>ledger. onLedger' \subseteq {q \in Requests : stored'[q] # None}
    BY DEF LoadAccount, TypeOK, store
<1>job. job' \in [Jobs -> Job]
  <2>1. clock \in Nat /\ clock + Lifetime \in Nat /\ job[j] \in Job
        BY Numbers DEF TypeOK
  <2>2. [job[j] EXCEPT !.at = "build",
                  !.sequence = sequence[job[j].channel]] \in Job
        BY <2>1 DEF LoadAccount, TypeOK, Job
  <2> QED
      BY <2>2 DEF LoadAccount, TypeOK
<1>rest. /\ clock' \in 0 .. MaxClock /\ sequence' \in [Channels -> Nat]
         /\ starts' \in [Requests -> 0 .. MaxStarts] /\ unread' \subseteq Requests
    BY DEF LoadAccount, TypeOK, store
<1> QED
    BY <1>lease, <1>unique, <1>stored, <1>ledger, <1>job, <1>rest DEF TypeOK

LEMMA TypeLoadFails ==
    ASSUME TypeOK, CallsCounted, NEW j \in Jobs, LoadFails(j)
    PROVE  TypeOK'
<1>lease. lease' \in [Channels -> Lease \cup {None}]
    BY NoneAssumption, ReleasedType DEF LoadFails, TypeOK
<1>unique. \A c, d \in Leased' : lease'[c].request = lease'[d].request => c = d
    BY <1>lease, ReleasedType DEF LoadFails, TypeOK, Leased
<1>stored. stored' \in [Requests -> StoredRequest \cup {None}]
    BY DEF LoadFails, TypeOK
<1>ledger. onLedger' \subseteq {q \in Requests : stored'[q] # None}
    BY DEF LoadFails, TypeOK
<1>job. job' \in [Jobs -> Job]
    BY EndType, GotoType DEF LoadFails
<1>rest. /\ clock' \in 0 .. MaxClock /\ sequence' \in [Channels -> Nat]
         /\ starts' \in [Requests -> 0 .. MaxStarts] /\ unread' \subseteq Requests
    BY DEF LoadFails, TypeOK
<1> QED
    BY <1>lease, <1>unique, <1>stored, <1>ledger, <1>job, <1>rest DEF TypeOK

LEMMA TypeBuild ==
    ASSUME TypeOK, CallsCounted, NEW j \in Jobs, Build(j)
    PROVE  TypeOK'
<1>lease. lease' \in [Channels -> Lease \cup {None}]
    BY DEF Build, TypeOK, store
<1>unique. \A c, d \in Leased' : lease'[c].request = lease'[d].request => c = d
    BY DEF Build, TypeOK, Leased, store
<1>stored. stored' \in [Requests -> StoredRequest \cup {None}]
    BY DEF Build, TypeOK, store
<1>ledger. onLedger' \subseteq {q \in Requests : stored'[q] # None}
    BY DEF Build, TypeOK, store
<1>job. job' \in [Jobs -> Job]
  <2>1. clock \in Nat /\ clock + Lifetime \in Nat /\ job[j] \in Job
        BY Numbers DEF TypeOK
  <2>2. [job[j] EXCEPT !.at = "write", !.validUntil = clock + Lifetime] \in Job
        BY <2>1 DEF Build, TypeOK, Job
  <2> QED
      BY <2>2 DEF Build, TypeOK
<1>rest. /\ clock' \in 0 .. MaxClock /\ sequence' \in [Channels -> Nat]
         /\ starts' \in [Requests -> 0 .. MaxStarts] /\ unread' \subseteq Requests
    BY DEF Build, TypeOK, store
<1> QED
    BY <1>lease, <1>unique, <1>stored, <1>ledger, <1>job, <1>rest DEF TypeOK

LEMMA TypeWrite ==
    ASSUME TypeOK, CallsCounted, NEW j \in Jobs, Write(j)
    PROVE  TypeOK'
<1>lease. lease' \in [Channels -> Lease \cup {None}]
    BY DEF Write, TypeOK
<1>unique. \A c, d \in Leased' : lease'[c].request = lease'[d].request => c = d
    BY DEF Write, TypeOK, Leased
<1>stored. stored' \in [Requests -> StoredRequest \cup {None}]
    BY DEF Write, TypeOK, StoredRequest, Job
<1>ledger. onLedger' \subseteq {q \in Requests : stored'[q] # None}
    BY <1>stored DEF Write, TypeOK
<1>job. job' \in [Jobs -> Job]
    BY EndType, GotoType DEF Write
<1>rest. /\ clock' \in 0 .. MaxClock /\ sequence' \in [Channels -> Nat]
         /\ starts' \in [Requests -> 0 .. MaxStarts] /\ unread' \subseteq Requests
    BY DEF Write, TypeOK
<1> QED
    BY <1>lease, <1>unique, <1>stored, <1>ledger, <1>job, <1>rest DEF TypeOK

LEMMA TypeCreationFails ==
    ASSUME TypeOK, CallsCounted, NEW j \in Jobs, CreationFails(j)
    PROVE  TypeOK'
<1>lease. lease' \in [Channels -> Lease \cup {None}]
    BY DEF CreationFails, TypeOK, store
<1>unique. \A c, d \in Leased' : lease'[c].request = lease'[d].request => c = d
    BY DEF CreationFails, TypeOK, Leased, store
<1>stored. stored' \in [Requests -> StoredRequest \cup {None}]
    BY DEF CreationFails, TypeOK, store
<1>ledger. onLedger' \subseteq {q \in Requests : stored'[q] # None}
    BY DEF CreationFails, TypeOK, store
<1>job. job' \in [Jobs -> Job]
    BY EndType, GotoType DEF CreationFails
<1>rest. /\ clock' \in 0 .. MaxClock /\ sequence' \in [Channels -> Nat]
         /\ starts' \in [Requests -> 0 .. MaxStarts] /\ unread' \subseteq Requests
    BY DEF CreationFails, TypeOK, store
<1> QED
    BY <1>lease, <1>unique, <1>stored, <1>ledger, <1>job, <1>rest DEF TypeOK

LEMMA TypeReadDurable ==
    ASSUME TypeOK, CallsCounted, NEW j \in Jobs, ReadDurable(j)
    PROVE  TypeOK'
<1>lease. lease' \in [Channels -> Lease \cup {None}]
    BY DEF ReadDurable, TypeOK, store
<1>unique. \A c, d \in Leased' : lease'[c].request = lease'[d].request => c = d
    BY DEF ReadDurable, TypeOK, Leased, store
<1>stored. stored' \in [Requests -> StoredRequest \cup {None}]
    BY DEF ReadDurable, TypeOK, store
<1>ledger. onLedger' \subseteq {q \in Requests : stored'[q] # None}
    BY DEF ReadDurable, TypeOK, store
<1>job. job' \in [Jobs -> Job]
    BY EndType, GotoType DEF ReadDurable
<1>request. job[j].request \in Requests
    BY DEF ReadDurable, TypeOK, CallsCounted, Job
<1>rest. /\ clock' \in 0 .. MaxClock /\ sequence' \in [Channels -> Nat]
         /\ starts' \in [Requests -> 0 .. MaxStarts] /\ unread' \subseteq Requests
    BY <1>request DEF ReadDurable, TypeOK, store
<1> QED
    BY <1>lease, <1>unique, <1>stored, <1>ledger, <1>job, <1>rest DEF TypeOK

LEMMA TypeDrop ==
    ASSUME TypeOK, CallsCounted, NEW j \in Jobs, Drop(j)
    PROVE  TypeOK'
<1>lease. lease' \in [Channels -> Lease \cup {None}]
    BY NoneAssumption, ReleasedType DEF Drop, TypeOK
<1>unique. \A c, d \in Leased' : lease'[c].request = lease'[d].request => c = d
    BY <1>lease, ReleasedType DEF Drop, TypeOK, Leased
<1>stored. stored' \in [Requests -> StoredRequest \cup {None}]
    BY DEF Drop, TypeOK
<1>ledger. onLedger' \subseteq {q \in Requests : stored'[q] # None}
    BY DEF Drop, TypeOK
<1>job. job' \in [Jobs -> Job]
    BY EndType, GotoType DEF Drop
<1>rest. /\ clock' \in 0 .. MaxClock /\ sequence' \in [Channels -> Nat]
         /\ starts' \in [Requests -> 0 .. MaxStarts] /\ unread' \subseteq Requests
    BY DEF Drop, TypeOK
<1> QED
    BY <1>lease, <1>unique, <1>stored, <1>ledger, <1>job, <1>rest DEF TypeOK

LEMMA TypeStop ==
    ASSUME TypeOK, CallsCounted, NEW j \in Jobs, Stop(j)
    PROVE  TypeOK'
<1>lease. lease' \in [Channels -> Lease \cup {None}]
    BY DEF Stop, TypeOK, store
<1>unique. \A c, d \in Leased' : lease'[c].request = lease'[d].request => c = d
    BY DEF Stop, TypeOK, Leased, store
<1>stored. stored' \in [Requests -> StoredRequest \cup {None}]
    BY DEF Stop, TypeOK, store
<1>ledger. onLedger' \subseteq {q \in Requests : stored'[q] # None}
    BY DEF Stop, TypeOK, store
<1>job. job' \in [Jobs -> Job]
    BY EndType, GotoType DEF Stop
<1>rest. /\ clock' \in 0 .. MaxClock /\ sequence' \in [Channels -> Nat]
         /\ starts' \in [Requests -> 0 .. MaxStarts] /\ unread' \subseteq Requests
    BY DEF Stop, TypeOK, store
<1> QED
    BY <1>lease, <1>unique, <1>stored, <1>ledger, <1>job, <1>rest DEF TypeOK

LEMMA TypeSubmit ==
    ASSUME TypeOK, CallsCounted, NEW r \in Requests, Submit(r)
    PROVE  TypeOK'
<1>lease. lease' \in [Channels -> Lease \cup {None}]
    BY DEF Submit, TypeOK
<1>unique. \A c, d \in Leased' : lease'[c].request = lease'[d].request => c = d
    BY DEF Submit, TypeOK, Leased
<1>stored. stored' \in [Requests -> StoredRequest \cup {None}]
    BY DEF Submit, TypeOK
<1>ledger. onLedger' \subseteq {q \in Requests : stored'[q] # None}
    BY DEF Submit, Active, TypeOK
<1>job. job' \in [Jobs -> Job]
    BY DEF Submit, Active, TypeOK
<1>rest. /\ clock' \in 0 .. MaxClock /\ sequence' \in [Channels -> Nat]
         /\ starts' \in [Requests -> 0 .. MaxStarts] /\ unread' \subseteq Requests
    BY DEF Submit, Active, TypeOK, StoredRequest
<1> QED
    BY <1>lease, <1>unique, <1>stored, <1>ledger, <1>job, <1>rest DEF TypeOK

LEMMA TypePersistSubmission ==
    ASSUME TypeOK, CallsCounted, NEW r \in Requests, PersistSubmission(r)
    PROVE  TypeOK'
<1>lease. lease' \in [Channels -> Lease \cup {None}]
    BY DEF PersistSubmission, TypeOK, store
<1>unique. \A c, d \in Leased' : lease'[c].request = lease'[d].request => c = d
    BY DEF PersistSubmission, TypeOK, Leased
<1>1. stored[r] \in StoredRequest
      BY DEF PersistSubmission, TypeOK
<1>2. [stored[r] EXCEPT !.submitted = TRUE] \in StoredRequest
      BY <1>1 DEF StoredRequest
<1>stored. stored' \in [Requests -> StoredRequest \cup {None}]
    BY <1>2 DEF PersistSubmission, TypeOK
<1>ledger. onLedger' \subseteq {q \in Requests : stored'[q] # None}
    BY <1>2, NoneAssumption DEF PersistSubmission, TypeOK
<1>job. job' \in [Jobs -> Job]
    BY DEF PersistSubmission, TypeOK
<1>rest. /\ clock' \in 0 .. MaxClock /\ sequence' \in [Channels -> Nat]
         /\ starts' \in [Requests -> 0 .. MaxStarts] /\ unread' \subseteq Requests
    BY DEF PersistSubmission, TypeOK
<1> QED
    BY <1>lease, <1>unique, <1>stored, <1>ledger, <1>job, <1>rest DEF TypeOK

LEMMA TypeReleaseLease ==
    ASSUME TypeOK, CallsCounted, NEW r \in Requests, ReleaseLease(r)
    PROVE  TypeOK'
<1>lease. lease' \in [Channels -> Lease \cup {None}]
    BY NoneAssumption, ReleasedType DEF ReleaseLease, TypeOK
<1>unique. \A c, d \in Leased' : lease'[c].request = lease'[d].request => c = d
    BY <1>lease, ReleasedType DEF ReleaseLease, TypeOK, Leased
<1>stored. stored' \in [Requests -> StoredRequest \cup {None}]
    BY DEF ReleaseLease, TypeOK
<1>ledger. onLedger' \subseteq {q \in Requests : stored'[q] # None}
    BY DEF ReleaseLease, TypeOK
<1>job. job' \in [Jobs -> Job]
    BY DEF ReleaseLease, HeldBy, TypeOK
<1>rest. /\ clock' \in 0 .. MaxClock /\ sequence' \in [Channels -> Nat]
         /\ starts' \in [Requests -> 0 .. MaxStarts] /\ unread' \subseteq Requests
    BY DEF ReleaseLease, TypeOK
<1> QED
    BY <1>lease, <1>unique, <1>stored, <1>ledger, <1>job, <1>rest DEF TypeOK

LEMMA TypeTick ==
    ASSUME TypeOK, CallsCounted, Tick
    PROVE  TypeOK'
<1>lease. lease' \in [Channels -> Lease \cup {None}]
    BY DEF Tick, TypeOK, store
<1>unique. \A c, d \in Leased' : lease'[c].request = lease'[d].request => c = d
    BY DEF Tick, TypeOK, Leased, store
<1>stored. stored' \in [Requests -> StoredRequest \cup {None}]
    BY DEF Tick, TypeOK, store
<1>ledger. onLedger' \subseteq {q \in Requests : stored'[q] # None}
    BY DEF Tick, TypeOK, store
<1>job. job' \in [Jobs -> Job]
    BY DEF Tick, TypeOK
<1>rest. /\ clock' \in 0 .. MaxClock /\ sequence' \in [Channels -> Nat]
         /\ starts' \in [Requests -> 0 .. MaxStarts] /\ unread' \subseteq Requests
    BY ChannelAssumption DEF Tick, TypeOK, store
<1> QED
    BY <1>lease, <1>unique, <1>stored, <1>ledger, <1>job, <1>rest DEF TypeOK

-----------------------------------------------------------------------------
(* The calls of a Request.                                                 *)

\* What a step must leave alone for the counts to stay true.
LEMMA CallsFrame ==
    ASSUME TypeOK, CallsCounted, starts' = starts, clock' \in Nat,
           clock <= clock',
           \A k \in Jobs :
               /\ job'[k].request \in {job[k].request, None}
               /\ (job'[k].at = "idle" <=> job'[k].request = None)
               /\ job'[k].now \in {job[k].now, 0},
           \A r \in Requests : stored'[r] # None => starts[r] >= 1,
           \A r \in Requests : Leaseless(r)' \/ starts[r] >= 1
    PROVE  CallsCounted'
<1>1. ASSUME NEW k \in Jobs
      PROVE  /\ (job'[k].at = "idle" <=> job'[k].request = None)
             /\ job'[k].now <= clock'
             /\ job'[k].request # None => starts'[job'[k].request] >= 1
      BY <1>1 DEF CallsCounted, TypeOK, Job
<1>2. \A j, k \in Jobs :
          /\ job'[j].request # None /\ job'[j].request = job'[k].request
          /\ starts'[job'[j].request] = 1
          => j = k
      BY DEF CallsCounted
<1> QED
    BY <1>1, <1>2 DEF CallsCounted

LEMMA CallsBegin ==
    ASSUME TypeOK, TypeOK', CallsCounted, NEW j \in Jobs, NEW r \in Requests, Begin(j, r)
    PROVE  CallsCounted'
<1>1. /\ job' \in [Jobs -> Job] /\ starts \in [Requests -> Nat]
      /\ \A k \in Jobs \ {j} : job'[k] = job[k]
      /\ job'[j].at = "list" /\ job'[j].request = r /\ job'[j].now = clock
      /\ starts'[r] = starts[r] + 1
      /\ \A q \in Requests \ {r} : starts'[q] = starts[q]
      BY DEF Begin, TypeOK
<1>2. \A k \in Jobs : job[k].request = r => starts[r] >= 1
      BY NoneAssumption DEF CallsCounted
<1>3. \A q \in Requests : stored'[q] # None \/ ~Leaseless(q)' => starts'[q] >= 1
      BY <1>1 DEF Begin, store, CallsCounted, Leaseless
<1>4. ASSUME NEW k \in Jobs
      PROVE  /\ (job'[k].at = "idle" <=> job'[k].request = None)
             /\ job'[k].now <= clock'
             /\ job'[k].request # None => starts'[job'[k].request] >= 1
  <2>1. clock \in Nat /\ clock' = clock
        BY DEF Begin, TypeOK
  <2>2. CASE k = j
        BY <1>1, <2>1, <2>2, NoneAssumption
  <2>3. CASE k # j
        BY <1>1, <2>1, <2>3 DEF CallsCounted, TypeOK, Job
  <2> QED
      BY <2>2, <2>3
<1>5. ASSUME NEW i \in Jobs, NEW k \in Jobs, job'[i].request # None,
             job'[i].request = job'[k].request, starts'[job'[i].request] = 1
      PROVE  i = k
  <2>1. CASE job'[i].request = r
    <3>1. starts[r] = 0
          BY <1>1, <1>5, <2>1
    <3>2. \A m \in Jobs \ {j} : job'[m].request # r
          BY <1>1, <1>2, <3>1
    <3> QED
        BY <1>5, <2>1, <3>2
  <2>2. CASE job'[i].request # r
        BY <1>1, <1>5, <2>2 DEF CallsCounted, TypeOK, Job
  <2> QED
      BY <2>1, <2>2
<1> QED
    BY <1>3, <1>4, <1>5 DEF CallsCounted

LEMMA CallsListLeases ==
    ASSUME TypeOK, TypeOK', CallsCounted, NEW j \in Jobs, ListLeases(j)
    PROVE  CallsCounted'
<1>1. starts' = starts /\ clock' \in Nat /\ clock <= clock'
      BY DEF ListLeases, TypeOK, store
<1>2. \A k \in Jobs : /\ job'[k].request \in {job[k].request, None}
                     /\ (job'[k].at = "idle" <=> job'[k].request = None)
                     /\ job'[k].now \in {job[k].now, 0}
      BY DEF ListLeases, TypeOK, CallsCounted
<1>3. \A q \in Requests : stored'[q] # None => starts[q] >= 1
      BY DEF ListLeases, CallsCounted, store
<1>4. \A q \in Requests : Leaseless(q)' \/ starts[q] >= 1
      BY DEF ListLeases, Leaseless, CallsCounted, store
<1> QED
    BY <1>1, <1>2, <1>3, <1>4, CallsFrame DEF Leaseless

LEMMA CallsFindLease ==
    ASSUME TypeOK, TypeOK', CallsCounted, NEW j \in Jobs, FindLease(j)
    PROVE  CallsCounted'
<1>1. \A k \in Jobs : /\ job'[k].request \in {job[k].request, None}
                     /\ (job'[k].at = "idle" <=> job'[k].request = None)
                     /\ job'[k].now \in {job[k].now, 0}
  <2>1. ASSUME NEW k \in Jobs, k # j
        PROVE  /\ job'[k] = job[k]
               /\ (job[k].at = "idle" <=> job[k].request = None)
        BY <2>1, FindLeaseJob DEF CallsCounted
  <2>2. job[j].request # None /\ job'[j].at # "idle"
        BY FindLeaseChoice, FindLeaseJob DEF CallsCounted
  <2> QED
      BY <2>1, <2>2, FindLeaseJob
<1>2. clock' \in Nat /\ clock <= clock'
  <2>1. clock' = clock
        BY FindLeaseChoice
  <2> QED
      BY <2>1 DEF TypeOK
<1>3. \A q \in Requests : stored'[q] # None => starts[q] >= 1
      BY FindLeaseChoice DEF CallsCounted
<1>4. \A q \in Requests : Leaseless(q)' \/ starts[q] >= 1
      BY FindLeaseChoice DEF CallsCounted, Leaseless
<1>5. starts' = starts
      BY FindLeaseChoice
<1> QED
    BY <1>1, <1>2, <1>3, <1>4, <1>5, CallsFrame DEF Leaseless

LEMMA CallsClaim ==
    ASSUME TypeOK, TypeOK', CallsCounted, NEW j \in Jobs, Claim(j)
    PROVE  CallsCounted'
<1>1. starts' = starts /\ clock' \in Nat /\ clock <= clock'
      BY DEF Claim, TypeOK, store
<1>2. \A k \in Jobs : /\ job'[k].request \in {job[k].request, None}
                     /\ (job'[k].at = "idle" <=> job'[k].request = None)
                     /\ job'[k].now \in {job[k].now, 0}
      BY DEF Claim, End, LeaseExpiry, TypeOK, CallsCounted, Idle, Job
<1>3. \A q \in Requests : stored'[q] # None => starts[q] >= 1
      BY DEF Claim, CallsCounted, store
<1>4. ASSUME NEW q \in Requests, ~Leaseless(q)'
      PROVE  starts[q] >= 1
  <2>1. CASE q = job[j].request
        BY <2>1, NoneAssumption DEF CallsCounted
  <2>2. CASE q # job[j].request
        BY <1>4, <2>2 DEF Claim, Leaseless, CallsCounted, TypeOK
  <2> QED
      BY <2>1, <2>2
<1> QED
    BY <1>1, <1>2, <1>3, <1>4, CallsFrame DEF Leaseless

LEMMA CallsLoadAccount ==
    ASSUME TypeOK, TypeOK', CallsCounted, NEW j \in Jobs, LoadAccount(j)
    PROVE  CallsCounted'
<1>1. starts' = starts /\ clock' \in Nat /\ clock <= clock'
      BY DEF LoadAccount, TypeOK, store
<1>2. \A k \in Jobs : /\ job'[k].request \in {job[k].request, None}
                     /\ (job'[k].at = "idle" <=> job'[k].request = None)
                     /\ job'[k].now \in {job[k].now, 0}
      BY DEF LoadAccount, TypeOK, CallsCounted
<1>3. \A q \in Requests : stored'[q] # None => starts[q] >= 1
      BY DEF LoadAccount, CallsCounted, store
<1>4. \A q \in Requests : Leaseless(q)' \/ starts[q] >= 1
      BY DEF LoadAccount, Leaseless, CallsCounted, store
<1> QED
    BY <1>1, <1>2, <1>3, <1>4, CallsFrame DEF Leaseless

LEMMA CallsLoadFails ==
    ASSUME TypeOK, TypeOK', CallsCounted, NEW j \in Jobs, LoadFails(j)
    PROVE  CallsCounted'
<1>1. starts' = starts /\ clock' \in Nat /\ clock <= clock'
      BY DEF LoadFails, TypeOK, store
<1>2. \A k \in Jobs : /\ job'[k].request \in {job[k].request, None}
                     /\ (job'[k].at = "idle" <=> job'[k].request = None)
                     /\ job'[k].now \in {job[k].now, 0}
      BY DEF LoadFails, End, CallsCounted, Idle
<1>3. \A q \in Requests : stored'[q] # None => starts[q] >= 1
      BY DEF LoadFails, CallsCounted, store
<1>4. \A q \in Requests : Leaseless(q)' \/ starts[q] >= 1
      BY ReleasedType DEF LoadFails, Leaseless, CallsCounted, TypeOK
<1> QED
    BY <1>1, <1>2, <1>3, <1>4, CallsFrame DEF Leaseless

LEMMA CallsBuild ==
    ASSUME TypeOK, TypeOK', CallsCounted, NEW j \in Jobs, Build(j)
    PROVE  CallsCounted'
<1>1. starts' = starts /\ clock' \in Nat /\ clock <= clock'
      BY DEF Build, TypeOK, store
<1>2. \A k \in Jobs : /\ job'[k].request \in {job[k].request, None}
                     /\ (job'[k].at = "idle" <=> job'[k].request = None)
                     /\ job'[k].now \in {job[k].now, 0}
      BY DEF Build, TypeOK, CallsCounted
<1>3. \A q \in Requests : stored'[q] # None => starts[q] >= 1
      BY DEF Build, CallsCounted, store
<1>4. \A q \in Requests : Leaseless(q)' \/ starts[q] >= 1
      BY DEF Build, Leaseless, CallsCounted, store
<1> QED
    BY <1>1, <1>2, <1>3, <1>4, CallsFrame DEF Leaseless

LEMMA CallsWrite ==
    ASSUME TypeOK, TypeOK', CallsCounted, NEW j \in Jobs, Write(j)
    PROVE  CallsCounted'
<1>1. starts' = starts /\ clock' \in Nat /\ clock <= clock'
      BY DEF Write, TypeOK, store
<1>2. \A k \in Jobs : /\ job'[k].request \in {job[k].request, None}
                     /\ (job'[k].at = "idle" <=> job'[k].request = None)
                     /\ job'[k].now \in {job[k].now, 0}
      BY DEF Write, End, Goto, TypeOK, CallsCounted, Idle, Job
<1>3. \A r \in Requests : stored'[r] # None => starts[r] >= 1
      BY DEF Write, CallsCounted
<1>4. \A q \in Requests : Leaseless(q)' \/ starts[q] >= 1
      BY DEF Write, Leaseless, CallsCounted
<1> QED
    BY <1>1, <1>2, <1>3, <1>4, CallsFrame DEF Leaseless

LEMMA CallsCreationFails ==
    ASSUME TypeOK, TypeOK', CallsCounted, NEW j \in Jobs, CreationFails(j)
    PROVE  CallsCounted'
<1>1. starts' = starts /\ clock' \in Nat /\ clock <= clock'
      BY DEF CreationFails, TypeOK, store
<1>2. \A k \in Jobs : /\ job'[k].request \in {job[k].request, None}
                     /\ (job'[k].at = "idle" <=> job'[k].request = None)
                     /\ job'[k].now \in {job[k].now, 0}
      BY DEF CreationFails, Goto, CallsCounted
<1>3. \A q \in Requests : stored'[q] # None => starts[q] >= 1
      BY DEF CreationFails, CallsCounted, store
<1>4. \A q \in Requests : Leaseless(q)' \/ starts[q] >= 1
      BY DEF CreationFails, Leaseless, CallsCounted, store
<1> QED
    BY <1>1, <1>2, <1>3, <1>4, CallsFrame DEF Leaseless

LEMMA CallsReadDurable ==
    ASSUME TypeOK, TypeOK', CallsCounted, NEW j \in Jobs, ReadDurable(j)
    PROVE  CallsCounted'
<1>1. starts' = starts /\ clock' \in Nat /\ clock <= clock'
      BY DEF ReadDurable, TypeOK, store
<1>2. \A k \in Jobs : /\ job'[k].request \in {job[k].request, None}
                     /\ (job'[k].at = "idle" <=> job'[k].request = None)
                     /\ job'[k].now \in {job[k].now, 0}
      BY DEF ReadDurable, End, Goto, TypeOK, CallsCounted, Idle, Job
<1>3. \A q \in Requests : stored'[q] # None => starts[q] >= 1
      BY DEF ReadDurable, CallsCounted, store
<1>4. \A q \in Requests : Leaseless(q)' \/ starts[q] >= 1
      BY DEF ReadDurable, Leaseless, CallsCounted, store
<1> QED
    BY <1>1, <1>2, <1>3, <1>4, CallsFrame DEF Leaseless

LEMMA CallsDrop ==
    ASSUME TypeOK, TypeOK', CallsCounted, NEW j \in Jobs, Drop(j)
    PROVE  CallsCounted'
<1>1. starts' = starts /\ clock' \in Nat /\ clock <= clock'
      BY DEF Drop, TypeOK, store
<1>2. \A k \in Jobs : /\ job'[k].request \in {job[k].request, None}
                     /\ (job'[k].at = "idle" <=> job'[k].request = None)
                     /\ job'[k].now \in {job[k].now, 0}
      BY DEF Drop, End, CallsCounted, Idle
<1>3. \A q \in Requests : stored'[q] # None => starts[q] >= 1
      BY DEF Drop, CallsCounted, store
<1>4. \A q \in Requests : Leaseless(q)' \/ starts[q] >= 1
      BY ReleasedType DEF Drop, Leaseless, CallsCounted, TypeOK
<1> QED
    BY <1>1, <1>2, <1>3, <1>4, CallsFrame DEF Leaseless

LEMMA CallsStop ==
    ASSUME TypeOK, TypeOK', CallsCounted, NEW j \in Jobs, Stop(j)
    PROVE  CallsCounted'
<1>1. starts' = starts /\ clock' \in Nat /\ clock <= clock'
      BY DEF Stop, TypeOK, store
<1>2. \A k \in Jobs : /\ job'[k].request \in {job[k].request, None}
                     /\ (job'[k].at = "idle" <=> job'[k].request = None)
                     /\ job'[k].now \in {job[k].now, 0}
      BY DEF Stop, End, CallsCounted, Idle
<1>3. \A q \in Requests : stored'[q] # None => starts[q] >= 1
      BY DEF Stop, CallsCounted, store
<1>4. \A q \in Requests : Leaseless(q)' \/ starts[q] >= 1
      BY DEF Stop, Leaseless, CallsCounted, store
<1> QED
    BY <1>1, <1>2, <1>3, <1>4, CallsFrame DEF Leaseless

LEMMA CallsSubmit ==
    ASSUME TypeOK, TypeOK', CallsCounted, NEW r \in Requests, Submit(r)
    PROVE  CallsCounted'
<1>1. starts' = starts /\ clock' \in Nat /\ clock <= clock'
      BY DEF Submit, TypeOK, store
<1>2. \A k \in Jobs : /\ job'[k].request \in {job[k].request, None}
                     /\ (job'[k].at = "idle" <=> job'[k].request = None)
                     /\ job'[k].now \in {job[k].now, 0}
      BY DEF Submit, CallsCounted
<1>3. \A q \in Requests : stored'[q] # None => starts[q] >= 1
      BY DEF Submit, CallsCounted, store
<1>4. \A q \in Requests : Leaseless(q)' \/ starts[q] >= 1
      BY DEF Submit, Leaseless, CallsCounted
<1> QED
    BY <1>1, <1>2, <1>3, <1>4, CallsFrame DEF Leaseless

LEMMA CallsPersistSubmission ==
    ASSUME TypeOK, TypeOK', CallsCounted, NEW r \in Requests, PersistSubmission(r)
    PROVE  CallsCounted'
<1>1. starts' = starts /\ clock' \in Nat /\ clock <= clock'
      BY DEF PersistSubmission, TypeOK, store
<1>2. \A k \in Jobs : /\ job'[k].request \in {job[k].request, None}
                     /\ (job'[k].at = "idle" <=> job'[k].request = None)
                     /\ job'[k].now \in {job[k].now, 0}
      BY DEF PersistSubmission, TypeOK, CallsCounted
<1>3. \A q \in Requests : stored'[q] # None => starts[q] >= 1
      BY DEF PersistSubmission, CallsCounted, TypeOK
<1>4. \A q \in Requests : Leaseless(q)' \/ starts[q] >= 1
      BY DEF PersistSubmission, Leaseless, CallsCounted
<1> QED
    BY <1>1, <1>2, <1>3, <1>4, CallsFrame DEF Leaseless

LEMMA CallsReleaseLease ==
    ASSUME TypeOK, TypeOK', CallsCounted, NEW r \in Requests, ReleaseLease(r)
    PROVE  CallsCounted'
<1>1. starts' = starts /\ clock' \in Nat /\ clock <= clock'
      BY DEF ReleaseLease, TypeOK, store
<1>2. \A k \in Jobs : /\ job'[k].request \in {job[k].request, None}
                     /\ (job'[k].at = "idle" <=> job'[k].request = None)
                     /\ job'[k].now \in {job[k].now, 0}
      BY DEF ReleaseLease, CallsCounted
<1>3. \A q \in Requests : stored'[q] # None => starts[q] >= 1
      BY DEF ReleaseLease, CallsCounted, store
<1>4. \A q \in Requests : Leaseless(q)' \/ starts[q] >= 1
      BY ReleasedType DEF ReleaseLease, Leaseless, CallsCounted, TypeOK
<1> QED
    BY <1>1, <1>2, <1>3, <1>4, CallsFrame DEF Leaseless

LEMMA CallsTick ==
    ASSUME TypeOK, TypeOK', CallsCounted, Tick
    PROVE  CallsCounted'
<1>1. starts' = starts /\ clock' \in Nat /\ clock <= clock'
      BY DEF Tick, TypeOK, store
<1>2. \A k \in Jobs : /\ job'[k].request \in {job[k].request, None}
                     /\ (job'[k].at = "idle" <=> job'[k].request = None)
                     /\ job'[k].now \in {job[k].now, 0}
      BY DEF Tick, TypeOK, CallsCounted
<1>3. \A q \in Requests : stored'[q] # None => starts[q] >= 1
      BY DEF Tick, CallsCounted, store
<1>4. \A q \in Requests : Leaseless(q)' \/ starts[q] >= 1
      BY DEF Tick, Leaseless, CallsCounted, store
<1> QED
    BY <1>1, <1>2, <1>3, <1>4, CallsFrame DEF Leaseless

-----------------------------------------------------------------------------
(* The only call of a Request, and its lease.                              *)

\* What a step leaves to Request q.
Undisturbed(q) ==
    /\ stored'[q] = stored[q] /\ starts'[q] = starts[q] /\ clock' = clock
    /\ q \in unread' <=> q \in unread
    /\ Leaseless(q) => \A c \in Channels :
                           lease'[c] # None => lease'[c].request # q
    /\ \A c \in Channels :
           lease[c] # None /\ lease[c].request = q /\ clock < lease[c].expires
               => lease'[c] = lease[c]

\* An active Request of one call has its lease.
Covered(r) ==
    Active(r) /\ starts[r] = 1 /\ r \notin unread /\ clock < LeaseEnd(r) =>
        lease[stored[r].channel] = [request |-> r, expires |-> LeaseEnd(r)]

\* What is left alone stays as it was.
LEMMA UndisturbedCall ==
    ASSUME Known, NEW k \in Jobs, NEW q \in Requests, Undisturbed(q),
           job'[k] = job[k], SoleCallKeeps(k, q)
    PROVE  SoleCallKeeps(k, q)'
<1>1. lease[job[k].channel] =
          [request |-> q, expires |-> LeaseExpiry(job[k].now)]
      => lease[job[k].channel] # None
      BY Numbers, NoneAssumption DEF Known, TypeOK, Job, Lease, LeaseExpiry
<1> QED
    BY <1>1 DEF SoleCallKeeps, Undisturbed, Leaseless, Known, TypeOK, Job

LEMMA UndisturbedRequest ==
    ASSUME Known, NEW q \in Requests, Undisturbed(q), Covered(q)
    PROVE  Covered(q)'
<1> SUFFICES ASSUME Active(q)', starts'[q] = 1, q \notin unread', clock' < LeaseEnd(q)'
             PROVE  (lease[stored[q].channel] = [request |-> q, expires |-> LeaseEnd(q)])'
    BY DEF Covered
<1>1. /\ Active(q) /\ starts[q] = 1 /\ q \notin unread /\ LeaseEnd(q)' = LeaseEnd(q)
      /\ clock < LeaseEnd(q) /\ stored' [q] = stored[q]
      BY DEF Undisturbed, Active, LeaseEnd
<1>2. stored[q] \in StoredRequest /\ stored[q].channel \in Channels
      BY <1>1 DEF Active, Known, TypeOK, StoredRequest
<1>3. LeaseEnd(q) \in Nat
      BY <1>2, Numbers DEF LeaseEnd, StoredRequest
<1>4. [request |-> q, expires |-> LeaseEnd(q)] \in Lease
      BY <1>3 DEF Lease
<1>5. lease[stored[q].channel] = [request |-> q, expires |-> LeaseEnd(q)]
      BY <1>1 DEF Covered
<1>6. lease[stored[q].channel] # None
      BY <1>4, <1>5, NoneAssumption
<1>7. lease'[stored[q].channel] = lease[stored[q].channel]
      BY <1>1, <1>2, <1>5, <1>6 DEF Undisturbed
<1> QED
    BY <1>1, <1>5, <1>7

\* A step of one call j on Request r.
LEMMA CallFrame ==
    ASSUME IInv, NEW j \in Jobs, NEW r \in Requests, job[j].request = r,
           starts' = starts, \A k \in Jobs \ {j} : job'[k] = job[k],
           job'[j].request \in {r, None},
           \A q \in Requests \ {r} : Undisturbed(q),
           starts[r] = 1 /\ job'[j].request = r => SoleCallKeeps(j, r)',
           Covered(r)'
    PROVE  SoleCallsKeep' /\ ActiveRequestKeepsItsLease'
<1>1. ASSUME NEW k \in Jobs, NEW q \in Requests,
             job'[k].request = q, starts'[q] = 1
      PROVE  SoleCallKeeps(k, q)'
  <2>1. CASE k = j
        BY <1>1, <2>1, NoneAssumption DEF SoleCallKeeps
  <2>2. CASE k # j
    <3>1. job'[k] = job[k] /\ job[k].request = q /\ starts[q] = 1
          BY <1>1, <2>2
    <3>2. q # r
          BY <2>2, <3>1, NoneAssumption DEF IInv, Known, CallsCounted
    <3>3. SoleCallKeeps(k, q)
          BY <3>1 DEF IInv, SoleCallsKeep
    <3> QED
        BY <3>1, <3>2, <3>3, UndisturbedCall DEF IInv, SoleCallKeeps
  <2> QED
      BY <2>1, <2>2
<1>2. ASSUME NEW q \in Requests, q # r
      PROVE  Covered(q)'
      BY <1>2, UndisturbedRequest DEF IInv, ActiveRequestKeepsItsLease, Covered
<1> QED
    BY <1>1, <1>2 DEF SoleCallsKeep, ActiveRequestKeepsItsLease, Covered

LEMMA KeepListLeases ==
    ASSUME IInv, TypeOK', NEW j \in Jobs, ListLeases(j)
    PROVE  SoleCallsKeep' /\ ActiveRequestKeepsItsLease'
<1>0. PICK r \in Requests : job[j].request = r
      BY DEF ListLeases, IInv, Known, CallsCounted, TypeOK, Job
<1>1. /\ job[j].request = r /\ job \in [Jobs -> Job]
      /\ starts[r] = 1 => SoleCallKeeps(j, r)
      /\ Covered(r)
      BY <1>0 DEF IInv, Known, TypeOK, SoleCallsKeep,
        ActiveRequestKeepsItsLease, Covered
<1>2. /\ starts' = starts /\ clock' = clock
      /\ \A k \in Jobs \ {j} : job'[k] = job[k]
      /\ job'[j].request \in {r, None}
      BY <1>1 DEF ListLeases
<1>3. \A q \in Requests \ {r} : Undisturbed(q)
      BY <1>2 DEF ListLeases, Undisturbed, Leaseless, store
<1>4. starts[r] = 1 /\ job'[j].request = r => SoleCallKeeps(j, r)'
      BY <1>1, <1>2 DEF ListLeases, SoleCallKeeps, Early, Leaseless, store
<1>5. Covered(r)'
      BY <1>1, <1>2 DEF ListLeases, Covered, Active, LeaseEnd, store
<1> QED
    BY <1>1, <1>2, <1>3, <1>4, <1>5, CallFrame DEF Undisturbed, SoleCallKeeps,
       Covered

LEMMA KeepFindLease ==
    ASSUME IInv, TypeOK', NEW j \in Jobs, FindLease(j)
    PROVE  SoleCallsKeep' /\ ActiveRequestKeepsItsLease'
<1>0. PICK r \in Requests : job[j].request = r
      BY DEF FindLease, IInv, Known, CallsCounted, TypeOK, Job
<1>1. /\ job[j].request = r /\ job \in [Jobs -> Job]
      /\ starts[r] = 1 => SoleCallKeeps(j, r)
      /\ Covered(r)
      BY <1>0 DEF IInv, Known, TypeOK, SoleCallsKeep,
        ActiveRequestKeepsItsLease, Covered
<1>2. /\ starts' = starts /\ clock' = clock /\ lease' = lease /\ stored' = stored
      /\ unread' = unread
      /\ \A k \in Jobs \ {j} : job'[k] = job[k]
      /\ job'[j].request \in {r, None}
      BY <1>1, FindLeaseChoice, FindLeaseJob DEF IInv, Known
<1>3. \A q \in Requests \ {r} : Undisturbed(q)
      BY <1>2 DEF Undisturbed, Leaseless
<1>4. ASSUME starts[r] = 1, job'[j].request = r
      PROVE  SoleCallKeeps(j, r)'
  <2>1. Leaseless(r) /\ stored[r] = None
        BY <1>1, <1>4, FindLeaseChoice DEF SoleCallKeeps, Early
  <2>2. job' = [job EXCEPT ![j].at = "claim"]
        BY <1>1, <2>1, FindLeaseChoice DEF Leaseless
  <2> QED
      BY <1>1, <1>2, <2>1, <2>2 DEF SoleCallKeeps, Leaseless
<1>5. Covered(r)'
      BY <1>1, <1>2 DEF Covered, Active, LeaseEnd
<1> QED
    BY <1>1, <1>2, <1>3, <1>4, <1>5, CallFrame DEF Undisturbed, SoleCallKeeps,
       Covered

LEMMA KeepClaim ==
    ASSUME IInv, TypeOK', NEW j \in Jobs, Claim(j)
    PROVE  SoleCallsKeep' /\ ActiveRequestKeepsItsLease'
<1>0. PICK r \in Requests : job[j].request = r
      BY DEF Claim, IInv, Known, CallsCounted, TypeOK, Job
<1>1. /\ job[j].request = r /\ job \in [Jobs -> Job]
      /\ starts[r] = 1 => SoleCallKeeps(j, r)
      /\ Covered(r)
      BY <1>0 DEF IInv, Known, TypeOK, SoleCallsKeep,
        ActiveRequestKeepsItsLease, Covered
<1>2. /\ starts' = starts /\ clock' = clock
      /\ \A k \in Jobs \ {j} : job'[k] = job[k]
      /\ job'[j].request \in {r, None}
      BY <1>1 DEF Claim, End, Idle, Job
<1>3. ASSUME NEW q \in Requests \ {r}
      PROVE  Undisturbed(q)
  <2> DEFINE c == Candidate(job[j].request, job[j].tried)
  <2>1. CASE lease' = lease
        BY <1>2, <2>1 DEF Claim, Undisturbed, Leaseless
  <2>2. CASE /\ Claimable(c, r, job[j].now)
             /\ lease' = [lease EXCEPT ![c] =
                    [request |-> r, expires |-> LeaseExpiry(job[j].now)]]
    <3>1. clock \in Nat /\ job[j].now \in Nat /\ job[j].now <= clock
          BY <1>1 DEF IInv, Known, TypeOK, CallsCounted, Job
    <3>2. \A d \in Channels : lease[d] # None => lease[d].expires \in Nat
          BY DEF IInv, Known, TypeOK, Lease
    <3>3. /\ c \in Channels /\ lease[c] # None /\ lease[c].request = q
          => ~(clock < lease[c].expires)
          BY <2>2, <3>1, <3>2 DEF Claimable
    <3>4. lease \in [Channels -> Lease \cup {None}]
          BY DEF IInv, Known, TypeOK
    <3> QED
        BY <1>2, <2>2, <3>3, <3>4 DEF Claim, Undisturbed, Leaseless
  <2> QED
      BY <1>1, <2>1, <2>2 DEF Claim
<1>4. ASSUME starts[r] = 1, job'[j].request = r
      PROVE  SoleCallKeeps(j, r)'
  <2> DEFINE c == Candidate(job[j].request, job[j].tried)
  <2>1. c \in Channels
        BY <1>1, CandidateType DEF Job
  <2>2. Leaseless(r) /\ stored[r] = None /\ stored' = stored
        BY <1>1, <1>4 DEF Claim, SoleCallKeeps, Early
  <2>3. CASE lease' = lease /\ job' = [job EXCEPT ![j].tried = @ + 1]
        BY <1>1, <2>2, <2>3 DEF Claim, SoleCallKeeps, Leaseless
  <2>4. CASE /\ lease' = [lease EXCEPT ![c] =
                    [request |-> r, expires |-> LeaseExpiry(job[j].now)]]
             /\ job' = [job EXCEPT ![j].at = "load", ![j].channel = c]
    <3>1. /\ job'[j].at = "load" /\ job'[j].channel = c
          /\ job'[j].now = job[j].now
          BY <1>1, <2>4 DEF Job
    <3>2. lease'[c] = [request |-> r, expires |-> LeaseExpiry(job[j].now)]
          BY <2>1, <2>4 DEF IInv, Known, TypeOK
    <3> QED
        BY <2>2, <3>1, <3>2 DEF SoleCallKeeps, LeaseExpiry
  <2>5. CASE job' = [job EXCEPT ![j] = Idle]
        BY <1>1, <1>4, <2>5, NoneAssumption DEF Idle
  <2> QED
      BY <1>1, <2>2, <2>3, <2>4, <2>5 DEF Claim, End
<1>5. Covered(r)'
      BY <1>1, <1>2 DEF Claim, Covered, Active, LeaseEnd, SoleCallKeeps, Early
<1> QED
    BY <1>1, <1>2, <1>3, <1>4, <1>5, CallFrame DEF Undisturbed, SoleCallKeeps,
       Covered

LEMMA KeepLoadAccount ==
    ASSUME IInv, TypeOK', NEW j \in Jobs, LoadAccount(j)
    PROVE  SoleCallsKeep' /\ ActiveRequestKeepsItsLease'
<1>0. PICK r \in Requests : job[j].request = r
      BY DEF LoadAccount, IInv, Known, CallsCounted, TypeOK, Job
<1>1. /\ job[j].request = r /\ job \in [Jobs -> Job]
      /\ starts[r] = 1 => SoleCallKeeps(j, r)
      /\ Covered(r)
      BY <1>0 DEF IInv, Known, TypeOK, SoleCallsKeep,
        ActiveRequestKeepsItsLease, Covered
<1>2. /\ starts' = starts /\ clock' = clock
      /\ \A k \in Jobs \ {j} : job'[k] = job[k]
      /\ job'[j].request \in {r, None}
      BY <1>1 DEF LoadAccount
<1>3. \A q \in Requests \ {r} : Undisturbed(q)
      BY <1>2 DEF LoadAccount, Undisturbed, Leaseless, store
<1>4. starts[r] = 1 /\ job'[j].request = r => SoleCallKeeps(j, r)'
      BY <1>1, <1>2 DEF LoadAccount, SoleCallKeeps, Early, store
<1>5. Covered(r)'
      BY <1>1, <1>2 DEF LoadAccount, Covered, Active, LeaseEnd, store
<1> QED
    BY <1>1, <1>2, <1>3, <1>4, <1>5, CallFrame DEF Undisturbed, SoleCallKeeps,
       Covered

LEMMA KeepLoadFails ==
    ASSUME IInv, TypeOK', NEW j \in Jobs, LoadFails(j)
    PROVE  SoleCallsKeep' /\ ActiveRequestKeepsItsLease'
<1>0. PICK r \in Requests : job[j].request = r
      BY DEF LoadFails, IInv, Known, CallsCounted, TypeOK, Job
<1>1. /\ job[j].request = r /\ job \in [Jobs -> Job]
      /\ starts[r] = 1 => SoleCallKeeps(j, r)
      /\ Covered(r)
      BY <1>0 DEF IInv, Known, TypeOK, SoleCallsKeep,
        ActiveRequestKeepsItsLease, Covered
<1>2. /\ starts' = starts /\ clock' = clock
      /\ \A k \in Jobs \ {j} : job'[k] = job[k]
      /\ job'[j].request \in {r, None}
      BY <1>1 DEF LoadFails, End, Idle
<1>3. \A q \in Requests \ {r} : Undisturbed(q)
      BY <1>1, <1>2, ReleasedType DEF LoadFails, Undisturbed, Leaseless,
        IInv, Known, TypeOK
<1>4. starts[r] = 1 /\ job'[j].request = r => SoleCallKeeps(j, r)'
      BY <1>1, NoneAssumption DEF LoadFails, End, Idle
<1>5. Covered(r)'
      BY <1>1, <1>2 DEF LoadFails, Covered, Active, LeaseEnd, SoleCallKeeps, Early
<1> QED
    BY <1>1, <1>2, <1>3, <1>4, <1>5, CallFrame DEF Undisturbed, SoleCallKeeps,
       Covered

LEMMA KeepBuild ==
    ASSUME IInv, TypeOK', NEW j \in Jobs, Build(j)
    PROVE  SoleCallsKeep' /\ ActiveRequestKeepsItsLease'
<1>0. PICK r \in Requests : job[j].request = r
      BY DEF Build, IInv, Known, CallsCounted, TypeOK, Job
<1>1. /\ job[j].request = r /\ job \in [Jobs -> Job]
      /\ starts[r] = 1 => SoleCallKeeps(j, r)
      /\ Covered(r)
      BY <1>0 DEF IInv, Known, TypeOK, SoleCallsKeep,
        ActiveRequestKeepsItsLease, Covered
<1>2. /\ starts' = starts /\ clock' = clock
      /\ \A k \in Jobs \ {j} : job'[k] = job[k]
      /\ job'[j].request \in {r, None}
      BY <1>1 DEF Build
<1>3. \A q \in Requests \ {r} : Undisturbed(q)
      BY <1>2 DEF Build, Undisturbed, Leaseless, store
<1>4. starts[r] = 1 /\ job'[j].request = r => SoleCallKeeps(j, r)'
      BY <1>1, <1>2 DEF Build, SoleCallKeeps, Early, store
<1>5. Covered(r)'
      BY <1>1, <1>2 DEF Build, Covered, Active, LeaseEnd, store
<1> QED
    BY <1>1, <1>2, <1>3, <1>4, <1>5, CallFrame DEF Undisturbed, SoleCallKeeps,
       Covered

LEMMA KeepWrite ==
    ASSUME IInv, TypeOK', NEW j \in Jobs, Write(j)
    PROVE  SoleCallsKeep' /\ ActiveRequestKeepsItsLease'
<1>0. PICK r \in Requests : job[j].request = r
      BY DEF Write, TypeOK
<1>1. /\ job[j].request = r /\ job \in [Jobs -> Job]
      /\ starts[r] = 1 => SoleCallKeeps(j, r)
      /\ Covered(r)
      BY <1>0 DEF IInv, Known, TypeOK, SoleCallsKeep,
        ActiveRequestKeepsItsLease, Covered
<1>2. /\ starts' = starts /\ clock' = clock
      /\ \A k \in Jobs \ {j} : job'[k] = job[k]
      /\ job'[j].request \in {r, None}
      BY <1>1 DEF Write, End, Goto, Idle, Job
<1>3. \A q \in Requests \ {r} : Undisturbed(q)
      BY <1>1, <1>2 DEF Write, Undisturbed, Leaseless
<1>4. starts[r] = 1 /\ job'[j].request = r => SoleCallKeeps(j, r)'
      BY <1>1, <1>2 DEF Write, End, Goto, SoleCallKeeps, Early, Job, Idle
<1>5. Covered(r)'
  <2>1. SUFFICES ASSUME Active(r)', starts[r] = 1, clock < LeaseEnd(r)'
                 PROVE  (lease[stored[r].channel] = [request |-> r, expires |-> LeaseEnd(r)])'
        BY <1>2 DEF Covered
  <2>2. stored'[r] = [channel |-> job[j].channel, sequence |-> job[j].sequence,
                      createdAt |-> job[j].now, validUntil |-> job[j].validUntil,
                      submitted |-> FALSE]
        BY <1>1, <2>1 DEF Write, SoleCallKeeps, TypeOK
  <2>3. lease' = lease /\ LeaseEnd(r)' = LeaseExpiry(job[j].now)
        BY <2>2 DEF LeaseEnd, LeaseExpiry, Write
  <2>4. lease[job[j].channel] =
            [request |-> r, expires |-> LeaseExpiry(job[j].now)]
        BY <1>1, <2>1, <2>3 DEF Write, SoleCallKeeps
  <2> QED
      BY <2>2, <2>3, <2>4
<1> QED
    BY <1>1, <1>2, <1>3, <1>4, <1>5, CallFrame DEF Undisturbed, SoleCallKeeps,
       Covered

LEMMA KeepCreationFails ==
    ASSUME IInv, TypeOK', NEW j \in Jobs, CreationFails(j)
    PROVE  SoleCallsKeep' /\ ActiveRequestKeepsItsLease'
<1>0. PICK r \in Requests : job[j].request = r
      BY DEF CreationFails, IInv, Known, CallsCounted, TypeOK, Job
<1>1. /\ job[j].request = r /\ job \in [Jobs -> Job]
      /\ starts[r] = 1 => SoleCallKeeps(j, r)
      /\ Covered(r)
      BY <1>0 DEF IInv, Known, TypeOK, SoleCallsKeep,
        ActiveRequestKeepsItsLease, Covered
<1>2. /\ starts' = starts /\ clock' = clock
      /\ \A k \in Jobs \ {j} : job'[k] = job[k]
      /\ job'[j].request \in {r, None}
      BY <1>1 DEF CreationFails, Goto
<1>3. \A q \in Requests \ {r} : Undisturbed(q)
      BY <1>2 DEF CreationFails, Undisturbed, Leaseless, store
<1>4. starts[r] = 1 /\ job'[j].request = r => SoleCallKeeps(j, r)'
      BY <1>1, <1>2 DEF CreationFails, Goto, SoleCallKeeps, Early
<1>5. Covered(r)'
      BY <1>1, <1>2 DEF CreationFails, Covered, Active, LeaseEnd, store
<1> QED
    BY <1>1, <1>2, <1>3, <1>4, <1>5, CallFrame DEF Undisturbed, SoleCallKeeps,
       Covered

LEMMA KeepReadDurable ==
    ASSUME IInv, TypeOK', NEW j \in Jobs, ReadDurable(j)
    PROVE  SoleCallsKeep' /\ ActiveRequestKeepsItsLease'
<1>0. PICK r \in Requests : job[j].request = r
      BY DEF ReadDurable, IInv, Known, CallsCounted, TypeOK, Job
<1>1. /\ job[j].request = r /\ job \in [Jobs -> Job]
      /\ starts[r] = 1 => SoleCallKeeps(j, r)
      /\ Covered(r)
      BY <1>0 DEF IInv, Known, TypeOK, SoleCallsKeep,
        ActiveRequestKeepsItsLease, Covered
<1>2. /\ starts' = starts /\ clock' = clock
      /\ \A k \in Jobs \ {j} : job'[k] = job[k]
      /\ job'[j].request \in {r, None}
      BY <1>1 DEF ReadDurable, End, Goto, Idle, Job
<1>3. \A q \in Requests \ {r} : Undisturbed(q)
      BY <1>1, <1>2 DEF ReadDurable, Undisturbed, Leaseless, store
<1>4. starts[r] = 1 /\ job'[j].request = r => SoleCallKeeps(j, r)'
  <2>1. CASE End(j)
        BY <1>1, <2>1, NoneAssumption DEF End, Idle
  <2>2. CASE stored[r] = None /\ Goto(j, "drop")
        BY <1>1, <2>2 DEF ReadDurable, Goto, SoleCallKeeps, Early, store
  <2>3. CASE unread' = unread \cup {r} /\ Goto(j, "drop")
        BY <1>1, <2>3 DEF ReadDurable, Goto, SoleCallKeeps, Early, store
  <2> QED
      BY <1>1, <2>1, <2>2, <2>3 DEF ReadDurable
<1>5. Covered(r)'
      BY <1>1, <1>2 DEF ReadDurable, Covered, Active, LeaseEnd, store
<1> QED
    BY <1>1, <1>2, <1>3, <1>4, <1>5, CallFrame DEF Undisturbed, SoleCallKeeps,
       Covered

LEMMA KeepDrop ==
    ASSUME IInv, TypeOK', NEW j \in Jobs, Drop(j)
    PROVE  SoleCallsKeep' /\ ActiveRequestKeepsItsLease'
<1>0. PICK r \in Requests : job[j].request = r
      BY DEF Drop, IInv, Known, CallsCounted, TypeOK, Job
<1>1. /\ job[j].request = r /\ job \in [Jobs -> Job]
      /\ starts[r] = 1 => SoleCallKeeps(j, r)
      /\ Covered(r)
      BY <1>0 DEF IInv, Known, TypeOK, SoleCallsKeep,
        ActiveRequestKeepsItsLease, Covered
<1>2. /\ starts' = starts /\ clock' = clock
      /\ \A k \in Jobs \ {j} : job'[k] = job[k]
      /\ job'[j].request \in {r, None}
      BY <1>1 DEF Drop, End, Idle
<1>3. \A q \in Requests \ {r} : Undisturbed(q)
      BY <1>1, <1>2, ReleasedType DEF Drop, Undisturbed, Leaseless, IInv,
        Known, TypeOK
<1>4. starts[r] = 1 /\ job'[j].request = r => SoleCallKeeps(j, r)'
      BY <1>1, NoneAssumption DEF Drop, End, Idle
<1>5. Covered(r)'
      BY <1>1, <1>2 DEF Drop, Covered, Active, LeaseEnd, SoleCallKeeps
<1> QED
    BY <1>1, <1>2, <1>3, <1>4, <1>5, CallFrame DEF Undisturbed, SoleCallKeeps,
       Covered

LEMMA KeepStop ==
    ASSUME IInv, TypeOK', NEW j \in Jobs, Stop(j)
    PROVE  SoleCallsKeep' /\ ActiveRequestKeepsItsLease'
<1>0. PICK r \in Requests : job[j].request = r
      BY DEF Stop, IInv, Known, CallsCounted, TypeOK, Job
<1>1. /\ job[j].request = r /\ job \in [Jobs -> Job]
      /\ starts[r] = 1 => SoleCallKeeps(j, r)
      /\ Covered(r)
      BY <1>0 DEF IInv, Known, TypeOK, SoleCallsKeep,
        ActiveRequestKeepsItsLease, Covered
<1>2. /\ starts' = starts /\ clock' = clock
      /\ \A k \in Jobs \ {j} : job'[k] = job[k]
      /\ job'[j].request \in {r, None}
      BY <1>1 DEF Stop, End, Idle
<1>3. \A q \in Requests \ {r} : Undisturbed(q)
      BY <1>2 DEF Stop, Undisturbed, Leaseless, store
<1>4. starts[r] = 1 /\ job'[j].request = r => SoleCallKeeps(j, r)'
      BY <1>1, NoneAssumption DEF Stop, End, Idle
<1>5. Covered(r)'
      BY <1>1, <1>2 DEF Stop, Covered, Active, LeaseEnd, store
<1> QED
    BY <1>1, <1>2, <1>3, <1>4, <1>5, CallFrame DEF Undisturbed, SoleCallKeeps,
       Covered

LEMMA KeepBegin ==
    ASSUME IInv, TypeOK', NEW j \in Jobs, NEW r \in Requests, Begin(j, r)
    PROVE  SoleCallsKeep' /\ ActiveRequestKeepsItsLease'
<1>1. /\ clock' = clock /\ lease' = lease /\ stored' = stored
      /\ unread' = unread /\ stored[r] = None /\ starts \in [Requests -> Nat]
      /\ \A k \in Jobs \ {j} : job'[k] = job[k]
      /\ job'[j].at = "list" /\ job'[j].request = r
      /\ starts'[r] = starts[r] + 1
      /\ \A q \in Requests \ {r} : starts'[q] = starts[q]
      BY DEF Begin, IInv, Known, TypeOK, store
<1>2. \A q \in Requests \ {r} : Undisturbed(q)
      BY <1>1 DEF Undisturbed, Leaseless
<1>3. ASSUME NEW k \in Jobs, NEW q \in Requests,
             job'[k].request = q, starts'[q] = 1
      PROVE  SoleCallKeeps(k, q)'
  <2>1. CASE q = r
    <3>1. starts[r] = 0
          BY <1>1, <1>3, <2>1
    <3>2. Leaseless(r) /\ \A i \in Jobs : job[i].request # r
          BY <3>1, NoneAssumption DEF IInv, Known, CallsCounted
    <3>3. k = j
          BY <1>1, <1>3, <2>1, <3>2
    <3> QED
        BY <1>1, <2>1, <3>2, <3>3 DEF SoleCallKeeps, Leaseless
  <2>2. CASE q # r
    <3>1. k # j /\ job'[k] = job[k] /\ starts[q] = 1
          BY <1>1, <1>3, <2>2
    <3>2. SoleCallKeeps(k, q)
          BY <1>3, <3>1 DEF IInv, SoleCallsKeep
    <3> QED
        BY <1>2, <2>2, <3>1, <3>2, UndisturbedCall DEF IInv, SoleCallKeeps
  <2> QED
      BY <2>1, <2>2
<1>4. ASSUME NEW q \in Requests
      PROVE  Covered(q)'
  <2>1. CASE q = r
        BY <1>1, <2>1 DEF Covered, Active, LeaseEnd
  <2>2. CASE q # r
        BY <1>2, <2>2, UndisturbedRequest DEF IInv, ActiveRequestKeepsItsLease,
                                              Covered
  <2> QED
      BY <2>1, <2>2
<1> QED
    BY <1>3, <1>4 DEF SoleCallsKeep, ActiveRequestKeepsItsLease, Covered

LEMMA KeepSubmit ==
    ASSUME IInv, NEW r \in Requests, Submit(r)
    PROVE  SoleCallsKeep' /\ ActiveRequestKeepsItsLease'
BY DEF Submit, IInv, SoleCallsKeep, ActiveRequestKeepsItsLease,
  SoleCallKeeps, Leaseless, Active, LeaseEnd

\* No sole call of a stored Request still counts on its lease.
LEMMA StoredFrame ==
    ASSUME IInv, NEW r \in Requests, stored[r] # None, ~Active(r)',
           clock' = clock, job' = job, starts' = starts, unread' = unread,
           \A q \in Requests \ {r} : Undisturbed(q)
    PROVE  SoleCallsKeep' /\ ActiveRequestKeepsItsLease'
<1>1. ASSUME NEW k \in Jobs, NEW q \in Requests,
             job'[k].request = q, starts'[q] = 1
      PROVE  SoleCallKeeps(k, q)'
  <2>1. SoleCallKeeps(k, q)
        BY <1>1 DEF IInv, SoleCallsKeep
  <2>2. CASE q = r
        BY <2>1, <2>2 DEF SoleCallKeeps, Early
  <2>3. CASE q # r
        BY <2>1, <2>3, UndisturbedCall DEF IInv, SoleCallKeeps
  <2> QED
      BY <2>2, <2>3
<1>2. ASSUME NEW q \in Requests
      PROVE  Covered(q)'
  <2>1. CASE q = r
        BY <2>1 DEF Covered
  <2>2. CASE q # r
        BY <2>2, UndisturbedRequest DEF IInv, ActiveRequestKeepsItsLease, Covered
  <2> QED
      BY <2>1, <2>2
<1> QED
    BY <1>1, <1>2 DEF SoleCallsKeep, ActiveRequestKeepsItsLease, Covered

LEMMA KeepPersistSubmission ==
    ASSUME IInv, NEW r \in Requests, PersistSubmission(r)
    PROVE  SoleCallsKeep' /\ ActiveRequestKeepsItsLease'
<1>1. stored[r] \in StoredRequest /\ stored[r] # None
      BY DEF PersistSubmission, IInv, Known, TypeOK
<1>2. /\ clock' = clock /\ job' = job /\ starts' = starts /\ lease' = lease
      /\ unread' = unread
      /\ stored' = [stored EXCEPT ![r].submitted = TRUE]
      BY DEF PersistSubmission
<1>3. stored'[r].submitted
      BY <1>1, <1>2 DEF IInv, Known, TypeOK
<1>4. ~Active(r)'
      BY <1>3 DEF Active
<1>5. \A q \in Requests \ {r} : Undisturbed(q)
      BY <1>2 DEF Undisturbed, Leaseless
<1> QED
    BY <1>1, <1>2, <1>4, <1>5, StoredFrame DEF Active

LEMMA KeepReleaseLease ==
    ASSUME IInv, NEW r \in Requests, ReleaseLease(r)
    PROVE  SoleCallsKeep' /\ ActiveRequestKeepsItsLease'
<1>1. /\ clock' = clock /\ job' = job /\ starts' = starts /\ stored' = stored
      /\ unread' = unread
      /\ stored[r] # None /\ stored[r].submitted /\ lease' = Released(r)
      BY DEF ReleaseLease
<1>2. \A q \in Requests \ {r} : Undisturbed(q)
      BY <1>1, ReleasedType DEF Undisturbed, Leaseless, IInv, Known, TypeOK
<1> QED
    BY <1>1, <1>2, StoredFrame DEF Active

LEMMA KeepTick ==
    ASSUME IInv, TypeOK', Tick
    PROVE  SoleCallsKeep' /\ ActiveRequestKeepsItsLease'
<1>1. /\ lease' = lease /\ stored' = stored /\ job' = job /\ starts' = starts
      /\ unread' = unread
      /\ clock \in Nat /\ clock' = clock + 1
      BY DEF Tick, store, IInv, Known, TypeOK
<1>2. ASSUME NEW k \in Jobs, NEW q \in Requests, SoleCallKeeps(k, q)
      PROVE  SoleCallKeeps(k, q)'
  <2>1. job[k].now \in Nat
        BY DEF IInv, Known, TypeOK, Job
  <2> QED
      BY <1>1, <1>2, <2>1, Numbers DEF SoleCallKeeps, LeaseExpiry, Leaseless
<1>3. ASSUME NEW q \in Requests, Active(q)'
      PROVE  Active(q)
  <2>1. stored[q].validUntil \in Nat
        BY <1>1, <1>3 DEF Active, TypeOK, StoredRequest
  <2> QED
      BY <1>1, <1>3, <2>1 DEF Active
<1>4. SoleCallsKeep'
      BY <1>1, <1>2 DEF IInv, SoleCallsKeep, SoleCallKeeps
<1>5. ASSUME NEW q \in Requests, Active(q)', clock' < LeaseEnd(q)'
      PROVE  clock < LeaseEnd(q) /\ LeaseEnd(q)' = LeaseEnd(q)
  <2>1. stored[q].createdAt \in Nat
        BY <1>1, <1>3, <1>5 DEF Active, IInv, Known, TypeOK, StoredRequest
  <2> QED
      BY <1>1, <1>5, <2>1, Numbers DEF LeaseEnd
<1>6. ActiveRequestKeepsItsLease'
      BY <1>1, <1>3, <1>5 DEF IInv, ActiveRequestKeepsItsLease, Tick
<1> QED
    BY <1>4, <1>6

-----------------------------------------------------------------------------
(* The specification.                                                      *)

LEMMA TypeStep ==
    ASSUME TypeOK, CallsCounted, [Next]_vars
    PROVE  TypeOK'
<1>1. ASSUME NEW j \in Jobs, NEW r \in Requests, Begin(j, r)
      PROVE  TypeOK'
      BY <1>1, TypeBegin
<1>2. ASSUME NEW j \in Jobs, ListLeases(j)
      PROVE  TypeOK'
      BY <1>2, TypeListLeases
<1>3. ASSUME NEW j \in Jobs, FindLease(j)
      PROVE  TypeOK'
      BY <1>3, TypeFindLease
<1>4. ASSUME NEW j \in Jobs, Claim(j)
      PROVE  TypeOK'
      BY <1>4, TypeClaim
<1>5. ASSUME NEW j \in Jobs, LoadAccount(j)
      PROVE  TypeOK'
      BY <1>5, TypeLoadAccount
<1>6. ASSUME NEW j \in Jobs, LoadFails(j)
      PROVE  TypeOK'
      BY <1>6, TypeLoadFails
<1>7. ASSUME NEW j \in Jobs, Build(j)
      PROVE  TypeOK'
      BY <1>7, TypeBuild
<1>8. ASSUME NEW j \in Jobs, Write(j)
      PROVE  TypeOK'
      BY <1>8, TypeWrite
<1>9. ASSUME NEW j \in Jobs, CreationFails(j)
      PROVE  TypeOK'
      BY <1>9, TypeCreationFails
<1>10. ASSUME NEW j \in Jobs, ReadDurable(j)
      PROVE  TypeOK'
      BY <1>10, TypeReadDurable
<1>11. ASSUME NEW j \in Jobs, Drop(j)
      PROVE  TypeOK'
      BY <1>11, TypeDrop
<1>12. ASSUME NEW j \in Jobs, Stop(j)
      PROVE  TypeOK'
      BY <1>12, TypeStop
<1>13. ASSUME NEW r \in Requests, Submit(r)
      PROVE  TypeOK'
      BY <1>13, TypeSubmit
<1>14. ASSUME NEW r \in Requests, PersistSubmission(r)
      PROVE  TypeOK'
      BY <1>14, TypePersistSubmission
<1>15. ASSUME NEW r \in Requests, ReleaseLease(r)
      PROVE  TypeOK'
      BY <1>15, TypeReleaseLease
<1>16. CASE Tick
      BY <1>16, TypeTick
<1>17. CASE UNCHANGED vars
      BY <1>17 DEF vars, TypeOK, Leased
<1> QED
    BY <1>1, <1>2, <1>3, <1>4, <1>5, <1>6, <1>7, <1>8, <1>9, <1>10, <1>11,
       <1>12, <1>13, <1>14, <1>15, <1>16, <1>17 DEF Next

LEMMA CallsStep ==
    ASSUME TypeOK, CallsCounted, [Next]_vars
    PROVE  CallsCounted'
<1>0. TypeOK'
      BY TypeStep
<1>1. ASSUME NEW j \in Jobs, NEW r \in Requests, Begin(j, r)
      PROVE  CallsCounted'
      BY <1>1, CallsBegin, <1>0
<1>2. ASSUME NEW j \in Jobs, ListLeases(j)
      PROVE  CallsCounted'
      BY <1>2, CallsListLeases, <1>0
<1>3. ASSUME NEW j \in Jobs, FindLease(j)
      PROVE  CallsCounted'
      BY <1>3, CallsFindLease, <1>0
<1>4. ASSUME NEW j \in Jobs, Claim(j)
      PROVE  CallsCounted'
      BY <1>4, CallsClaim, <1>0
<1>5. ASSUME NEW j \in Jobs, LoadAccount(j)
      PROVE  CallsCounted'
      BY <1>5, CallsLoadAccount, <1>0
<1>6. ASSUME NEW j \in Jobs, LoadFails(j)
      PROVE  CallsCounted'
      BY <1>6, CallsLoadFails, <1>0
<1>7. ASSUME NEW j \in Jobs, Build(j)
      PROVE  CallsCounted'
      BY <1>7, CallsBuild, <1>0
<1>8. ASSUME NEW j \in Jobs, Write(j)
      PROVE  CallsCounted'
      BY <1>8, CallsWrite, <1>0
<1>9. ASSUME NEW j \in Jobs, CreationFails(j)
      PROVE  CallsCounted'
      BY <1>9, CallsCreationFails, <1>0
<1>10. ASSUME NEW j \in Jobs, ReadDurable(j)
      PROVE  CallsCounted'
      BY <1>10, CallsReadDurable, <1>0
<1>11. ASSUME NEW j \in Jobs, Drop(j)
      PROVE  CallsCounted'
      BY <1>11, CallsDrop, <1>0
<1>12. ASSUME NEW j \in Jobs, Stop(j)
      PROVE  CallsCounted'
      BY <1>12, CallsStop, <1>0
<1>13. ASSUME NEW r \in Requests, Submit(r)
      PROVE  CallsCounted'
      BY <1>13, CallsSubmit, <1>0
<1>14. ASSUME NEW r \in Requests, PersistSubmission(r)
      PROVE  CallsCounted'
      BY <1>14, CallsPersistSubmission, <1>0
<1>15. ASSUME NEW r \in Requests, ReleaseLease(r)
      PROVE  CallsCounted'
      BY <1>15, CallsReleaseLease, <1>0
<1>16. CASE Tick
      BY <1>16, CallsTick, <1>0
<1>17. CASE UNCHANGED vars
      BY <1>17 DEF vars, CallsCounted, Leaseless
<1> QED
    BY <1>1, <1>2, <1>3, <1>4, <1>5, <1>6, <1>7, <1>8, <1>9, <1>10, <1>11,
       <1>12, <1>13, <1>14, <1>15, <1>16, <1>17 DEF Next

LEMMA KeepStep ==
    ASSUME IInv, [Next]_vars
    PROVE  SoleCallsKeep' /\ ActiveRequestKeepsItsLease'
<1>0. TypeOK'
      BY TypeStep DEF IInv, Known
<1>1. ASSUME NEW j \in Jobs, NEW r \in Requests, Begin(j, r)
      PROVE  SoleCallsKeep' /\ ActiveRequestKeepsItsLease'
      BY <1>1, KeepBegin, <1>0
<1>2. ASSUME NEW j \in Jobs, ListLeases(j)
      PROVE  SoleCallsKeep' /\ ActiveRequestKeepsItsLease'
      BY <1>2, KeepListLeases, <1>0
<1>3. ASSUME NEW j \in Jobs, FindLease(j)
      PROVE  SoleCallsKeep' /\ ActiveRequestKeepsItsLease'
      BY <1>3, KeepFindLease, <1>0
<1>4. ASSUME NEW j \in Jobs, Claim(j)
      PROVE  SoleCallsKeep' /\ ActiveRequestKeepsItsLease'
      BY <1>4, KeepClaim, <1>0
<1>5. ASSUME NEW j \in Jobs, LoadAccount(j)
      PROVE  SoleCallsKeep' /\ ActiveRequestKeepsItsLease'
      BY <1>5, KeepLoadAccount, <1>0
<1>6. ASSUME NEW j \in Jobs, LoadFails(j)
      PROVE  SoleCallsKeep' /\ ActiveRequestKeepsItsLease'
      BY <1>6, KeepLoadFails, <1>0
<1>7. ASSUME NEW j \in Jobs, Build(j)
      PROVE  SoleCallsKeep' /\ ActiveRequestKeepsItsLease'
      BY <1>7, KeepBuild, <1>0
<1>8. ASSUME NEW j \in Jobs, Write(j)
      PROVE  SoleCallsKeep' /\ ActiveRequestKeepsItsLease'
      BY <1>8, KeepWrite, <1>0
<1>9. ASSUME NEW j \in Jobs, CreationFails(j)
      PROVE  SoleCallsKeep' /\ ActiveRequestKeepsItsLease'
      BY <1>9, KeepCreationFails, <1>0
<1>10. ASSUME NEW j \in Jobs, ReadDurable(j)
      PROVE  SoleCallsKeep' /\ ActiveRequestKeepsItsLease'
      BY <1>10, KeepReadDurable, <1>0
<1>11. ASSUME NEW j \in Jobs, Drop(j)
      PROVE  SoleCallsKeep' /\ ActiveRequestKeepsItsLease'
      BY <1>11, KeepDrop, <1>0
<1>12. ASSUME NEW j \in Jobs, Stop(j)
      PROVE  SoleCallsKeep' /\ ActiveRequestKeepsItsLease'
      BY <1>12, KeepStop, <1>0
<1>13. ASSUME NEW r \in Requests, Submit(r)
      PROVE  SoleCallsKeep' /\ ActiveRequestKeepsItsLease'
      BY <1>13, KeepSubmit, <1>0
<1>14. ASSUME NEW r \in Requests, PersistSubmission(r)
      PROVE  SoleCallsKeep' /\ ActiveRequestKeepsItsLease'
      BY <1>14, KeepPersistSubmission, <1>0
<1>15. ASSUME NEW r \in Requests, ReleaseLease(r)
      PROVE  SoleCallsKeep' /\ ActiveRequestKeepsItsLease'
      BY <1>15, KeepReleaseLease, <1>0
<1>16. CASE Tick
      BY <1>16, KeepTick, <1>0
<1>17. CASE UNCHANGED vars
      BY <1>17 DEF vars, IInv, SoleCallsKeep, SoleCallKeeps, Leaseless,
        ActiveRequestKeepsItsLease, Active, LeaseEnd
<1> QED
    BY <1>1, <1>2, <1>3, <1>4, <1>5, <1>6, <1>7, <1>8, <1>9, <1>10, <1>11,
       <1>12, <1>13, <1>14, <1>15, <1>16, <1>17 DEF Next

LEMMA InitIInv == Init => IInv
<1> SUFFICES ASSUME Init PROVE IInv
    OBVIOUS
<1>1. TypeOK
      BY Numbers, IdleType DEF Init, TypeOK, Leased
<1>2. CallsCounted
      BY DEF Init, CallsCounted, Idle, Leaseless
<1>4. SoleCallsKeep /\ ActiveRequestKeepsItsLease
      BY DEF Init, SoleCallsKeep, ActiveRequestKeepsItsLease
<1> QED
    BY <1>1, <1>2, <1>4 DEF IInv, Known

LEMMA AlwaysCounted == Spec => [](TypeOK /\ CallsCounted)
<1>1. Init => TypeOK /\ CallsCounted
      BY InitIInv DEF IInv, Known
<1>2. TypeOK /\ CallsCounted /\ [Next]_vars => (TypeOK /\ CallsCounted)'
      BY TypeStep, CallsStep
<1> QED
    BY <1>1, <1>2, PTL DEF Spec

\* Rows, Requests and calls keep their types; the table holds one lease per
\* Request and the ledger no transaction that was not stored.
THEOREM ChannelTypes == Spec => []TypeOK
BY AlwaysCounted, PTL

\* The only call of a Request finds nothing that it did not leave there, and
\* a Request that it stored has its lease, whatever fails and however long
\* anything takes.
THEOREM ChannelInvariance == Spec => []IInv
<1>1. IInv /\ [Next]_vars => IInv'
      BY TypeStep, CallsStep, KeepStep DEF IInv, Known
<1> QED
    BY <1>1, InitIInv, PTL DEF Spec

\* An active Request that one call created has its channel's lease until the
\* grace is over, unless a catch block could not read the Request.
THEOREM SingleCallsKeepTheirLease == Spec => []ActiveRequestKeepsItsLease
<1>1. IInv => ActiveRequestKeepsItsLease
      BY DEF IInv
<1> QED
    BY <1>1, ChannelInvariance, PTL

\* Two active Requests share a channel only if one of them was created by
\* more than one call, could not be read by a catch block, or was built after
\* the grace.
THEOREM CollisionsAreCaused == Spec => []CollisionsHaveACause
<1>1. IInv => CollisionsHaveACause
  <2>1. SUFFICES ASSUME IInv, NEW r \in Requests, NEW q \in Requests,
                        SameChannel(r, q),
                        \A s \in {r, q} : /\ ~(starts[s] > 1) /\ s \notin unread
                                          /\ ~BuiltLate(s)
                 PROVE  FALSE
        BY DEF CollisionsHaveACause
  <2>2. ASSUME NEW s \in {r, q}
        PROVE  lease[stored[s].channel] = [request |-> s, expires |-> LeaseEnd(s)]
    <3>1. s \in Requests /\ Active(s) /\ stored[s] \in StoredRequest
          BY <2>1 DEF SameChannel, Active, IInv, Known, TypeOK
    <3>2. starts[s] \in Nat /\ starts[s] >= 1
          BY <2>1, <3>1 DEF Active, IInv, Known, CallsCounted, TypeOK
    <3>3. starts[s] = 1
          BY <2>1, <3>2
    <3>4. /\ stored[s].validUntil \in Nat /\ LeaseEnd(s) \in Nat /\ clock \in Nat
          BY <2>1, <3>1, Numbers DEF StoredRequest, LeaseEnd, IInv, Known, TypeOK
    <3>5. clock < LeaseEnd(s)
          BY <2>1, <3>1, <3>4 DEF Active, BuiltLate
    <3> QED
        BY <2>1, <3>1, <3>3, <3>5 DEF IInv, ActiveRequestKeepsItsLease
  <2>3. lease[stored[r].channel].request = r /\ lease[stored[q].channel].request = q
        BY <2>2
  <2> QED
      BY <2>1, <2>3 DEF SameChannel
<1> QED
    BY <1>1, ChannelInvariance, PTL

-----------------------------------------------------------------------------
(* The end of a lease.                                                     *)

LEMMA TurnStep ==
    ASSUME TypeOK, CallsCounted, Next, NEW c \in Leased
    PROVE  EndsInTurn(c)
<1>1. /\ c \in Channels /\ lease[c] # None /\ lease[c] \in Lease
      /\ lease \in [Channels -> Lease \cup {None}]
      BY DEF Leased, TypeOK
<1>2. CASE lease' = lease
      BY <1>1, <1>2 DEF EndsInTurn
<1>3. ASSUME NEW j \in Jobs, Claim(j)
      PROVE  EndsInTurn(c)
  <2>1. job[j].now \in Nat /\ clock \in Nat /\ job[j].now <= clock
        BY DEF TypeOK, CallsCounted, Job
  <2>2. ~Claimable(c, job[j].request, job[j].now)
           \/ lease[c].request = job[j].request
           \/ ~(lease[c].expires > clock)
        BY <1>1, <2>1 DEF Claimable, Lease
  <2>3. lease'[c] = lease[c]
        \/ /\ Claimable(c, job[j].request, job[j].now)
           /\ lease'[c] = [request |-> job[j].request,
                           expires |-> LeaseExpiry(job[j].now)]
        BY <1>1, <1>3 DEF Claim
  <2>4. [request |-> job[j].request, expires |-> LeaseExpiry(job[j].now)] # None
    <3>1. job[j].request \in Requests
          BY <1>3 DEF Claim, TypeOK, CallsCounted, Job
    <3>2. LeaseExpiry(job[j].now) \in Nat
          BY <2>1, Numbers DEF LeaseExpiry
    <3> QED
        BY <3>1, <3>2, NoneAssumption DEF Lease
  <2> QED
      BY <1>1, <2>2, <2>3, <2>4 DEF EndsInTurn
<1>4. ASSUME NEW j \in Jobs, LoadFails(j)
      PROVE  EndsInTurn(c)
  <2>1. /\ job'[j] = Idle /\ job[j].at = "load"
        /\ lease' = lease \/ lease' = Released(job[j].request)
        BY <1>4 DEF LoadFails, End, TypeOK
  <2> QED
      BY <1>1, <2>1, ReleasedType DEF EndsInTurn
<1>5. ASSUME NEW j \in Jobs, Drop(j)
      PROVE  EndsInTurn(c)
  <2>1. /\ job'[j] = Idle /\ job[j].at = "drop"
        /\ lease' = Released(job[j].request)
        BY <1>5 DEF Drop, End, TypeOK
  <2> QED
      BY <1>1, <2>1, ReleasedType DEF EndsInTurn
<1>6. ASSUME NEW r \in Requests, ReleaseLease(r)
      PROVE  EndsInTurn(c)
      BY <1>1, <1>6, ReleasedType DEF ReleaseLease, EndsInTurn
<1> QED
    BY <1>2, <1>3, <1>4, <1>5, <1>6 DEF Next, Begin, ListLeases, FindLease,
      LoadAccount, Build, Write, CreationFails, ReadDurable, Stop, Submit,
      PersistSubmission, Tick, store

\* No other Request takes over a lease that has not expired; it ends with the
\* confirmation of its Request or with a call for it that gives up.
THEOREM LeasesAreNotTaken == Spec => LeasesEndInTurn
<1>1. TypeOK /\ CallsCounted /\ [Next]_vars
      => [\A c \in Leased : EndsInTurn(c)]_vars
      BY TypeStep, CallsStep, TurnStep
<1> QED
    BY <1>1, AlwaysCounted, PTL DEF Spec, LeasesEndInTurn

-----------------------------------------------------------------------------
(* The creator's alerts.                                                   *)

MonitorSteps == {"observe", "claim", "send", "release"}
ProvisionSteps == {"idle", "check", "source", "get", "submit", "verify"} \cup MonitorSteps
Provision ==
    [step : ProvisionSteps, account : Accounts \cup {Null}, monitored : BOOLEAN,
     now : Nat, attempt : Nat, after : BOOLEAN, balance : Nat, sequence : Nat,
     previous : States \cup {Null}, replaced : States \cup {Null}, state : States,
     event : {"capacity_exhausted", "low_balance", "balance_recovered", Null},
     episode : Nat, arrived : BOOLEAN, again : BOOLEAN]

\* Calls and what they share have their types; an episode begins with a
\* write of the row, and a call that writes the row again has seen one.
MonitorTypeOK ==
    /\ balance \in Nat /\ nextSequence \in Nat /\ instant \in Nat
    /\ call \in [Provisions -> Provision]
    /\ told \in Seq(Nat) /\ excused \subseteq DOMAIN told /\ lost \subseteq DOMAIN told
    /\ row = Null => told = <<>>
    /\ row # Null => row \in MonitorRow /\ told # <<>>
    /\ \A c \in Provisions :
           /\ call[c].step \in {"claim", "send", "release"} => row # Null
           /\ call[c].step \in {"send", "release"} => call[c].episode \in DOMAIN told

\* Call c claimed the alert of episode e and has not settled it.
Claimant(c, e) == call[c].step \in {"send", "release"} /\ call[c].episode = e
\* The row still shows the claim of call c.
ShowsClaim(c) == row.alerted = call[c].now /\ row.state = call[c].state

\* The alert of episode e is the business of one call at a time.
SettledOnce(e) ==
    /\ told[e] <= 1
    /\ \A c, d \in Provisions : Claimant(c, e) /\ Claimant(d, e) => c = d
    /\ \A c \in Provisions :
           Claimant(c, e) =>
               told[e] = IF call[c].step = "release" /\ call[c].arrived THEN 1 ELSE 0
    /\ e = Episode =>
           /\ told[e] = 1 => row.alerted # Null
           /\ \A c \in Provisions : Claimant(c, e) => ShowsClaim(c)

EpisodesAreSettledOnce == \A e \in DOMAIN told : e \notin excused => SettledOnce(e)

\* A claim that the row shows was announced, is in the hands of the call
\* that made it, or is lost.
ClaimsAreHeld ==
    row # Null /\ row.alerted # Null =>
        \/ told[Episode] > 0 \/ Episode \in lost
        \/ \E c \in Provisions : Claimant(c, Episode) /\ ShowsClaim(c)

\* A call's event follows from its snapshot, what it read and what it replaced.
EventsFollow ==
    \A c \in Provisions :
        /\ call[c].step \in MonitorSteps =>
               call[c].state = assessCapacity(call[c].balance, call[c].previous)
        /\ call[c].step \in {"claim", "send", "release"} =>
               /\ call[c].event = alertEvent(call[c].replaced, call[c].state)
               /\ call[c].event # Null

MonitorInv == MonitorTypeOK /\ EpisodesAreSettledOnce /\ ClaimsAreHeld /\ EventsFollow

-----------------------------------------------------------------------------
(* Values of the monitor.                                                  *)

\* A judgement is one of the states, and an event follows from two of them.
LEMMA AssessmentType ==
    ASSUME NEW amount, NEW previous, NEW current
    PROVE  /\ assessCapacity(amount, previous) \in States
           /\ alertEvent(previous, current) \in
                  {"capacity_exhausted", "low_balance", "balance_recovered", Null}
<1> DEFINE threshold == IF previous \in {"low", "insufficient"} THEN Recovery ELSE Low
<1>1. assessCapacity(amount, previous) \in States
  <2>1. CASE amount < Cost
    BY <2>1 DEF assessCapacity, States
  <2>2. CASE ~ (amount < Cost) /\ amount >= Cost /\ amount < threshold
    BY <2>2 DEF assessCapacity, States
  <2>3. CASE ~ (amount < Cost) /\ ~ (amount >= Cost /\ amount < threshold)
    BY <2>3 DEF assessCapacity, States
  <2> QED BY <2>1, <2>2, <2>3
<1>2. alertEvent(previous, current) \in
          {"capacity_exhausted", "low_balance", "balance_recovered", Null}
  BY DEF alertEvent
<1> QED BY <1>1, <1>2

\* A call that waits is typed, and so is the next step a call takes.
LEMMA ProvisionType ==
    ASSUME NEW j \in Provision, NEW s \in ProvisionSteps
    PROVE  /\ NoCall \in Provision /\ NoCall.step = "idle"
           /\ Own(j, s) \in Provision /\ Own(j, s).step = s
           /\ Judged(j) \in Provision
           /\ Judged(j).step \in {"idle", "submit"}
<1>1. NoCall \in Provision /\ NoCall.step = "idle"
  BY DEF NoCall, Provision, ProvisionSteps, States
<1>2. \A t \in ProvisionSteps : Own(j, t) \in Provision /\ Own(j, t).step = t
  BY DEF Own, NoCall, Provision, States
<1>3. "submit" \in ProvisionSteps
  BY DEF ProvisionSteps
<1>4. Judged(j) \in Provision /\ Judged(j).step \in {"idle", "submit"}
  <2>1. CASE j.after \/ j.state = "insufficient"
    BY <1>1, <2>1 DEF Judged
  <2>2. CASE ~ (j.after \/ j.state = "insufficient")
    <3>1. Judged(j) = [Own(j, "submit") EXCEPT !.sequence = j.sequence]
      BY <2>2 DEF Judged
    <3>2. Own(j, "submit") \in Provision /\ Own(j, "submit").step = "submit"
      BY <1>2, <1>3
    <3> QED BY <3>1, <3>2 DEF Provision
  <2> QED BY <2>1, <2>2
<1> QED BY <1>1, <1>2, <1>4

\* The initial state.
LEMMA MonitorStarts ==
    ASSUME CreatorInit
    PROVE  MonitorInv
<1>1. \A c \in Provisions : call[c] = NoCall
  BY DEF CreatorInit
<1>2. NoCall \in Provision /\ NoCall.step = "idle"
  BY DEF NoCall, Provision, ProvisionSteps, States
<1>3. MonitorTypeOK
  <2>1. balance \in Nat /\ nextSequence \in Nat /\ instant \in Nat
    BY CreatorAssumption DEF CreatorInit
  <2>2. call \in [Provisions -> Provision]
    BY <1>2 DEF CreatorInit
  <2>3. told \in Seq(Nat) /\ excused \subseteq DOMAIN told /\ lost \subseteq DOMAIN told
    BY DEF CreatorInit
  <2>4. row = Null /\ told = <<>>
    BY DEF CreatorInit
  <2> QED BY <1>1, <1>2, <2>1, <2>2, <2>3, <2>4 DEF MonitorTypeOK
<1>4. EpisodesAreSettledOnce
  BY DEF EpisodesAreSettledOnce, CreatorInit
<1>5. ClaimsAreHeld
  BY DEF ClaimsAreHeld, CreatorInit
<1>6. EventsFollow
  BY <1>1, <1>2 DEF EventsFollow, MonitorSteps
<1> QED BY <1>3, <1>4, <1>5, <1>6 DEF MonitorInv

-----------------------------------------------------------------------------
(* Steps.                                                                  *)

\* A step of call c that leaves the row alone and does not end at the alert.
LEMMA ElsewhereKeeps ==
    ASSUME MonitorInv, NEW c \in Provisions, NEW n \in Provision,
           Become(c, n), n.step \notin {"claim", "send", "release"},
           n.step = "observe" => n.state = assessCapacity(n.balance, n.previous),
           balance' \in Nat, nextSequence' \in Nat, instant' \in Nat,
           UNCHANGED <<row, told, excused>>,
           lost \subseteq lost', lost' \subseteq DOMAIN told,
           row # Null /\ Claimant(c, Episode) /\ ShowsClaim(c) => Episode \in lost'
    PROVE  MonitorInv'
<1> USE DEF MonitorInv
<1>0. call \in [Provisions -> Provision]
  BY DEF MonitorTypeOK
<1>1. /\ call' \in [Provisions -> Provision] /\ call'[c] = n
      /\ \A d \in Provisions : d # c => call'[d] = call[d]
  BY <1>0 DEF Become
<1>2. \A d \in Provisions : call'[d].step \in {"claim", "send", "release"} =>
          d # c /\ call'[d] = call[d]
  BY <1>1
<1>3. MonitorTypeOK'
  BY <1>1, <1>2 DEF MonitorTypeOK
<1>4. \A d \in Provisions : \A e : Claimant(d, e)' =>
          d # c /\ call'[d] = call[d] /\ Claimant(d, e)
  BY <1>2 DEF Claimant
<1>5. EpisodesAreSettledOnce'
  <2> SUFFICES ASSUME NEW e \in DOMAIN told, e \notin excused
               PROVE  SettledOnce(e)'
    BY DEF EpisodesAreSettledOnce
  <2>1. SettledOnce(e)
    BY DEF EpisodesAreSettledOnce
  <2>2. Episode' = Episode
    BY DEF Episode
  <2> QED BY <1>4, <2>1, <2>2 DEF SettledOnce, ShowsClaim
<1>6. ClaimsAreHeld'
  <2> SUFFICES ASSUME row # Null, row.alerted # Null
               PROVE  \/ told[Episode] > 0 \/ Episode \in lost'
                      \/ \E d \in Provisions : (Claimant(d, Episode) /\ ShowsClaim(d))'
    BY DEF ClaimsAreHeld, Episode
  <2>1. CASE told[Episode] > 0 \/ Episode \in lost
    BY <2>1
  <2>2. CASE \E d \in Provisions : Claimant(d, Episode) /\ ShowsClaim(d)
    <3>1. PICK d \in Provisions : Claimant(d, Episode) /\ ShowsClaim(d)
      BY <2>2
    <3>2. CASE d = c
      BY <3>1, <3>2
    <3>3. CASE d # c
      <4>1. call'[d] = call[d]
        BY <1>1, <3>3
      <4> QED BY <3>1, <4>1 DEF Claimant, ShowsClaim, Episode
    <3> QED BY <3>2, <3>3
  <2> QED BY <2>1, <2>2 DEF ClaimsAreHeld
<1>7. EventsFollow'
  <2> SUFFICES ASSUME NEW d \in Provisions
               PROVE  /\ call'[d].step \in MonitorSteps =>
                             call'[d].state = assessCapacity(call'[d].balance, call'[d].previous)
                      /\ call'[d].step \in {"claim", "send", "release"} =>
                             /\ call'[d].event = alertEvent(call'[d].replaced, call'[d].state)
                             /\ call'[d].event # Null
    BY DEF EventsFollow, assessCapacity, alertEvent
  <2>1. CASE d = c
    BY <1>1, <2>1 DEF MonitorSteps
  <2>2. CASE d # c
    BY <1>1, <2>2 DEF EventsFollow
  <2> QED BY <2>1, <2>2
<1> QED BY <1>3, <1>5, <1>6, <1>7

\* A call provisions a channel: everything but the alert.
LEMMA ProvisioningKeeps ==
    ASSUME MonitorInv, NEW c \in Provisions,
           \/ \E a \in Accounts, monitored \in BOOLEAN : Start(c, a, monitored)
           \/ CheckAccount(c) \/ LoadCreator(c) \/ SubmitCreation(c)
           \/ SubmitUnanswered(c) \/ Verify(c)
    PROVE  MonitorInv'
<1> DEFINE j == call[c]
           Plain == ProvisionSteps \ MonitorSteps
<1>1. j \in Provision /\ balance \in Nat /\ nextSequence \in Nat /\ instant \in Nat
      /\ lost \subseteq DOMAIN told
  BY DEF MonitorInv, MonitorTypeOK
<1>2. /\ Cost \in Nat /\ MaxInstant \in Nat /\ Retries \in Nat
      /\ \A s \in ProvisionSteps : Own(j, s) \in Provision /\ Own(j, s).step = s
      /\ NoCall \in Provision /\ NoCall.step = "idle"
  <2>1. \A s \in ProvisionSteps : Own(j, s) \in Provision /\ Own(j, s).step = s
    BY <1>1, ProvisionType
  <2>2. NoCall \in Provision /\ NoCall.step = "idle"
    BY DEF NoCall, Provision, ProvisionSteps, States
  <2> QED BY <2>1, <2>2, CreatorAssumption
<1>3. /\ Plain \subseteq ProvisionSteps /\ Plain \cap MonitorSteps = {}
      /\ {"idle", "check", "source", "get", "submit", "verify"} \subseteq Plain
      /\ MonitorSteps = {"observe", "claim", "send", "release"}
  BY DEF ProvisionSteps, MonitorSteps
<1>4. j.step \notin {"send", "release"} => ~ Claimant(c, Episode)
  BY DEF Claimant
<1>5. j.step \notin {"send", "release"}
  BY DEF Start, CheckAccount, LoadCreator, SubmitCreation, SubmitUnanswered, Verify, At
<1> SUFFICES /\ UNCHANGED <<row, told, excused, lost>>
             /\ balance' \in Nat /\ nextSequence' \in Nat /\ instant' \in Nat
             /\ \E n \in Provision : Become(c, n) /\ n.step \in Plain
  BY <1>1, <1>3, <1>4, <1>5, ElsewhereKeeps
<1>6. CASE \E a \in Accounts, monitored \in BOOLEAN : Start(c, a, monitored)
  <2>1. PICK a \in Accounts, monitored \in BOOLEAN : Start(c, a, monitored)
    BY <1>6
  <2> DEFINE n == [NoCall EXCEPT !.step = "check", !.account = a,
                                 !.monitored = monitored, !.now = instant']
  <2>0. instant' \in {instant, instant + 1}
    BY <2>1 DEF Start
  <2>2. instant' \in Nat
    BY <1>1, <2>0
  <2>3. n \in Provision /\ n.step = "check"
    BY <2>2 DEF NoCall, Provision, ProvisionSteps, States
  <2>4. Become(c, n) /\ UNCHANGED <<row, told, excused, lost, balance, nextSequence>>
    BY <2>1 DEF Start, ledger, record
  <2> QED BY <1>1, <1>3, <2>2, <2>3, <2>4
<1>7. CASE CheckAccount(c)
  <2> DEFINE n == [j EXCEPT !.step = "source"]
  <2>1. n \in Provision /\ n.step = "source"
    BY <1>1 DEF Provision, ProvisionSteps
  <2>2. Become(c, NoCall) \/ Become(c, n)
    BY <1>7 DEF CheckAccount, Proceed, Become
  <2>3. UNCHANGED <<row, told, excused, lost, balance, nextSequence, instant>>
    BY <1>7 DEF CheckAccount, ledger, record, Uneventful, bounds
  <2> QED BY <1>1, <1>2, <1>3, <2>1, <2>2, <2>3
<1>8. CASE LoadCreator(c)
  <2> DEFINE n == [j EXCEPT !.step = "get", !.balance = balance, !.sequence = nextSequence]
  <2>1. n \in Provision /\ n.step = "get"
    BY <1>1 DEF Provision, ProvisionSteps
  <2>2. Become(c, n)
    BY <1>8 DEF LoadCreator
  <2>3. UNCHANGED <<row, told, excused, lost, balance, nextSequence, instant>>
    BY <1>8 DEF LoadCreator, ledger, record, Uneventful, bounds
  <2> QED BY <1>1, <1>3, <2>1, <2>2, <2>3
<1>9. [Own(j, "source") EXCEPT !.after = TRUE] \in Provision
      /\ [Own(j, "source") EXCEPT !.after = TRUE].step = "source"
  <2>1. Own(j, "source") \in Provision /\ Own(j, "source").step = "source"
    BY <1>2, <1>3
  <2> QED BY <2>1 DEF Provision
<1>10. [Own(j, "verify") EXCEPT !.again = TRUE] \in Provision
       /\ [Own(j, "verify") EXCEPT !.again = TRUE].step = "verify"
  <2>1. Own(j, "verify") \in Provision /\ Own(j, "verify").step = "verify"
    BY <1>2, <1>3
  <2> QED BY <2>1 DEF Provision
<1>11. CASE SubmitCreation(c)
  <2>1. UNCHANGED <<row, told, excused, lost, instant>>
    BY <1>11 DEF SubmitCreation, record, Uneventful, bounds
  <2>2. balance' \in Nat /\ nextSequence' \in Nat
    BY <1>1, <1>2, <1>11 DEF SubmitCreation, Applied
  <2>3. \/ Become(c, [Own(j, "source") EXCEPT !.after = TRUE])
        \/ Become(c, Own(j, "verify"))
        \/ Become(c, [Own(j, "verify") EXCEPT !.again = TRUE])
    BY <1>11 DEF SubmitCreation
  <2> QED BY <1>1, <1>2, <1>3, <1>9, <1>10, <2>1, <2>2, <2>3
<1>12. CASE SubmitUnanswered(c)
  <2>1. UNCHANGED <<row, told, excused, lost, instant, balance, nextSequence>>
    BY <1>12 DEF SubmitUnanswered, record
  <2>2. Become(c, [Own(j, "verify") EXCEPT !.again = TRUE])
    BY <1>12 DEF SubmitUnanswered
  <2> QED BY <1>1, <1>3, <1>10, <2>1, <2>2
<1>13. CASE Verify(c)
  <2> DEFINE n == [Own(j, "check") EXCEPT !.attempt = @ + 1]
  <2>1. Own(j, "check") \in Provision /\ Own(j, "check").step = "check"
    BY <1>2, <1>3
  <2>2. n \in Provision /\ n.step = "check"
    BY <2>1 DEF Provision
  <2>3. UNCHANGED <<row, told, excused, lost, instant, balance, nextSequence>>
    BY <1>13 DEF Verify, ledger, record, Uneventful, bounds
  <2>4. \/ Become(c, [Own(j, "source") EXCEPT !.after = TRUE])
        \/ Become(c, n)
        \/ Become(c, NoCall)
    BY <1>13 DEF Verify
  <2> QED BY <1>1, <1>2, <1>3, <1>9, <2>2, <2>3, <2>4
<1> QED BY <1>6, <1>7, <1>8, <1>11, <1>12, <1>13

\* A read of the row, and what a failure leaves: no new claim, and a claim
\* that the call held is lost.
LEMMA ReadsAndFailuresKeep ==
    ASSUME MonitorInv, NEW c \in Provisions,
           ReadMonitor(c) \/ ReadMonitorFails(c) \/ MonitorFails(c) \/ ProvisionStops(c)
    PROVE  MonitorInv'
<1> DEFINE j == call[c]
           Read(previous) == [Assessed(c, previous) EXCEPT !.step = "observe"]
<1>1. /\ j \in Provision /\ balance \in Nat /\ nextSequence \in Nat /\ instant \in Nat
      /\ lost \subseteq DOMAIN told
      /\ Stored \in States \cup {Null}
  BY DEF MonitorInv, MonitorTypeOK, Stored, MonitorRow
<1>2. \A previous \in States \cup {Null} :
          /\ Assessed(c, previous) \in Provision
          /\ Read(previous) \in Provision /\ Read(previous).step = "observe"
          /\ Read(previous).state =
                 assessCapacity(Read(previous).balance, Read(previous).previous)
  <2> SUFFICES ASSUME NEW previous \in States \cup {Null}
               PROVE  /\ Assessed(c, previous) \in Provision
                      /\ Read(previous) \in Provision /\ Read(previous).step = "observe"
                      /\ Read(previous).state =
                             assessCapacity(Read(previous).balance, Read(previous).previous)
    OBVIOUS
  <2>1. assessCapacity(j.balance, previous) \in States
    BY AssessmentType
  <2>2. Assessed(c, previous) \in Provision
    BY <1>1, <2>1 DEF Assessed, Provision
  <2>3. Read(previous) \in Provision /\ Read(previous).step = "observe"
    BY <2>2 DEF Provision, ProvisionSteps, MonitorSteps
  <2>4. /\ Read(previous).state = assessCapacity(j.balance, previous)
        /\ Read(previous).balance = j.balance /\ Read(previous).previous = previous
    BY <1>1 DEF Assessed, Provision
  <2> QED BY <2>2, <2>3, <2>4
<1>3. /\ NoCall \in Provision /\ NoCall.step = "idle"
      /\ \A k \in Provision : Judged(k) \in Provision /\ Judged(k).step \in {"idle", "submit"}
  BY <1>1, ProvisionType DEF ProvisionSteps
<1>4. CASE ReadMonitor(c)
  <2>1. /\ UNCHANGED <<row, told, excused, lost, balance, nextSequence, instant>>
        /\ ~ Claimant(c, Episode)
    BY <1>4 DEF ReadMonitor, ledger, record, Uneventful, bounds, Claimant, At
  <2>2. Become(c, Read(Stored)) \/ Become(c, Judged(Assessed(c, Null)))
    BY <1>4 DEF ReadMonitor
  <2>3. CASE Become(c, Read(Stored))
    <3>1. Read(Stored) \in Provision /\ Read(Stored).step = "observe"
          /\ Read(Stored).state = assessCapacity(Read(Stored).balance, Read(Stored).previous)
      BY <1>1, <1>2
    <3> HIDE DEF Read
    <3> QED BY <1>1, <2>1, <2>3, <3>1, ElsewhereKeeps
  <2>4. CASE Become(c, Judged(Assessed(c, Null)))
    <3>1. Judged(Assessed(c, Null)) \in Provision
          /\ Judged(Assessed(c, Null)).step \in {"idle", "submit"}
      BY <1>2, <1>3
    <3> QED BY <1>1, <2>1, <2>4, <3>1, ElsewhereKeeps
  <2> QED BY <2>2, <2>3, <2>4
<1>5. CASE ReadMonitorFails(c)
  <2>1. /\ UNCHANGED <<row, told, excused, lost, balance, nextSequence, instant>>
        /\ ~ Claimant(c, Episode)
    BY <1>5 DEF ReadMonitorFails, ledger, record, Claimant, At
  <2>2. Become(c, Read(Null))
    BY <1>5 DEF ReadMonitorFails
  <2>3. Read(Null) \in Provision /\ Read(Null).step = "observe"
        /\ Read(Null).state = assessCapacity(Read(Null).balance, Read(Null).previous)
    BY <1>2
  <2> HIDE DEF Read
  <2> QED BY <1>1, <2>1, <2>2, <2>3, ElsewhereKeeps
<1>6. /\ j.step \in {"send", "release"} => j.episode \in DOMAIN told
      /\ Claimant(c, Episode) => j.step \in {"send", "release"} /\ j.episode = Episode
  BY DEF MonitorInv, MonitorTypeOK, Claimant
<1>7. CASE MonitorFails(c)
  <2>1. /\ UNCHANGED <<row, told, excused, balance, nextSequence, instant>>
        /\ lost' = IF j.step = "release" THEN lost \cup {j.episode} ELSE lost
        /\ j.step \in {"observe", "claim", "release"}
        /\ Become(c, Judged(j))
    BY <1>7 DEF MonitorFails, ledger
  <2>2. lost \subseteq lost' /\ lost' \subseteq DOMAIN told
        /\ (Claimant(c, Episode) => Episode \in lost')
    BY <1>1, <1>6, <2>1
  <2> QED BY <1>1, <1>3, <2>1, <2>2, ElsewhereKeeps
<1>8. CASE ProvisionStops(c)
  <2>1. /\ UNCHANGED <<row, told, excused, balance, nextSequence, instant>>
        /\ lost' = IF j.step \in {"send", "release"} THEN lost \cup {j.episode} ELSE lost
        /\ Become(c, NoCall)
    BY <1>8 DEF ProvisionStops, ledger
  <2>2. lost \subseteq lost' /\ lost' \subseteq DOMAIN told
        /\ (Claimant(c, Episode) => Episode \in lost')
    BY <1>1, <1>6, <2>1
  <2> QED BY <1>1, <1>3, <2>1, <2>2, ElsewhereKeeps
<1> QED BY <1>4, <1>5, <1>7, <1>8

\* Other calls are as they were.
LEMMA OneCallSteps ==
    ASSUME MonitorTypeOK, NEW c \in Provisions, NEW n \in Provision, Become(c, n)
    PROVE  /\ call' \in [Provisions -> Provision] /\ call'[c] = n
           /\ \A d \in Provisions : d # c => call'[d] = call[d]
BY DEF MonitorTypeOK, Become

\* Events still follow when the call that steps keeps what they follow from.
LEMMA EventsKept ==
    ASSUME MonitorInv, NEW c \in Provisions, NEW n \in Provision, Become(c, n),
           n.step \in MonitorSteps => n.state = assessCapacity(n.balance, n.previous),
           n.step \in {"claim", "send", "release"} =>
               n.event = alertEvent(n.replaced, n.state) /\ n.event # Null
    PROVE  EventsFollow'
<1>1. /\ call'[c] = n
      /\ \A d \in Provisions : d # c => call'[d] = call[d]
  BY OneCallSteps DEF MonitorInv
<1> SUFFICES ASSUME NEW d \in Provisions
             PROVE  /\ call'[d].step \in MonitorSteps =>
                           call'[d].state = assessCapacity(call'[d].balance, call'[d].previous)
                    /\ call'[d].step \in {"claim", "send", "release"} =>
                           /\ call'[d].event = alertEvent(call'[d].replaced, call'[d].state)
                           /\ call'[d].event # Null
  BY DEF EventsFollow, assessCapacity, alertEvent
<1>2. CASE d = c
  BY <1>1, <1>2
<1>3. CASE d # c
  BY <1>1, <1>3 DEF MonitorInv, EventsFollow
<1> QED BY <1>2, <1>3

\* Observing a state that was there keeps its episode and its claim; another
\* state begins an episode nobody has claimed.
LEMMA ObserveKeeps ==
    ASSUME MonitorInv, NEW c \in Provisions, Observe(c)
    PROVE  MonitorInv'
<1> DEFINE j == call[c]
           event == alertEvent(Stored, j.state)
           m == [j EXCEPT !.step = "claim", !.event = event, !.replaced = Stored]
           n == IF event = Null THEN Judged(j) ELSE m
<1>1. /\ j.step = "observe" /\ Become(c, n)
      /\ row' = [state |-> j.state, alerted |-> KeptAlert(j.state)]
      /\ told' = IF Stored = j.state THEN told ELSE Append(told, 0)
      /\ UNCHANGED <<balance, nextSequence, instant, excused, lost>>
  BY DEF Observe, At, ledger, Uneventful, bounds
<1>2. /\ j \in Provision /\ told \in Seq(Nat) /\ excused \subseteq DOMAIN told
      /\ lost \subseteq DOMAIN told /\ j.state \in States
      /\ row # Null => row \in MonitorRow /\ told # <<>>
      /\ row = Null => told = <<>>
      /\ Null \notin Nat \cup States /\ Null \notin MonitorRow
  BY CreatorAssumption DEF MonitorInv, MonitorTypeOK, Provision
<1>3. Stored \in States \cup {Null}
  BY <1>2 DEF Stored, MonitorRow
<1>4. event \in {"capacity_exhausted", "low_balance", "balance_recovered", Null}
  BY AssessmentType
<1>5. m \in Provision /\ m.step = "claim" /\ m.event = event /\ m.replaced = Stored
      /\ m.state = j.state /\ m.balance = j.balance /\ m.previous = j.previous
  <2> HIDE DEF event
  <2> QED BY <1>2, <1>3, <1>4 DEF Provision, ProvisionSteps, MonitorSteps
<1>6. n \in Provision /\ (n.step \in {"idle", "submit"} \/ (n = m /\ event # Null))
  <2>1. Judged(j) \in Provision /\ Judged(j).step \in {"idle", "submit"}
    BY <1>2, ProvisionType DEF ProvisionSteps
  <2> HIDE DEF event, m
  <2> QED BY <1>5, <2>1
<1>7. row' \in MonitorRow /\ row' # Null
  <2>1. KeptAlert(j.state) \in Nat \cup {Null}
    BY <1>2 DEF KeptAlert, Stored, MonitorRow
  <2> QED BY <1>1, <1>2, <2>1 DEF MonitorRow
<1> HIDE DEF event, m, n
<1>8. /\ call' \in [Provisions -> Provision] /\ call'[c] = n
      /\ \A d \in Provisions : d # c => call'[d] = call[d]
  BY <1>1, <1>6, OneCallSteps DEF MonitorInv
<1>9. \A d \in Provisions : call'[d].step \in {"send", "release"} =>
          d # c /\ call'[d] = call[d]
  BY <1>5, <1>6, <1>8
<1>10. \A d \in Provisions : \A e : Claimant(d, e)' =>
           d # c /\ call'[d] = call[d] /\ Claimant(d, e)
  BY <1>9 DEF Claimant
<1>11. /\ told' \in Seq(Nat) /\ told' # <<>> /\ DOMAIN told \subseteq DOMAIN told'
       /\ Stored = j.state => told' = told /\ row # Null
       /\ Stored # j.state => /\ told' = Append(told, 0)
                              /\ Len(told') = Len(told) + 1
                              /\ DOMAIN told' = DOMAIN told \cup {Len(told) + 1}
                              /\ told'[Len(told) + 1] = 0
                              /\ \A e \in DOMAIN told : told'[e] = told[e]
  <2>1. CASE Stored = j.state
    BY <1>1, <1>2, <2>1 DEF Stored
  <2>2. CASE Stored # j.state
    <3>1. told' = Append(told, 0)
      BY <1>1, <2>2
    <3> QED BY <1>2, <2>2, <3>1
  <2> QED BY <2>1, <2>2
<1>12. MonitorTypeOK'
  <2>1. balance' \in Nat /\ nextSequence' \in Nat /\ instant' \in Nat
    BY <1>1 DEF MonitorInv, MonitorTypeOK
  <2>2. excused' \subseteq DOMAIN told' /\ lost' \subseteq DOMAIN told'
    BY <1>1, <1>2, <1>11
  <2>3. \A d \in Provisions : call'[d].step \in {"send", "release"} =>
            call'[d].episode \in DOMAIN told'
    BY <1>9, <1>11 DEF MonitorInv, MonitorTypeOK
  <2> QED BY <1>7, <1>8, <1>11, <2>1, <2>2, <2>3 DEF MonitorTypeOK
<1>13. EpisodesAreSettledOnce' /\ ClaimsAreHeld'
  <2>1. CASE Stored = j.state
    <3>1. row # Null /\ told' = told /\ row'.state = row.state /\ row'.alerted = row.alerted
      BY <1>1, <1>11, <2>1 DEF Stored, KeptAlert
    <3>2. Episode' = Episode
      BY <3>1 DEF Episode
    <3>3. \A d \in Provisions : \A e : Claimant(d, e) =>
              Claimant(d, e)' /\ call'[d] = call[d]
      BY <1>1, <1>8 DEF Claimant
    <3>4. \A d \in Provisions : call'[d] = call[d] => (ShowsClaim(d)' <=> ShowsClaim(d))
      BY <3>1 DEF ShowsClaim
    <3>5. EpisodesAreSettledOnce'
      <4> SUFFICES ASSUME NEW e \in DOMAIN told, e \notin excused
                   PROVE  SettledOnce(e)'
        BY <1>1, <3>1 DEF EpisodesAreSettledOnce
      <4>1. SettledOnce(e)
        BY DEF MonitorInv, EpisodesAreSettledOnce
      <4> QED BY <1>10, <3>1, <3>2, <3>4, <4>1 DEF SettledOnce
    <3>6. ClaimsAreHeld'
      BY <1>1, <3>1, <3>2, <3>3, <3>4 DEF MonitorInv, ClaimsAreHeld
    <3> QED BY <3>5, <3>6
  <2>2. CASE Stored # j.state
    <3>1. row'.alerted = Null
      BY <1>1, <2>2 DEF KeptAlert
    <3>2. ClaimsAreHeld'
      BY <3>1 DEF ClaimsAreHeld
    <3>3. Episode' = Len(told) + 1 /\ Len(told) + 1 \notin DOMAIN told
      BY <1>2, <1>11, <2>2 DEF Episode
    <3>4. \A d \in Provisions : \A e : e = Len(told) + 1 => ~ Claimant(d, e)'
      <4>1. \A d \in Provisions : \A e : Claimant(d, e) => e \in DOMAIN told
        BY DEF MonitorInv, MonitorTypeOK, Claimant
      <4> QED BY <1>10, <3>3, <4>1
    <3>5. EpisodesAreSettledOnce'
      <4> SUFFICES ASSUME NEW e \in DOMAIN told', e \notin excused
                   PROVE  SettledOnce(e)'
        BY <1>1 DEF EpisodesAreSettledOnce
      <4>1. CASE e = Len(told) + 1
        <5>1. told'[e] = 0
          BY <1>11, <2>2, <4>1
        <5>2. \A d \in Provisions : ~ Claimant(d, e)'
          BY <3>4, <4>1
        <5> QED BY <5>1, <5>2 DEF SettledOnce
      <4>2. CASE e \in DOMAIN told
        <5>1. SettledOnce(e)
          BY <4>2 DEF MonitorInv, EpisodesAreSettledOnce
        <5> QED BY <1>10, <1>11, <2>2, <3>3, <4>2, <5>1 DEF SettledOnce
      <4> QED BY <1>11, <2>2, <4>1, <4>2
    <3> QED BY <3>2, <3>5
  <2> QED BY <2>1, <2>2
<1>14. EventsFollow'
  <2>1. j.state = assessCapacity(j.balance, j.previous)
    BY <1>1 DEF MonitorInv, EventsFollow, MonitorSteps
  <2>2. n.step \in MonitorSteps => n = m /\ event # Null
    BY <1>6 DEF MonitorSteps
  <2>3. event = alertEvent(Stored, j.state)
    BY DEF event
  <2>4. /\ n.step \in MonitorSteps => n.state = assessCapacity(n.balance, n.previous)
        /\ n.step \in {"claim", "send", "release"} =>
               n.event = alertEvent(n.replaced, n.state) /\ n.event # Null
    <3>1. {"claim", "send", "release"} \subseteq MonitorSteps
      BY DEF MonitorSteps
    <3> QED BY <1>5, <2>1, <2>2, <2>3, <3>1
  <2> QED BY <1>1, <1>6, <2>4, EventsKept
<1> QED BY <1>12, <1>13, <1>14 DEF MonitorInv

\* A claim is taken of a row that shows none, by a call that then sends.
LEMMA ClaimKeeps ==
    ASSUME MonitorInv, NEW c \in Provisions, ClaimAlert(c)
    PROVE  MonitorInv'
<1> DEFINE j == call[c]
           n == [j EXCEPT !.step = "send", !.episode = Episode]
<1>1. /\ j \in Provision /\ j.step = "claim" /\ told \in Seq(Nat)
      /\ excused \subseteq DOMAIN told /\ lost \subseteq DOMAIN told
      /\ row \in MonitorRow /\ row # Null /\ told # <<>>
      /\ balance \in Nat /\ nextSequence \in Nat /\ instant \in Nat
      /\ Null \notin Nat
  BY CreatorAssumption DEF MonitorInv, MonitorTypeOK, ClaimAlert, At
<1>2. UNCHANGED <<told, excused, lost, balance, nextSequence, instant>>
  BY DEF ClaimAlert, ledger, record, Uneventful, bounds
<1>3. CASE ~ (row.state = j.state /\ row.alerted = Null)
  <2>1. Become(c, Judged(j)) /\ UNCHANGED row
    BY <1>3 DEF ClaimAlert
  <2>2. Judged(j) \in Provision /\ Judged(j).step \in {"idle", "submit"}
    BY <1>1, ProvisionType DEF ProvisionSteps
  <2>3. ~ Claimant(c, Episode)
    BY <1>1 DEF Claimant
  <2> QED BY <1>1, <1>2, <2>1, <2>2, <2>3, ElsewhereKeeps
<1>4. CASE row.state = j.state /\ row.alerted = Null
  <2>1. Become(c, n) /\ row' = [row EXCEPT !.alerted = j.now]
    BY <1>4 DEF ClaimAlert
  <2>2. Episode \in DOMAIN told /\ Episode \in Nat /\ Episode' = Episode
    BY <1>1, <1>2 DEF Episode
  <2>3. /\ n \in Provision /\ n.step = "send" /\ n.episode = Episode /\ n.now = j.now
        /\ n.state = j.state /\ n.balance = j.balance /\ n.previous = j.previous
        /\ n.event = j.event /\ n.replaced = j.replaced /\ n.now \in Nat
    BY <1>1, <2>2 DEF Provision, ProvisionSteps, MonitorSteps
  <2>4. /\ row' \in MonitorRow /\ row'.state = j.state /\ row'.alerted = j.now
        /\ row'.alerted # Null
    BY <1>1, <1>4, <2>1, <2>3 DEF MonitorRow
  <2>5. row' # Null
    BY <2>4, CreatorAssumption
  <2> HIDE DEF n
  <2>6. /\ call' \in [Provisions -> Provision] /\ call'[c] = n
        /\ \A d \in Provisions : d # c => call'[d] = call[d]
    BY <2>1, <2>3, OneCallSteps DEF MonitorInv
  <2>7. MonitorTypeOK'
    BY <1>1, <1>2, <2>2, <2>3, <2>4, <2>5, <2>6 DEF MonitorInv, MonitorTypeOK
  <2>8. /\ Claimant(c, Episode)' /\ ShowsClaim(c)'
        /\ \A e : Claimant(c, e)' => e = Episode
        /\ \A d \in Provisions : \A e : d # c => (Claimant(d, e)' <=> Claimant(d, e))
    BY <2>2, <2>3, <2>4, <2>6 DEF Claimant, ShowsClaim
  <2>9. EpisodesAreSettledOnce'
    <3> SUFFICES ASSUME NEW e \in DOMAIN told, e \notin excused
                 PROVE  SettledOnce(e)'
      BY <1>2 DEF EpisodesAreSettledOnce
    <3>1. SettledOnce(e) /\ told[e] \in Nat
      BY <1>1 DEF MonitorInv, EpisodesAreSettledOnce
    <3>2. ~ Claimant(c, e)
      BY <1>1 DEF Claimant
    <3>3. CASE e = Episode
      <4>1. \A d \in Provisions : ~ Claimant(d, e)
        <5>1. \A d \in Provisions : call[d].now \in Nat
          BY DEF MonitorInv, MonitorTypeOK, Provision
        <5> QED BY <1>1, <1>4, <3>1, <3>3, <5>1 DEF SettledOnce, ShowsClaim
      <4>2. told'[e] = 0
        BY <1>2, <1>4, <3>1, <3>3 DEF SettledOnce
      <4>3. \A d \in Provisions : Claimant(d, e)' => d = c
        BY <2>8, <4>1
      <4> QED BY <2>3, <2>6, <2>8, <4>2, <4>3 DEF SettledOnce
    <3>4. CASE e # Episode
      <4>1. \A d \in Provisions : Claimant(d, e)' =>
                d # c /\ Claimant(d, e) /\ call'[d] = call[d]
        BY <2>6, <2>8, <3>4
      <4> QED BY <1>2, <2>2, <3>1, <3>4, <4>1 DEF SettledOnce
    <3> QED BY <3>3, <3>4
  <2>10. ClaimsAreHeld'
    BY <2>2, <2>8 DEF ClaimsAreHeld
  <2>11. EventsFollow'
    <3>1. /\ j.state = assessCapacity(j.balance, j.previous)
          /\ j.event = alertEvent(j.replaced, j.state) /\ j.event # Null
      BY <1>1 DEF MonitorInv, EventsFollow, MonitorSteps
    <3> QED BY <2>1, <2>3, <3>1, EventsKept
  <2> QED BY <2>7, <2>9, <2>10, <2>11 DEF MonitorInv
<1> QED BY <1>3, <1>4

\* The call that sends is the only one that may announce the episode.
LEMMA SendKeeps ==
    ASSUME MonitorInv, NEW c \in Provisions,
           SendAlert(c) \/ SendAlertFails(c)
    PROVE  MonitorInv'
<1> DEFINE j == call[c]
           f(a) == [j EXCEPT !.step = "release", !.arrived = a]
<1>1. /\ j \in Provision /\ j.step = "send" /\ told \in Seq(Nat)
      /\ excused \subseteq DOMAIN told /\ lost \subseteq DOMAIN told
      /\ j.episode \in DOMAIN told /\ row # Null /\ row \in MonitorRow
      /\ balance \in Nat /\ nextSequence \in Nat /\ instant \in Nat
      /\ Null \notin Nat /\ j.now \in Nat
  BY CreatorAssumption DEF MonitorInv, MonitorTypeOK, SendAlert, SendAlertFails, At, Provision
<1>2. UNCHANGED <<row, excused, lost, balance, nextSequence, instant>>
  BY DEF SendAlert, SendAlertFails, ledger, Uneventful, bounds
<1>3. Judged(j) \in Provision /\ Judged(j).step \in {"idle", "submit"}
  BY <1>1, ProvisionType DEF ProvisionSteps
<1>4. \A a \in BOOLEAN :
          /\ f(a) \in Provision /\ f(a).step = "release" /\ f(a).arrived = a
          /\ f(a).episode = j.episode /\ f(a).now = j.now /\ f(a).state = j.state
          /\ f(a).balance = j.balance /\ f(a).previous = j.previous
          /\ f(a).event = j.event /\ f(a).replaced = j.replaced
  BY <1>1 DEF Provision, ProvisionSteps, MonitorSteps
<1>5. PICK n \in Provision :
          /\ Become(c, n)
          /\ \/ n.step \in {"idle", "submit"} /\ Arrives(c)
             \/ /\ n.step = "release" /\ n.episode = j.episode /\ n.now = j.now
                /\ n.state = j.state /\ n.balance = j.balance
                /\ n.previous = j.previous /\ n.event = j.event
                /\ n.replaced = j.replaced /\ n.arrived \in BOOLEAN
                /\ IF n.arrived THEN Arrives(c) ELSE UNCHANGED told
  <2>1. CASE SendAlert(c)
    BY <1>3, <2>1 DEF SendAlert
  <2>2. CASE SendAlertFails(c)
    <3>1. PICK a \in BOOLEAN : /\ IF a THEN Arrives(c) ELSE UNCHANGED told
                               /\ Become(c, f(a))
      BY <2>2 DEF SendAlertFails
    <3> HIDE DEF f
    <3> QED BY <1>4, <3>1
  <2> QED BY <2>1, <2>2
<1>6. /\ call' \in [Provisions -> Provision] /\ call'[c] = n
      /\ \A d \in Provisions : d # c => call'[d] = call[d]
  BY <1>5, OneCallSteps DEF MonitorInv
<1>7. /\ told' \in Seq(Nat) /\ DOMAIN told' = DOMAIN told /\ Len(told') = Len(told)
      /\ told' # <<>> /\ \A e \in DOMAIN told : told[e] \in Nat
      /\ \A e \in DOMAIN told : e # j.episode => told'[e] = told[e]
      /\ Arrives(c) => told'[j.episode] = told[j.episode] + 1
      /\ n.step = "release" /\ ~ n.arrived => told' = told
  <2>1. CASE Arrives(c)
    BY <1>1, <1>5, <2>1 DEF Arrives
  <2>2. CASE ~ Arrives(c)
    BY <1>1, <1>5, <2>2
  <2> QED BY <1>5, <2>1, <2>2
<1>8. Episode' = Episode /\ Episode \in DOMAIN told
  BY <1>1, <1>7 DEF Episode
<1>9. MonitorTypeOK'
  BY <1>1, <1>2, <1>5, <1>6, <1>7 DEF MonitorInv, MonitorTypeOK
<1>10. /\ Claimant(c, j.episode)
       /\ \A e : Claimant(c, e)' => e = j.episode /\ n.step = "release"
       /\ \A d \in Provisions : \A e : d # c => (Claimant(d, e)' <=> Claimant(d, e))
       /\ \A d \in Provisions : \A e : Claimant(d, e)' => Claimant(d, e)
       /\ \A d \in Provisions : \A e : Claimant(d, e)' => (ShowsClaim(d) <=> ShowsClaim(d)')
  BY <1>1, <1>2, <1>5, <1>6 DEF Claimant, ShowsClaim
<1>11. EpisodesAreSettledOnce'
  <2> SUFFICES ASSUME NEW e \in DOMAIN told, e \notin excused
               PROVE  SettledOnce(e)'
    BY <1>2, <1>7 DEF EpisodesAreSettledOnce
  <2>1. SettledOnce(e)
    BY DEF MonitorInv, EpisodesAreSettledOnce
  <2>2. CASE e = j.episode
    <3>1. \A d \in Provisions : Claimant(d, e) => d = c
      BY <1>10, <2>1, <2>2 DEF SettledOnce
    <3>2. told[e] = 0
      BY <1>1, <1>10, <2>1, <2>2 DEF SettledOnce
    <3>3. told'[e] = IF Arrives(c) THEN 1 ELSE 0
      BY <1>5, <1>7, <2>2, <3>2
    <3>4. e = Episode => ShowsClaim(c)
      BY <1>10, <2>1, <2>2 DEF SettledOnce
    <3>5. told'[e] <= 1
      BY <3>3
    <3>6. \A d \in Provisions : Claimant(d, e)' =>
              /\ d = c /\ n.step = "release"
              /\ told'[e] = IF n.arrived THEN 1 ELSE 0
      BY <1>5, <1>7, <1>10, <2>2, <3>1, <3>2
    <3>7. e = Episode => row.alerted # Null
      BY <1>1, <3>4 DEF ShowsClaim
    <3> QED BY <1>2, <1>6, <1>8, <1>10, <3>4, <3>5, <3>6, <3>7 DEF SettledOnce
  <2>3. CASE e # j.episode
    <3>1. told'[e] = told[e]
      BY <1>7, <2>3
    <3>2. \A d \in Provisions : Claimant(d, e)' =>
              /\ d # c /\ Claimant(d, e) /\ call'[d] = call[d]
              /\ ShowsClaim(d) <=> ShowsClaim(d)'
      BY <1>6, <1>10, <2>3
    <3> QED BY <1>2, <1>8, <2>1, <3>1, <3>2 DEF SettledOnce
  <2> QED BY <2>2, <2>3
<1>12. ClaimsAreHeld'
  <2> SUFFICES ASSUME row # Null, row.alerted # Null
               PROVE  \/ told'[Episode] > 0 \/ Episode \in lost
                      \/ \E d \in Provisions : Claimant(d, Episode)' /\ ShowsClaim(d)'
    BY <1>2, <1>8 DEF ClaimsAreHeld
  <2>1. told'[Episode] >= told[Episode]
    BY <1>5, <1>7, <1>8
  <2>2. CASE told[Episode] > 0
    BY <1>7, <1>8, <2>1, <2>2
  <2>3. CASE \E d \in Provisions : Claimant(d, Episode) /\ ShowsClaim(d)
    <3>1. PICK d \in Provisions : Claimant(d, Episode) /\ ShowsClaim(d)
      BY <2>3
    <3>2. CASE d # c
      <4>1. call'[d] = call[d]
        BY <1>6, <3>2
      <4> QED BY <1>2, <1>8, <3>1, <4>1 DEF Claimant, ShowsClaim
    <3>3. CASE d = c
      <4>1. j.episode = Episode
        BY <3>1, <3>3 DEF Claimant
      <4>2. CASE Arrives(c)
        BY <1>7, <1>8, <4>1, <4>2
      <4>3. CASE ~ Arrives(c)
        <5>1. Claimant(c, Episode)'
          BY <1>5, <1>6, <1>8, <4>1, <4>3 DEF Claimant
        <5> QED BY <1>10, <3>1, <3>3, <5>1
      <4> QED BY <4>2, <4>3
    <3> QED BY <3>2, <3>3
  <2> QED BY <2>2, <2>3 DEF MonitorInv, ClaimsAreHeld
<1>13. EventsFollow'
  <2>1. /\ j.state = assessCapacity(j.balance, j.previous)
        /\ j.event = alertEvent(j.replaced, j.state) /\ j.event # Null
    BY <1>1 DEF MonitorInv, EventsFollow, MonitorSteps
  <2>2. /\ n.step \in MonitorSteps => n.state = assessCapacity(n.balance, n.previous)
        /\ n.step \in {"claim", "send", "release"} =>
               n.event = alertEvent(n.replaced, n.state) /\ n.event # Null
    BY <1>5, <2>1 DEF MonitorSteps
  <2> QED BY <1>5, <2>2, EventsKept
<1> QED BY <1>9, <1>11, <1>12, <1>13 DEF MonitorInv

\* A release clears the claim of its own episode before anything was
\* announced, or the episode is excused.
LEMMA ReleaseKeeps ==
    ASSUME MonitorInv, NEW c \in Provisions, ReleaseAlert(c)
    PROVE  MonitorInv'
<1> DEFINE j == call[c]
           n == Judged(j)
<1>1. /\ j \in Provision /\ j.step = "release" /\ told \in Seq(Nat) /\ told # <<>>
      /\ excused \subseteq DOMAIN told /\ lost \subseteq DOMAIN told
      /\ j.episode \in DOMAIN told /\ row # Null /\ row \in MonitorRow
      /\ balance \in Nat /\ nextSequence \in Nat /\ instant \in Nat
  BY DEF MonitorInv, MonitorTypeOK, ReleaseAlert, At
<1>2. UNCHANGED <<told, lost, balance, nextSequence, instant>> /\ Become(c, n)
  BY DEF ReleaseAlert, ledger, Uneventful, bounds
<1>3. n \in Provision /\ n.step \in {"idle", "submit"}
  BY <1>1, ProvisionType DEF ProvisionSteps
<1>4. CASE ~ (row.state = j.state /\ row.alerted = j.now)
  <2>1. UNCHANGED <<row, excused>> /\ ~ ShowsClaim(c)
    BY <1>4 DEF ReleaseAlert, ShowsClaim
  <2> HIDE DEF n
  <2> QED BY <1>1, <1>2, <1>3, <2>1, ElsewhereKeeps
<1>5. CASE row.state = j.state /\ row.alerted = j.now
  <2>1. /\ row' = [row EXCEPT !.alerted = Null]
        /\ excused' = IF j.arrived \/ j.episode # Episode THEN excused \cup {Episode}
                      ELSE excused
    BY <1>5 DEF ReleaseAlert
  <2>2. row' \in MonitorRow /\ row'.alerted = Null /\ Episode \in DOMAIN told
        /\ Episode' = Episode
    BY <1>1, <1>2, <2>1 DEF MonitorRow, Episode
  <2> HIDE DEF n
  <2>3. /\ call' \in [Provisions -> Provision] /\ call'[c] = n
        /\ \A d \in Provisions : d # c => call'[d] = call[d]
    BY <1>2, <1>3, OneCallSteps DEF MonitorInv
  <2>4. row' # Null
    BY <2>2, CreatorAssumption
  <2>5. MonitorTypeOK'
    BY <1>1, <1>2, <1>3, <2>1, <2>2, <2>3, <2>4 DEF MonitorInv, MonitorTypeOK
  <2>6. \A d \in Provisions : \A e : Claimant(d, e)' =>
            d # c /\ call'[d] = call[d] /\ Claimant(d, e)
    BY <1>3, <2>3 DEF Claimant
  <2>7. EpisodesAreSettledOnce'
    <3> SUFFICES ASSUME NEW e \in DOMAIN told, e \notin excused'
                 PROVE  SettledOnce(e)'
      BY <1>2 DEF EpisodesAreSettledOnce
    <3>1. SettledOnce(e)
      BY <2>1 DEF MonitorInv, EpisodesAreSettledOnce
    <3>2. CASE e = Episode
      <4>1. Claimant(c, e) /\ ~ j.arrived
        BY <1>1, <2>1, <3>2 DEF Claimant
      <4>2. told[e] = 0 /\ \A d \in Provisions : Claimant(d, e) => d = c
        BY <3>1, <4>1 DEF SettledOnce
      <4>3. \A d \in Provisions : ~ Claimant(d, e)'
        BY <2>6, <4>2
      <4>4. told'[e] = 0
        BY <1>2, <4>2
      <4> QED BY <4>3, <4>4 DEF SettledOnce
    <3>3. CASE e # Episode
      BY <1>2, <2>2, <2>6, <3>1, <3>3 DEF SettledOnce
    <3> QED BY <3>2, <3>3
  <2>8. ClaimsAreHeld'
    BY <2>2 DEF ClaimsAreHeld
  <2>9. EventsFollow'
    <3>1. n.step \notin MonitorSteps /\ n.step \notin {"claim", "send", "release"}
      BY <1>3 DEF MonitorSteps
    <3> QED BY <1>2, <1>3, <3>1, EventsKept
  <2> QED BY <2>5, <2>7, <2>8, <2>9 DEF MonitorInv
<1> QED BY <1>4, <1>5

\* What happens around the calls.
LEMMA AroundCallsKeeps ==
    ASSUME MonitorInv,
           (\E tx \in pending : Land(tx) \/ Lapse(tx)) \/ Deposit \/ UNCHANGED creatorVars
    PROVE  MonitorInv'
<1>1. UNCHANGED <<row, call, told, excused, lost, instant>>
  BY DEF Land, Lapse, Deposit, creatorVars, record, bounds, Uneventful
<1>2. balance \in Nat /\ nextSequence \in Nat /\ Cost \in Nat /\ Amounts \subseteq Nat
  BY CreatorAssumption DEF MonitorInv, MonitorTypeOK
<1>3. balance' \in Nat /\ nextSequence' \in Nat
  <2>1. CASE \E tx \in pending : Land(tx)
    BY <1>2, <2>1 DEF Land, Applied
  <2>2. CASE \E tx \in pending : Lapse(tx)
    BY <1>2, <2>2 DEF Lapse
  <2>3. CASE Deposit
    BY <1>2, <2>3 DEF Deposit
  <2>4. CASE UNCHANGED creatorVars
    BY <1>2, <2>4 DEF creatorVars, ledger
  <2> QED BY <2>1, <2>2, <2>3, <2>4
<1>4. MonitorTypeOK'
  BY <1>1, <1>3 DEF MonitorInv, MonitorTypeOK
<1>5. EpisodesAreSettledOnce'
  BY <1>1 DEF MonitorInv, EpisodesAreSettledOnce, SettledOnce, Claimant, ShowsClaim, Episode
<1>6. ClaimsAreHeld'
  BY <1>1 DEF MonitorInv, ClaimsAreHeld, Claimant, ShowsClaim, Episode
<1>7. EventsFollow'
  <2> SUFFICES ASSUME NEW d \in Provisions
               PROVE  /\ call[d].step \in MonitorSteps =>
                             call[d].state = assessCapacity(call[d].balance, call[d].previous)
                      /\ call[d].step \in {"claim", "send", "release"} =>
                             /\ call[d].event = alertEvent(call[d].replaced, call[d].state)
                             /\ call[d].event # Null
    BY <1>1 DEF EventsFollow, assessCapacity, alertEvent
  <2> QED BY DEF MonitorInv, EventsFollow
<1> QED BY <1>4, <1>5, <1>6, <1>7 DEF MonitorInv

-----------------------------------------------------------------------------
(* The alerts are accounted for.                                           *)

\* What the invariant says of the alerts, for a reader of them.
LEMMA InvariantAccounts ==
    ASSUME MonitorInv
    PROVE  AlertsAreAccounted
<1>1. RepeatsHaveACause
  <2> SUFFICES ASSUME NEW e \in DOMAIN told, told[e] > 1, e \notin excused
               PROVE  FALSE
    BY DEF RepeatsHaveACause
  <2>1. told[e] <= 1 /\ told[e] \in Nat
    BY DEF MonitorInv, MonitorTypeOK, EpisodesAreSettledOnce, SettledOnce
  <2> QED BY <2>1
<1>2. ClaimsAreKept
  BY DEF MonitorInv, ClaimsAreHeld, ClaimsAreKept, Claimant
<1>3. RecoveryIsSeen
  <2> SUFFICES ASSUME NEW c \in Provisions, call[c].step \in {"claim", "send"},
                      call[c].event = "balance_recovered", call[c].balance < Recovery,
                      call[c].previous = call[c].replaced
               PROVE  FALSE
    BY DEF RecoveryIsSeen
  <2>1. /\ call[c].state = assessCapacity(call[c].balance, call[c].previous)
        /\ call[c].event = alertEvent(call[c].previous, call[c].state)
        /\ call[c].event # Null /\ call[c] \in Provision
    BY DEF MonitorInv, MonitorTypeOK, EventsFollow, MonitorSteps
  <2>2. call[c].state \in States
    BY <2>1 DEF Provision
  <2>3. call[c].state = "ready" /\ call[c].previous \in {"low", "insufficient"}
    <3>1. CASE call[c].state = "insufficient"
      BY <2>1, <3>1 DEF alertEvent
    <3>2. CASE call[c].state = "low"
      BY <2>1, <3>2 DEF alertEvent
    <3>3. CASE call[c].state = "ready"
      BY <2>1, <3>3 DEF alertEvent
    <3> QED BY <2>2, <3>1, <3>2, <3>3 DEF States
  <2>4. call[c].balance \in Nat /\ Cost \in Nat /\ Recovery \in Nat
    BY <2>1, CreatorAssumption DEF Provision
  <2>5. assessCapacity(call[c].balance, call[c].previous) \in {"low", "insufficient"}
    <3>1. CASE call[c].balance < Cost
      BY <3>1 DEF assessCapacity
    <3>2. CASE ~ (call[c].balance < Cost)
      BY <2>3, <2>4, <3>2 DEF assessCapacity
    <3> QED BY <3>1, <3>2
  <2> QED BY <2>1, <2>3, <2>5
<1> QED BY <1>1, <1>2, <1>3 DEF AlertsAreAccounted

\* The creator's monitor, for any provisioning calls, thresholds, balances and
\* mishaps: no episode of a state is announced twice unless a send that
\* arrived was taken for a failure or an earlier claim of the same instant
\* was given back late, no claim is forgotten by a call that goes on, and no
\* recovery below the recovery threshold is announced by a call that read
\* what it replaced.
THEOREM AlertsStayAccounted == CreatorSpec => []AlertsAreAccounted
<1>1. CreatorInit => MonitorInv
  BY MonitorStarts
<1>2. MonitorInv /\ [CreatorNext]_creatorVars => MonitorInv'
  <2> SUFFICES ASSUME MonitorInv, [CreatorNext]_creatorVars
               PROVE  MonitorInv'
    OBVIOUS
  <2>1. CASE \E c \in Provisions : \E a \in Accounts, monitored \in BOOLEAN :
                Start(c, a, monitored)
    BY <2>1, ProvisioningKeeps
  <2>2. CASE \E c \in Provisions :
                \/ CheckAccount(c) \/ LoadCreator(c) \/ SubmitCreation(c)
                \/ SubmitUnanswered(c) \/ Verify(c)
    BY <2>2, ProvisioningKeeps
  <2>3. CASE \E c \in Provisions :
                ReadMonitor(c) \/ ReadMonitorFails(c) \/ MonitorFails(c) \/ ProvisionStops(c)
    BY <2>3, ReadsAndFailuresKeep
  <2>4. CASE \E c \in Provisions : Observe(c)
    BY <2>4, ObserveKeeps
  <2>5. CASE \E c \in Provisions : ClaimAlert(c)
    BY <2>5, ClaimKeeps
  <2>6. CASE \E c \in Provisions : SendAlert(c) \/ SendAlertFails(c)
    BY <2>6, SendKeeps
  <2>7. CASE \E c \in Provisions : ReleaseAlert(c)
    BY <2>7, ReleaseKeeps
  <2>8. CASE (\E tx \in pending : Land(tx) \/ Lapse(tx)) \/ Deposit \/ UNCHANGED creatorVars
    BY <2>8, AroundCallsKeeps
  <2> QED BY <2>1, <2>2, <2>3, <2>4, <2>5, <2>6, <2>7, <2>8 DEF CreatorNext
<1>3. MonitorInv => AlertsAreAccounted
  BY InvariantAccounts
<1> QED BY <1>1, <1>2, <1>3, PTL DEF CreatorSpec
=============================================================================
