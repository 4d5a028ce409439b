---------------------------- MODULE Registry_proofs ----------------------------
(***************************************************************************)
(* Theorems about the registry of devices, for any number of phones, of    *)
(* ports and of overlapping refreshes: how often Image Capture is stopped, *)
(* generations, and that a phone is not registered twice.                  *)
(***************************************************************************)
EXTENDS Registry, TLAPS

-----------------------------------------------------------------------------
(* Types.                                                                  *)

JobType == [pc : PC, candidates : SUBSET Candidate, unseen : SUBSET Session,
            candidate : Candidate \cup {NoCandidate}, again : BOOLEAN,
            session : Session \cup {NoSession}, error : BOOLEAN]

Opened(j) == job[j].pc = "storages"

\* A refresh that opens a phone knows which, and has its session once it answered.
Typed ==
  /\ port \in [Phone -> Location \cup {None}] /\ attachment \in [Phone -> Nat]
  /\ devices \subseteq Session
  /\ next_generation \in Nat
  /\ registered \subseteq [phone : Phone, attachment : Nat, generation : Nat]
  /\ job \in [Job -> JobType]
  /\ \A j \in Job : /\ job[j].pc \in {"opening", "storages"} => job[j].candidate \in Candidate
                    /\ Opened(j) => job[j].session \in Session

LEMMA IdleType == IdleJob \in JobType /\ IdleJob.pc = "idle"
  BY DEF IdleJob, JobType, PC

LEMMA InitTyped == Init => Typed
  BY IdleType DEF Init, Typed, Opened

LEMMA KeyType == ASSUME NEW c \in Candidate PROVE DeviceKey(c) \in Key
  BY DEF Candidate, DeviceKey, Key

LEMMA ListingType ==
  ASSUME Typed, NEW list \in Listings PROVE Unique(list) \subseteq Candidate
  BY ModelAssumption DEF Typed, Listings, Unique, Candidate, Plugged

\* Ending with a candidate, or with a reclaim, leaves a job that has its type, and no
\* session that was not there.
LEMMA DropType ==
  ASSUME Typed, NEW j \in Job, NEW failed \in BOOLEAN, Drop(j, failed)
  PROVE  /\ job' \in [Job -> JobType] /\ job'[j].pc = "open"
         /\ \A i \in Job \ {j} : job'[i] = job[i]
<1> DEFINE r == [job[j] EXCEPT !.pc = "open", !.candidates = @ \ {job[j].candidate},
                              !.candidate = NoCandidate, !.again = FALSE,
                              !.session = NoSession, !.error = @ \/ failed]
<1>1. job' = [job EXCEPT ![j] = r]
  BY DEF Drop
<1>2. job[j] \in JobType
  BY DEF Typed
<1>3. (job[j].error \/ failed) \in BOOLEAN
  OBVIOUS
<1>4. r \in JobType /\ r.pc = "open"
  BY <1>2, <1>3 DEF JobType, PC
<1> HIDE DEF r
<1> QED BY <1>1, <1>4 DEF Typed

LEMMA ReclaimedType ==
  ASSUME Typed, NEW j \in Job, NEW done \in BOOLEAN, Reclaimed(j, done)
  PROVE  /\ job' \in [Job -> JobType] /\ job'[j].pc \in {"open", "opening"}
         /\ job'[j].pc = "opening" => job'[j].candidate \in Candidate
         /\ \A i \in Job \ {j} : job'[i] = job[i]
<1>1. CASE job[j].candidate = NoCandidate
  BY <1>1 DEF Typed, Reclaimed, To, JobType, PC
<1>2. CASE job[j].candidate # NoCandidate /\ done
  BY <1>2 DEF Typed, Reclaimed, JobType, PC
<1>3. CASE job[j].candidate # NoCandidate /\ ~done
  BY <1>3, DropType DEF Reclaimed
<1> QED BY <1>1, <1>2, <1>3

-----------------------------------------------------------------------------
(* The steps that neither open nor register a session.                     *)

\* Such a step leaves the sessions what they were, or fewer, and what is not alive
\* does not come back.
Calm ==
  /\ devices' \subseteq devices
  /\ UNCHANGED <<registered, next_generation>>
  /\ \A i \in Job : Opened(i)' => Opened(i) /\ job'[i].session = job[i].session
  /\ \/ UNCHANGED <<port, attachment>>
     \/ \E p \in Phone : PlugIn(p) \/ Unplug(p)

Calmly(j) == \/ ListConnected(j) \/ ProbeAnswers(j) \/ ProbeFails(j) \/ ProbesDone(j)
             \/ CoolingDown(j) \/ Reclaim(j) \/ NothingToKill(j) \/ KillFails(j) \/ Kill(j)
             \/ GraceEnds(j) \/ Pick(j) \/ OpenRefused(j) \/ OpenFails(j)
             \/ StoragesFail(j) \/ Finish(j) \/ Scan(j) \/ ScanFails(j)

LEMMA JobSteps ==
  ASSUME Typed, NEW j \in Job, Calmly(j)
  PROVE  Typed' /\ Calm
<1> USE DEF world, bounds
<1> DEFINE Rest == /\ UNCHANGED <<port, attachment, registered, next_generation>>
                   /\ devices' \subseteq devices
           Goes == /\ job' \in [Job -> JobType] /\ job'[j].pc # "storages"
                   /\ job'[j].pc = "opening" => job'[j].candidate \in Candidate
                   /\ \A i \in Job \ {j} : job'[i] = job[i]
<1>0. ASSUME Rest, Goes PROVE Typed' /\ Calm
  <2>1. \A i \in Job : Opened(i)' => i # j /\ job'[i] = job[i]
    BY <1>0 DEF Opened
  <2>2. Calm
    BY <1>0, <2>1 DEF Calm, Opened
  <2>3. \A i \in Job : /\ job'[i].pc \in {"opening", "storages"} => job'[i].candidate \in Candidate
                       /\ Opened(i)' => job'[i].session \in Session
    BY <1>0, <2>1 DEF Typed, Opened
  <2> QED BY <1>0, <2>2, <2>3 DEF Typed
<1>1. ASSUME Scan(j) PROVE Rest /\ Goes
  <2>1. PICK list \in Listings :
          job' = [job EXCEPT ![j] = [IdleJob EXCEPT !.pc = "connected", !.candidates = Unique(list)]]
    BY <1>1 DEF Scan
  <2> DEFINE r == [IdleJob EXCEPT !.pc = "connected", !.candidates = Unique(list)]
  <2>2. Unique(list) \in SUBSET Candidate
    BY ListingType
  <2>3. r \in JobType /\ r.pc = "connected"
    BY <2>2, IdleType DEF JobType, PC
  <2> HIDE DEF r
  <2>4. job' = [job EXCEPT ![j] = r]
    BY <2>1 DEF r
  <2> QED BY <1>1, <2>3, <2>4 DEF Scan, Typed
<1>2. ASSUME ListConnected(j) PROVE Rest /\ Goes
  <2>1. Unseen(j) \in SUBSET Session
    BY DEF Unseen, Typed
  <2> DEFINE r == [job[j] EXCEPT !.pc = "probe", !.unseen = Unseen(j)]
  <2>2. r \in JobType /\ r.pc = "probe"
    BY <2>1 DEF Typed, JobType, PC
  <2>3. job' = [job EXCEPT ![j] = r]
    BY <1>2 DEF ListConnected
  <2> HIDE DEF r
  <2> QED BY <1>2, <2>2, <2>3 DEF ListConnected, Typed
<1>3. ASSUME ProbeAnswers(j) PROVE Rest /\ Goes
  BY <1>3 DEF ProbeAnswers, Typed, JobType, PC
<1>4. ASSUME ProbeFails(j) PROVE Rest /\ Goes
  BY <1>4 DEF ProbeFails, Typed, JobType, PC, Remove
<1>5. ASSUME ProbesDone(j) PROVE Rest /\ Goes
  BY <1>5 DEF ProbesDone, Typed, JobType, PC, To
<1>6. ASSUME CoolingDown(j) PROVE Rest /\ Goes
  BY <1>6, ReclaimedType DEF CoolingDown
<1>7. ASSUME Reclaim(j) PROVE Rest /\ Goes
  BY <1>7 DEF Reclaim, Typed, JobType, PC, MayReclaim, To
<1>8. ASSUME NothingToKill(j) PROVE Rest /\ Goes
  BY <1>8, ReclaimedType DEF NothingToKill
<1>9. ASSUME KillFails(j) PROVE Rest /\ Goes
  BY <1>9, ReclaimedType DEF KillFails
<1>10. ASSUME Kill(j) PROVE Rest /\ Goes
  BY <1>10 DEF Kill, Typed, JobType, PC, To
<1>11. ASSUME GraceEnds(j) PROVE Rest /\ Goes
  BY <1>11, ReclaimedType DEF GraceEnds
<1>12. ASSUME Pick(j) PROVE Rest /\ Goes
  <2>1. PICK c \in job[j].candidates :
          job' = IF Connected(c) THEN [job EXCEPT ![j].candidates = @ \ {c}]
                 ELSE [job EXCEPT ![j].pc = "opening", ![j].candidate = c]
    BY <1>12 DEF Pick
  <2>2. job[j].candidates \in SUBSET Candidate /\ job[j].pc = "open"
    BY <1>12 DEF Typed, JobType, Pick
  <2>3. CASE Connected(c)
    <3> DEFINE r == [job[j] EXCEPT !.candidates = @ \ {c}]
    <3>1. r \in JobType /\ r.pc = "open"
      BY <2>2 DEF Typed, JobType, PC
    <3>2. job' = [job EXCEPT ![j] = r]
      BY <2>1, <2>3
    <3> HIDE DEF r
    <3> QED BY <1>12, <3>1, <3>2 DEF Pick, Typed
  <2>4. CASE ~Connected(c)
    <3> DEFINE r == [job[j] EXCEPT !.pc = "opening", !.candidate = c]
    <3>1. r \in JobType /\ r.pc = "opening" /\ r.candidate \in Candidate
      BY <2>2 DEF Typed, JobType, PC
    <3>2. job' = [job EXCEPT ![j] = r]
      BY <2>1, <2>4
    <3> HIDE DEF r
    <3> QED BY <1>12, <3>1, <3>2 DEF Pick, Typed
  <2> QED BY <2>3, <2>4
<1>13. ASSUME OpenRefused(j) PROVE Rest /\ Goes
  <2>1. CASE Drop(j, TRUE)
    BY <1>13, <2>1, DropType DEF OpenRefused
  <2>2. CASE To(j, "reclaim")
    BY <1>13, <2>2 DEF OpenRefused, Typed, JobType, PC, To
  <2> QED BY <1>13, <2>1, <2>2 DEF OpenRefused
<1>14. ASSUME OpenFails(j) PROVE Rest /\ Goes
  BY <1>14, DropType DEF OpenFails
<1>15. ASSUME StoragesFail(j) PROVE Rest /\ Goes
  BY <1>15, DropType DEF StoragesFail
<1>16. ASSUME Finish(j) PROVE Rest /\ Goes
  BY <1>16, IdleType DEF Finish, Typed, JobType, PC, IdleJob
<1>17. ASSUME ScanFails(j) PROVE Rest /\ Goes
  BY <1>17 DEF ScanFails, Begins, Typed
<1> QED BY <1>0, <1>1, <1>2, <1>3, <1>4, <1>5, <1>6, <1>7, <1>8, <1>9, <1>10, <1>11, <1>12,
     <1>13, <1>14, <1>15, <1>16, <1>17 DEF Calmly

LEMMA WorldSteps ==
  ASSUME Typed, World \/ UNCHANGED vars
  PROVE  Typed' /\ Calm
<1> USE DEF world, bounds
<1>0. ASSUME UNCHANGED <<devices, registered, next_generation, job>>,
             \/ UNCHANGED <<port, attachment>>
             \/ \E p \in Phone : PlugIn(p) \/ Unplug(p)
      PROVE  Calm
  BY <1>0 DEF Calm, Opened
<1>1. ASSUME NEW p \in Phone, PlugIn(p) PROVE Typed' /\ Calm
  <2>1. port' \in [Phone -> Location \cup {None}]
    BY <1>1 DEF PlugIn, Typed, Location
  <2>2. attachment' \in [Phone -> Nat]
    BY <1>1 DEF PlugIn, Typed
  <2>3. UNCHANGED <<devices, registered, next_generation, job>>
    BY <1>1 DEF PlugIn
  <2> QED BY <1>0, <1>1, <2>1, <2>2, <2>3 DEF Typed, Opened
<1>2. ASSUME NEW p \in Phone, Unplug(p) PROVE Typed' /\ Calm
  BY <1>0, <1>2 DEF Unplug, Typed, Opened
<1>3. ASSUME NEW p \in Phone, ImageCaptureGrabs(p) PROVE Typed' /\ Calm
  BY <1>0, <1>3 DEF ImageCaptureGrabs, Typed, Opened
<1>4. CASE CoolDown \/ UNCHANGED vars
  BY <1>0, <1>4 DEF CoolDown, vars, Typed, Opened
<1> QED BY <1>1, <1>2, <1>3, <1>4 DEF World

LEMMA OpenAnswersType ==
  ASSUME Typed, NEW j \in Job, OpenAnswers(j)
  PROVE  /\ Typed'
         /\ \A i \in Job \ {j} : job'[i] = job[i]
         /\ Opened(j)'
         /\ \E p \in Phone : /\ Plugged(p) /\ ~Held(p)
                             /\ job'[j].session.phone = p
                             /\ job'[j].session.attachment = attachment[p]
                             /\ job'[j].session.generation = next_generation
<1> USE DEF world, bounds
<1> DEFINE c == job[j].candidate
<1>1. c \in Candidate
  BY DEF OpenAnswers, Typed
<1>2. PICK p \in Answering(c) :
        /\ ~Held(p)
        /\ job' = [job EXCEPT ![j].pc = "storages", ![j].session =
                     [key |-> DeviceKey(c), model |-> c.model, location |-> c.location,
                      generation |-> next_generation, phone |-> p,
                      attachment |-> attachment[p]]]
  BY DEF OpenAnswers
<1> DEFINE new == [key |-> DeviceKey(c), model |-> c.model, location |-> c.location,
                   generation |-> next_generation, phone |-> p, attachment |-> attachment[p]]
<1>3. p \in Phone /\ Plugged(p)
  BY DEF Answering
<1>4. new \in Session
  BY <1>1, <1>3, KeyType DEF Session, Candidate, Typed
<1>5. /\ job' \in [Job -> JobType] /\ job'[j].session = new /\ job'[j].pc = "storages"
      /\ job'[j].candidate = c
      /\ \A i \in Job \ {j} : job'[i] = job[i]
  <2> HIDE DEF new, c
  <2>1. job[j] \in JobType /\ new \in Session \cup {NoSession}
    BY <1>4 DEF Typed
  <2>2. job' = [job EXCEPT ![j].pc = "storages", ![j].session = new]
    BY <1>2 DEF new, c
  <2>3. /\ job' \in [Job -> JobType] /\ job'[j].session = new /\ job'[j].pc = "storages"
        /\ job'[j].candidate = job[j].candidate
        /\ \A i \in Job \ {j} : job'[i] = job[i]
    BY <2>1, <2>2 DEF Typed, JobType, PC
  <2> QED BY <2>3 DEF c
<1>6. UNCHANGED <<port, attachment, devices, registered>> /\ next_generation' = next_generation + 1
  BY DEF OpenAnswers, NextGeneration
<1>7. Typed'
  BY <1>1, <1>4, <1>5, <1>6 DEF Typed, Opened
<1> QED BY <1>2, <1>3, <1>5, <1>7 DEF Opened

LEMMA RegisterType ==
  ASSUME Typed, NEW j \in Job, Register(j)
  PROVE  /\ Typed'
         /\ \A i \in Job \ {j} : job'[i] = job[i]
         /\ ~Opened(j)'
<1>1. job[j].session \in Session /\ UNCHANGED <<port, attachment, next_generation>>
  BY DEF Register, Typed, Opened, world
<1>2. devices' \subseteq Session /\ registered' \subseteq [phone : Phone, attachment : Nat, generation : Nat]
  BY <1>1 DEF Register, Typed, Session
<1>3. /\ job' \in [Job -> JobType] /\ job'[j].pc = "open"
      /\ \A i \in Job \ {j} : job'[i] = job[i]
  BY DropType DEF Register
<1> QED BY <1>1, <1>2, <1>3 DEF Typed, Opened

\* What a step may be, and that it keeps the types.
LEMMA Steps ==
  ASSUME Typed, [Next]_vars
  PROVE  /\ Typed'
         /\ Calm \/ \E j \in Job : OpenAnswers(j) \/ Register(j)
  BY JobSteps, WorldSteps, OpenAnswersType, RegisterType DEF Next, Refresh, Calmly

-----------------------------------------------------------------------------
(* Type correctness.                                                       *)

\* The candidates of a refresh are different devices; one is being opened only after
\* it was picked, and a session is at hand only after it was opened.
Fine(r) ==
  /\ \A c, d \in r.candidates : c.location = d.location => c = d
  /\ r.candidate \in r.candidates \cup {NoCandidate}
  /\ r.pc \in {"idle", "connected", "probe", "open"} => r.candidate = NoCandidate
  /\ r.pc # "storages" => r.session = NoSession

Counters ==
  /\ \A p, q \in Phone : Plugged(p) /\ port[p] = port[q] => p = q
  /\ \A p \in Phone : attachment[p] <= MaxPlugs[p]
  /\ icdd \subseteq Phone
  /\ last_error \in BOOLEAN /\ cooling \in BOOLEAN
  /\ mishaps \in 0..MaxMishaps /\ refreshes \in 0..MaxRefreshes

Keys == \A d, e \in devices : d.key = e.key => d = e

TypeInv == Typed /\ Counters /\ Keys /\ \A j \in Job : Fine(job[j])

LEMMA TypeInvImplies == TypeInv => TypeOK
  BY DEF TypeInv, Typed, Counters, Keys, Fine, TypeOK, JobType, Opened

LEMMA InitTypeInv == Init => TypeInv
<1> SUFFICES ASSUME Init PROVE TypeInv
  OBVIOUS
<1>1. \A p \in Phone : MaxPlugs[p] \in Nat
  BY BoundAssumption
<1>2. MaxMishaps \in 0..MaxMishaps /\ MaxRefreshes \in 0..MaxRefreshes
  BY BoundAssumption
<1>3. Counters
  <2>1. \A p \in Phone : ~Plugged(p) /\ attachment[p] = 0
    BY DEF Init, Plugged
  <2>2. \A p \in Phone : attachment[p] <= MaxPlugs[p]
    BY <1>1, <2>1
  <2>3. icdd = {} /\ last_error = FALSE /\ cooling = FALSE
    BY DEF Init
  <2>4. mishaps \in 0..MaxMishaps /\ refreshes \in 0..MaxRefreshes
    BY <1>2 DEF Init
  <2> QED BY <2>1, <2>2, <2>3, <2>4 DEF Counters
<1>4. \A j \in Job : Fine(job[j])
  BY DEF Init, Fine, IdleJob
<1>5. Keys
  BY DEF Init, Keys
<1> QED BY <1>3, <1>4, <1>5, InitTyped DEF TypeInv

LEMMA DropFine ==
  ASSUME TypeInv, NEW j \in Job, NEW failed \in BOOLEAN, Drop(j, failed)
  PROVE  \A i \in Job : Fine(job'[i])
<1> DEFINE r == [job[j] EXCEPT !.pc = "open", !.candidates = @ \ {job[j].candidate},
                              !.candidate = NoCandidate, !.again = FALSE,
                              !.session = NoSession, !.error = @ \/ failed]
<1>1. job' = [job EXCEPT ![j] = r]
  BY DEF Drop
<1>2. job[j] \in JobType /\ Fine(job[j])
  BY DEF TypeInv, Typed
<1>3. Fine(r)
  BY <1>2 DEF JobType, Fine
<1> HIDE DEF r
<1> QED BY <1>1, <1>3 DEF TypeInv, Typed

LEMMA ReclaimedFine ==
  ASSUME TypeInv, NEW j \in Job, NEW done \in BOOLEAN, Reclaimed(j, done),
         job[j].pc \in {"reclaim", "killing", "grace"}
  PROVE  \A i \in Job : Fine(job'[i])
<1>1. CASE job[j].candidate = NoCandidate
  BY <1>1 DEF Reclaimed, To, TypeInv, Typed, JobType, Fine
<1>2. CASE job[j].candidate # NoCandidate /\ done
  BY <1>2 DEF Reclaimed, TypeInv, Typed, JobType, Fine
<1>3. CASE job[j].candidate # NoCandidate /\ ~done
  BY <1>3, DropFine DEF Reclaimed
<1> QED BY <1>1, <1>2, <1>3

\* The entries of one phone that are kept are one: all that show a serial number show
\* the same.
LEMMA UniqueIsDistinct ==
  ASSUME TypeInv, NEW list \in Listings,
         NEW c \in Unique(list), NEW d \in Unique(list), c.location = d.location
  PROVE  c = d
<1>1. \A x \in list : \E p \in Phone, s \in Serial \cup {None} :
        Plugged(p) /\ x = [model |-> ModelOf[p], location |-> port[p], serial |-> s]
  BY DEF Listings
<1>2. c \in list /\ d \in list
  BY DEF Unique
<1>3. PICK p \in Phone, s \in Serial \cup {None} :
        Plugged(p) /\ c = [model |-> ModelOf[p], location |-> port[p], serial |-> s]
  BY <1>1, <1>2
<1>4. PICK q \in Phone, u \in Serial \cup {None} :
        Plugged(q) /\ d = [model |-> ModelOf[q], location |-> port[q], serial |-> u]
  BY <1>1, <1>2
<1>5. p = q
  BY <1>3, <1>4 DEF TypeInv, Counters
<1>6. s \in Serials[p] /\ u \in Serials[p]
  BY <1>2, <1>3, <1>4, <1>5 DEF Listings
<1>7. s = None <=> u = None
  BY <1>2, <1>3, <1>4 DEF Unique
<1>8. s = u
  BY <1>6, <1>7, SerialsAssumption
<1> QED BY <1>3, <1>4, <1>5, <1>8

LEMMA NextKeepsFine ==
  ASSUME TypeInv, [Next]_vars PROVE \A i \in Job : Fine(job'[i])
<1> DEFINE Goal == \A i \in Job : Fine(job'[i])
<1>a. ASSUME NEW j \in Job, NEW r, job' = [job EXCEPT ![j] = r], Fine(r) PROVE Goal
  BY <1>a DEF TypeInv, Typed
<1>b. ASSUME NEW j \in Job PROVE job[j] \in JobType /\ Fine(job[j])
  BY DEF TypeInv, Typed
<1>1. ASSUME NEW j \in Job, ListConnected(j) PROVE Goal
  BY <1>1 DEF ListConnected, TypeInv, Typed, JobType, Fine
<1>2. ASSUME NEW j \in Job, ProbeAnswers(j) PROVE Goal
  BY <1>2 DEF ProbeAnswers, TypeInv, Typed, JobType, Fine
<1>3. ASSUME NEW j \in Job, ProbeFails(j) PROVE Goal
  BY <1>3 DEF ProbeFails, TypeInv, Typed, JobType, Fine
<1>4. ASSUME NEW j \in Job, ProbesDone(j) PROVE Goal
  BY <1>4 DEF ProbesDone, To, TypeInv, Typed, JobType, Fine
<1>5. ASSUME NEW j \in Job, CoolingDown(j) PROVE Goal
  BY <1>5, ReclaimedFine DEF CoolingDown
<1>6. ASSUME NEW j \in Job, Reclaim(j) PROVE Goal
  BY <1>6 DEF Reclaim, MayReclaim, To, TypeInv, Typed, JobType, Fine
<1>7. ASSUME NEW j \in Job, NothingToKill(j) PROVE Goal
  BY <1>7, ReclaimedFine DEF NothingToKill
<1>8. ASSUME NEW j \in Job, KillFails(j) PROVE Goal
  BY <1>8, ReclaimedFine DEF KillFails
<1>9. ASSUME NEW j \in Job, Kill(j) PROVE Goal
  BY <1>9 DEF Kill, To, TypeInv, Typed, JobType, Fine
<1>10. ASSUME NEW j \in Job, GraceEnds(j) PROVE Goal
  BY <1>10, ReclaimedFine DEF GraceEnds
<1>11. ASSUME NEW j \in Job, OpenFails(j) PROVE Goal
  BY <1>11, DropFine DEF OpenFails
<1>12. ASSUME NEW j \in Job, StoragesFail(j) PROVE Goal
  BY <1>12, DropFine DEF StoragesFail
<1>13. ASSUME NEW j \in Job, Register(j) PROVE Goal
  BY <1>13, DropFine DEF Register
<1>14. ASSUME NEW j \in Job, Finish(j) PROVE Goal
  BY <1>14 DEF Finish, IdleJob, TypeInv, Typed, JobType, Fine
<1>15. ASSUME NEW j \in Job, Scan(j) PROVE Goal
  <2>1. PICK list \in Listings :
          job' = [job EXCEPT ![j] = [IdleJob EXCEPT !.pc = "connected", !.candidates = Unique(list)]]
    BY <1>15 DEF Scan
  <2> DEFINE r == [IdleJob EXCEPT !.pc = "connected", !.candidates = Unique(list)]
  <2>2. Fine(r)
    BY UniqueIsDistinct DEF Fine, IdleJob
  <2> HIDE DEF r
  <2>3. job' = [job EXCEPT ![j] = r]
    BY <2>1 DEF r
  <2> QED BY <1>a, <2>2, <2>3
<1>16. ASSUME NEW j \in Job, Pick(j) PROVE Goal
  <2>1. PICK c \in job[j].candidates :
          job' = IF Connected(c) THEN [job EXCEPT ![j].candidates = @ \ {c}]
                 ELSE [job EXCEPT ![j].pc = "opening", ![j].candidate = c]
    BY <1>16 DEF Pick
  <2>2. job[j].pc = "open"
    BY <1>16 DEF Pick
  <2>3. CASE Connected(c)
    BY <2>1, <2>2, <2>3 DEF TypeInv, Typed, JobType, Fine
  <2>4. CASE ~Connected(c)
    BY <2>1, <2>2, <2>4 DEF TypeInv, Typed, JobType, Fine
  <2> QED BY <2>3, <2>4
<1>17. ASSUME NEW j \in Job, OpenAnswers(j) PROVE Goal
  <2>1. PICK new : job' = [job EXCEPT ![j].pc = "storages", ![j].session = new]
    BY <1>17 DEF OpenAnswers
  <2>2. job[j].pc = "opening"
    BY <1>17 DEF OpenAnswers
  <2> QED BY <2>1, <2>2 DEF TypeInv, Typed, JobType, Fine
<1>18. ASSUME NEW j \in Job, OpenRefused(j) PROVE Goal
  <2>1. CASE Drop(j, TRUE)
    BY <2>1, DropFine
  <2>2. CASE To(j, "reclaim")
    BY <1>18, <2>2 DEF OpenRefused, To, TypeInv, Typed, JobType, Fine
  <2> QED BY <1>18, <2>1, <2>2 DEF OpenRefused
<1>19. CASE World \/ UNCHANGED vars \/ \E j \in Job : ScanFails(j)
  <2>1. UNCHANGED job
    BY <1>19 DEF World, PlugIn, Unplug, ImageCaptureGrabs, CoolDown, ScanFails, vars
  <2> QED BY <2>1 DEF TypeInv
<1> QED BY <1>1, <1>2, <1>3, <1>4, <1>5, <1>6, <1>7, <1>8, <1>9, <1>10, <1>11, <1>12, <1>13,
     <1>14, <1>15, <1>16, <1>17, <1>18, <1>19 DEF Next, Refresh

LEMMA NextKeepsKeys ==
  ASSUME TypeInv, [Next]_vars PROVE Keys'
<1>1. Calm \/ \E j \in Job : OpenAnswers(j) \/ Register(j)
  BY Steps DEF TypeInv
<1>2. CASE Calm
  BY <1>2 DEF Calm, TypeInv, Keys
<1>3. ASSUME NEW j \in Job, OpenAnswers(j) PROVE Keys'
  BY <1>3 DEF OpenAnswers, TypeInv, Keys
<1>4. ASSUME NEW j \in Job, Register(j) PROVE Keys'
  BY <1>4 DEF Register, TypeInv, Keys
<1> QED BY <1>1, <1>2, <1>3, <1>4

LEMMA NextKeepsCounters ==
  ASSUME TypeInv, [Next]_vars PROVE Counters'
<1> USE DEF world, bounds
<1>m. ASSUME Breaks PROVE mishaps' \in 0..MaxMishaps
  BY <1>m, BoundAssumption DEF Breaks, TypeInv, Counters
<1>0. ASSUME UNCHANGED <<port, attachment>>, icdd' \subseteq Phone, last_error' \in BOOLEAN,
             cooling' \in BOOLEAN, mishaps' \in 0..MaxMishaps, refreshes' \in 0..MaxRefreshes
      PROVE  Counters'
  BY <1>0 DEF TypeInv, Counters, Plugged
<1>1. ASSUME NEW p \in Phone, PlugIn(p) PROVE Counters'
  <2>1. PICK l \in Ports[p] : (\A q \in Phone : port[q] # l) /\ port' = [port EXCEPT ![p] = l]
    BY <1>1 DEF PlugIn
  <2>2. \A q, r \in Phone : Plugged(q)' /\ port'[q] = port'[r] => q = r
    BY <2>1 DEF TypeInv, Typed, Counters, Plugged
  <2>3. \A q \in Phone : attachment'[q] <= MaxPlugs[q]
    <3>1. attachment[p] < MaxPlugs[p] /\ attachment' = [attachment EXCEPT ![p] = @ + 1]
      BY <1>1 DEF PlugIn
    <3>2. attachment \in [Phone -> Nat] /\ \A q \in Phone : attachment[q] <= MaxPlugs[q]
      BY DEF TypeInv, Typed, Counters
    <3>3. MaxPlugs[p] \in Nat
      BY BoundAssumption
    <3>4. attachment'[p] <= MaxPlugs[p]
      BY <3>1, <3>2, <3>3
    <3> QED BY <3>1, <3>2, <3>4
  <2> QED BY <1>1, <2>2, <2>3 DEF PlugIn, TypeInv, Counters
<1>2. ASSUME NEW p \in Phone, Unplug(p) PROVE Counters'
  <2>1. \A q, r \in Phone : Plugged(q)' /\ port'[q] = port'[r] => q = r
    BY <1>2 DEF Unplug, TypeInv, Typed, Counters, Plugged
  <2> QED BY <1>2, <2>1 DEF Unplug, TypeInv, Counters
<1>3. ASSUME NEW p \in Phone, ImageCaptureGrabs(p) PROVE Counters'
  BY <1>0, <1>3, <1>m DEF ImageCaptureGrabs, TypeInv, Counters
<1>4. CASE CoolDown \/ UNCHANGED vars
  BY <1>0, <1>4 DEF CoolDown, vars, TypeInv, Counters
<1>5. ASSUME NEW j \in Job, Scan(j) \/ ScanFails(j) PROVE Counters'
  <2>0. Begins(j)
    BY <1>5 DEF Scan, ScanFails
  <2>1. refreshes' \in 0..MaxRefreshes
    BY <2>0, BoundAssumption DEF Begins, TypeInv, Counters
  <2> QED BY <1>0, <1>5, <1>m, <2>1 DEF Scan, ScanFails, TypeInv, Counters
<1>6. ASSUME NEW j \in Job, ListConnected(j) \/ ProbeAnswers(j) \/ ProbesDone(j)
                            \/ CoolingDown(j) \/ Reclaim(j) \/ NothingToKill(j) \/ GraceEnds(j)
                            \/ Pick(j) \/ OpenAnswers(j) \/ OpenRefused(j) \/ Register(j)
      PROVE  Counters'
  BY <1>0, <1>6 DEF ListConnected, ProbeAnswers, ProbesDone, CoolingDown, Reclaim,
       NothingToKill,
     GraceEnds, Pick, OpenAnswers, OpenRefused, Register, TypeInv, Counters
<1>7. ASSUME NEW j \in Job, ProbeFails(j) \/ OpenFails(j) \/ StoragesFail(j) PROVE Counters'
  BY <1>0, <1>7, <1>m DEF ProbeFails, OpenFails, StoragesFail, TypeInv, Counters
<1>8. ASSUME NEW j \in Job, KillFails(j) \/ Kill(j) PROVE Counters'
  BY <1>0, <1>8, <1>m DEF KillFails, Kill, TypeInv, Counters
<1>9. ASSUME NEW j \in Job, Finish(j) PROVE Counters'
  <2>1. last_error' \in BOOLEAN
    BY <1>9 DEF Finish, Reported, TypeInv, Typed, JobType
  <2> QED BY <1>0, <1>9, <2>1 DEF Finish, TypeInv, Counters
<1> QED BY <1>1, <1>2, <1>3, <1>4, <1>5, <1>6, <1>7, <1>8, <1>9 DEF Next, World, Refresh

\* The registry's variables keep their types, sessions have keys of their own, and the
\* candidates of a refresh are different devices.
THEOREM TypeCorrect == Spec => []TypeOK
<1>1. TypeInv /\ [Next]_vars => TypeInv'
  BY Steps, NextKeepsFine, NextKeepsKeys, NextKeepsCounters DEF TypeInv
<1> QED BY <1>1, InitTypeInv, TypeInvImplies, PTL DEF Spec

-----------------------------------------------------------------------------
(* Sessions and their phones.                                              *)

At(j) == job[j].session

\* Sessions are of this attachment of their phone or an earlier one ...
Earlier ==
  /\ \A d \in devices : d.attachment <= attachment[d.phone]
  /\ \A j \in Job : Opened(j) => At(j).attachment <= attachment[At(j).phone]

\* ... generations are drawn in order ...
Below ==
  /\ \A e \in registered : e.generation < next_generation
  /\ \A j \in Job : Opened(j) => At(j).generation < next_generation

\* ... and whoever has opened a phone that is still there is the only one: nobody
\* else has opened it, no session of it that is alive is registered, and all that
\* ever were are older.
Exclusive ==
  \A j \in Job : Opened(j) /\ Alive(At(j)) =>
    /\ \A i \in Job : Opened(i) /\ At(i).phone = At(j).phone /\ Alive(At(i)) => i = j
    /\ \A d \in devices : d.phone = At(j).phone => ~Alive(d)
    /\ \A e \in registered : e.phone = At(j).phone => At(j).generation > e.generation

SessionInv == Typed /\ Earlier /\ Below /\ Exclusive

LEMMA InitSessionInv == Init => SessionInv
  BY InitTyped, IdleType DEF Init, SessionInv, Earlier, Below, Exclusive, Opened

\* What is not alive does not come back, be the phone plugged in again or not.
LEMMA DeadStays ==
  ASSUME Typed, NEW d \in Session, d.attachment <= attachment[d.phone],
         \/ UNCHANGED <<port, attachment>>
         \/ \E p \in Phone : PlugIn(p) \/ Unplug(p)
  PROVE  d.attachment <= attachment'[d.phone] /\ (Alive(d)' => Alive(d))
<1>0. d.phone \in Phone /\ d.attachment \in Nat
  BY DEF Session
<1>1. CASE UNCHANGED <<port, attachment>>
  BY <1>1 DEF Alive, Plugged
<1>2. ASSUME NEW p \in Phone, PlugIn(p)
      PROVE  d.attachment <= attachment'[d.phone] /\ (Alive(d)' => Alive(d))
  <2>1. PICK l \in Ports[p] : port' = [port EXCEPT ![p] = l]
    BY <1>2 DEF PlugIn
  <2>2. attachment' = [attachment EXCEPT ![p] = @ + 1] /\ attachment[p] \in Nat
    BY <1>2 DEF PlugIn, Typed
  <2>3. CASE d.phone = p
    BY <1>0, <2>2, <2>3 DEF Alive, Typed
  <2>4. CASE d.phone # p
    BY <1>0, <2>1, <2>2, <2>4 DEF Alive, Plugged, Typed
  <2> QED BY <2>3, <2>4
<1>3. ASSUME NEW p \in Phone, Unplug(p)
      PROVE  d.attachment <= attachment'[d.phone] /\ (Alive(d)' => Alive(d))
  BY <1>0, <1>3 DEF Unplug, Alive, Plugged, Typed
<1> QED BY <1>1, <1>2, <1>3

LEMMA CalmKeepsSessionInv ==
  ASSUME SessionInv, Typed', Calm PROVE SessionInv'
<1>1. \A d \in devices' : /\ d \in devices /\ d.attachment <= attachment'[d.phone]
                          /\ Alive(d)' => Alive(d)
  BY DeadStays DEF SessionInv, Earlier, Calm, Typed
<1>2. \A i \in Job : Opened(i)' => /\ Opened(i) /\ At(i)' = At(i)
                                   /\ At(i).attachment <= attachment'[At(i).phone]
                                   /\ Alive(At(i))' => Alive(At(i))
  <2> SUFFICES ASSUME NEW i \in Job, Opened(i)'
               PROVE  /\ Opened(i) /\ At(i)' = At(i)
                      /\ At(i).attachment <= attachment'[At(i).phone]
                      /\ Alive(At(i))' => Alive(At(i))
    OBVIOUS
  <2>1. Opened(i) /\ At(i)' = At(i) /\ At(i) \in Session
    BY DEF Calm, SessionInv, Typed, At
  <2>2. At(i).attachment <= attachment[At(i).phone]
    BY <2>1 DEF SessionInv, Earlier
  <2>3. \A d \in Session : d.attachment <= attachment[d.phone] =>
          /\ d.attachment <= attachment'[d.phone]
          /\ port'[d.phone] # None /\ d.attachment = attachment'[d.phone] => Alive(d)
    BY DeadStays DEF SessionInv, Calm, Alive, Plugged
  <2>4. /\ At(i).attachment <= attachment'[At(i).phone]
        /\ port'[At(i).phone] # None /\ At(i).attachment = attachment'[At(i).phone] => Alive(At(i))
    BY <2>1, <2>2, <2>3
  <2> QED BY <2>1, <2>4 DEF Alive, Plugged
<1>3. Earlier'
  BY <1>1, <1>2 DEF Earlier
<1>4. Below'
  BY <1>2 DEF SessionInv, Below, Calm
<1>5. Exclusive'
  BY <1>1, <1>2 DEF SessionInv, Exclusive, Calm
<1> QED BY <1>3, <1>4, <1>5 DEF SessionInv

\* A phone opens for a refresh only while no other session of it is alive: its own
\* is then the newest.
LEMMA OpenKeepsSessionInv ==
  ASSUME SessionInv, NEW j \in Job, OpenAnswers(j) PROVE SessionInv'
<1>0. Typed
  BY DEF SessionInv
<1>1. PICK p \in Phone :
        /\ ~Held(p)
        /\ At(j)'.phone = p /\ At(j)'.attachment = attachment[p]
        /\ At(j)'.generation = next_generation
  BY <1>0, OpenAnswersType DEF At
<1>2. /\ Typed' /\ Opened(j)'
      /\ \A i \in Job \ {j} : job'[i] = job[i]
  BY <1>0, OpenAnswersType
<1>3. UNCHANGED <<port, attachment, devices, registered>> /\ next_generation' = next_generation + 1
  BY DEF OpenAnswers, NextGeneration, world
<1>4. \A i \in Job \ {j} : /\ Opened(i)' => Opened(i) /\ At(i)' = At(i)
                           /\ Alive(At(i))' => Alive(At(i))
  BY <1>2, <1>3 DEF Opened, At, Alive, Plugged
<1>5. /\ \A d \in devices : d.phone = p => ~Alive(d)
      /\ \A i \in Job : Opened(i) /\ At(i).phone = p => ~Alive(At(i))
  <2>1. \A d \in Referenced : d.phone = p => ~Alive(d)
    BY <1>1 DEF Held
  <2>2. devices \subseteq Referenced
    BY DEF Referenced
  <2>3. ASSUME NEW i \in Job, Opened(i) PROVE At(i) \in Referenced
    <3> DEFINE Ready == {l \in Job : job[l].pc = "storages"}
               Theirs == {job[l].session : l \in Ready}
               Probed == UNION {job[l].unseen : l \in Job}
    <3>1. i \in Ready
      BY <2>3 DEF Opened
    <3>2. job[i].session \in Theirs
      BY <3>1
    <3>3. Referenced = devices \cup Probed \cup Theirs
      BY Zenon DEF Referenced
    <3>4. Theirs \subseteq Referenced
      <4> HIDE DEF Theirs, Probed
      <4> QED BY <3>3
    <3> QED BY <3>2, <3>4 DEF At
  <2> QED BY <2>1, <2>2, <2>3
<1>6. next_generation \in Nat /\ attachment[p] \in Nat
  BY <1>0 DEF Typed
<1>7. Earlier'
  BY <1>1, <1>3, <1>4, <1>6 DEF SessionInv, Earlier
<1>8. Below'
  <2>1. \A e \in registered : e.generation \in Nat
    BY <1>0 DEF Typed
  <2>2. \A i \in Job : Opened(i) => At(i).generation \in Nat
    BY <1>0 DEF Typed, At, Session
  <2> QED BY <1>1, <1>3, <1>4, <1>6, <2>1, <2>2 DEF SessionInv, Below
<1>9. Exclusive'
  <2>1. \A d \in devices : Alive(d)' <=> Alive(d)
    BY <1>3 DEF Alive, Plugged
  <2>2. \A e \in registered : e.generation < next_generation
    BY DEF SessionInv, Below
  <2>3. \A e \in registered : e.generation \in Nat
    BY <1>0 DEF Typed
  <2>4. \A i \in Job \ {j} : Opened(i)' /\ Alive(At(i))' => At(i)'.phone # p
    BY <1>4, <1>5
  <2> SUFFICES ASSUME NEW k \in Job, Opened(k)', Alive(At(k))'
               PROVE  /\ \A i \in Job : Opened(i)' /\ At(i)'.phone = At(k)'.phone /\ Alive(At(i))' => i = k
                      /\ \A d \in devices : d.phone = At(k)'.phone => ~Alive(d)
                      /\ \A e \in registered : e.phone = At(k)'.phone => At(k)'.generation > e.generation
    BY <1>3, <2>1 DEF Exclusive
  <2>5. CASE k = j
    BY <1>1, <1>5, <1>6, <2>2, <2>3, <2>4, <2>5
  <2>6. CASE k # j
    <3>1. Opened(k) /\ At(k)' = At(k) /\ Alive(At(k)) /\ At(k).phone # p
      BY <1>4, <2>4, <2>6
    <3>2. \A i \in Job : Opened(i)' /\ At(i)'.phone = At(k).phone /\ Alive(At(i))'
                           => i # j /\ Opened(i) /\ At(i)' = At(i) /\ Alive(At(i))
      BY <1>1, <1>4, <3>1
    <3> QED BY <3>1, <3>2 DEF SessionInv, Exclusive
  <2> QED BY <2>5, <2>6
<1> QED BY <1>2, <1>7, <1>8, <1>9 DEF SessionInv

\* Only an alive session is registered, and nobody else has opened its phone.
LEMMA RegisterKeepsSessionInv ==
  ASSUME SessionInv, NEW j \in Job, Register(j) PROVE SessionInv'
<1>0. Typed
  BY DEF SessionInv
<1>1. /\ Typed' /\ ~Opened(j)'
      /\ \A i \in Job \ {j} : job'[i] = job[i]
  BY <1>0, RegisterType
<1>2. /\ Opened(j) /\ Alive(At(j)) /\ UNCHANGED <<port, attachment, next_generation>>
      /\ \A d \in devices' : d \in devices \/ d = At(j)
      /\ \A e \in registered' : \/ e \in registered
                                \/ e.phone = At(j).phone /\ e.generation = At(j).generation
  BY DEF Register, Opened, At, FirstAnswer, world
<1>3. \A i \in Job : Opened(i)' => /\ i # j /\ Opened(i) /\ At(i)' = At(i)
                                   /\ Alive(At(i))' => Alive(At(i))
  BY <1>1, <1>2 DEF Opened, At, Alive, Plugged
<1>4. Earlier'
  BY <1>2, <1>3 DEF SessionInv, Earlier
<1>5. Below'
  BY <1>2, <1>3 DEF SessionInv, Below
<1>6. \A i \in Job : Opened(i)' /\ Alive(At(i))' => At(i).phone # At(j).phone
  BY <1>2, <1>3 DEF SessionInv, Exclusive
<1>7. \A d \in devices' : Alive(d)' <=> Alive(d)
  BY <1>2 DEF Alive, Plugged
<1>8. Exclusive'
  BY <1>2, <1>3, <1>6, <1>7 DEF SessionInv, Exclusive
<1> QED BY <1>1, <1>4, <1>5, <1>8 DEF SessionInv

LEMMA NextKeepsSessionInv == SessionInv /\ [Next]_vars => SessionInv'
<1> SUFFICES ASSUME SessionInv, [Next]_vars PROVE SessionInv'
  OBVIOUS
<1>1. Typed' /\ (Calm \/ \E j \in Job : OpenAnswers(j) \/ Register(j))
  BY Steps DEF SessionInv
<1> QED BY <1>1, CalmKeepsSessionInv, OpenKeepsSessionInv, RegisterKeepsSessionInv

\* The action of GenerationsGrow.
NewerThanAll == \A d \in devices' \ devices, e \in registered :
                  d.phone = e.phone => d.generation > e.generation

LEMMA SessionInvNewer == SessionInv /\ [Next]_vars => NewerThanAll
<1> SUFFICES ASSUME SessionInv, [Next]_vars PROVE NewerThanAll
  OBVIOUS
<1>1. Calm \/ \E j \in Job : OpenAnswers(j) \/ Register(j)
  BY Steps DEF SessionInv
<1>2. CASE Calm
  BY <1>2 DEF Calm, NewerThanAll
<1>3. ASSUME NEW j \in Job, OpenAnswers(j) PROVE NewerThanAll
  BY <1>3 DEF OpenAnswers, NewerThanAll
<1>4. ASSUME NEW j \in Job, Register(j) PROVE NewerThanAll
  <2>1. Opened(j) /\ Alive(At(j)) /\ \A d \in devices' : d \in devices \/ d = At(j)
    BY <1>4 DEF Register, Opened, At, FirstAnswer
  <2> QED BY <2>1 DEF NewerThanAll, SessionInv, Exclusive
<1> QED BY <1>1, <1>2, <1>3, <1>4

\* However often a phone comes back and refreshes overlap, the session it is
\* registered with is newer than all before it.
THEOREM GenerationsGrowAlways == Spec => GenerationsGrow
<1>1. SessionInv /\ [Next]_vars => [NewerThanAll]_vars
  BY SessionInvNewer
<1>2. Spec => [][NewerThanAll]_vars
  BY <1>1, InitSessionInv, NextKeepsSessionInv, PTL DEF Spec
<1> QED BY <1>2 DEF GenerationsGrow, NewerThanAll

-----------------------------------------------------------------------------
(* One registration.                                                       *)

\* If a phone only comes back after its dead session was noticed, what is registered
\* for a phone that is plugged in is alive.
PresentAlive == \A d \in devices : Plugged(d.phone) => Alive(d)

OneInv == SessionInv /\ PresentAlive /\ OneSession

LEMMA InitOneInv == Init => OneInv
  BY InitSessionInv DEF Init, OneInv, PresentAlive, OneSession

LEMMA NextKeepsOneInv ==
  ASSUME ~QuickReplug, OneInv, [Next]_vars PROVE OneInv'
<1>0. SessionInv /\ SessionInv'
  BY NextKeepsSessionInv DEF OneInv
<1>1. Calm \/ \E j \in Job : OpenAnswers(j) \/ Register(j)
  BY Steps, <1>0 DEF SessionInv
<1>2. CASE Calm
  <2>1. OneSession'
    BY <1>2 DEF Calm, OneInv, OneSession
  <2>2. CASE UNCHANGED <<port, attachment>>
    <3>1. \A d \in devices' : d \in devices
      BY <1>2 DEF Calm
    <3>2. PresentAlive'
      BY <2>2, <3>1 DEF OneInv, PresentAlive, Alive, Plugged
    <3> QED BY <1>0, <2>1, <3>2 DEF OneInv
  <2>3. ASSUME NEW p \in Phone, PlugIn(p) PROVE PresentAlive'
    <3>1. \A d \in devices' : d \in devices /\ d.phone # p /\ d.phone \in Phone
      BY <1>0, <2>3 DEF PlugIn, Noticed, SessionInv, Typed, Session
    <3>2. PICK l \in Ports[p] : port' = [port EXCEPT ![p] = l]
      BY <2>3 DEF PlugIn
    <3>3. attachment' = [attachment EXCEPT ![p] = @ + 1]
      BY <2>3 DEF PlugIn
    <3> QED BY <1>0, <3>1, <3>2, <3>3 DEF OneInv, PresentAlive, Alive, Plugged, SessionInv,
         Typed
  <2>4. ASSUME NEW p \in Phone, Unplug(p) PROVE PresentAlive'
    <3>1. \A d \in devices' : d \in devices /\ d.phone \in Phone
      BY <1>0, <2>4 DEF Unplug, SessionInv, Typed, Session
    <3> QED BY <1>0, <2>4, <3>1 DEF Unplug, OneInv, PresentAlive, Alive, Plugged,
         SessionInv, Typed
  <2> QED BY <1>0, <1>2, <2>1, <2>2, <2>3, <2>4 DEF Calm, OneInv
<1>3. ASSUME NEW j \in Job, OpenAnswers(j) PROVE OneInv'
  <2>1. UNCHANGED <<port, attachment, devices>>
    BY <1>3 DEF OpenAnswers, world
  <2> QED BY <1>0, <2>1 DEF OneInv, PresentAlive, OneSession, Alive, Plugged
<1>4. ASSUME NEW j \in Job, Register(j) PROVE OneInv'
  <2>1. /\ Opened(j) /\ Alive(At(j)) /\ UNCHANGED <<port, attachment>>
        /\ \A d \in devices' : d \in devices \/ d = At(j)
    BY <1>4 DEF Register, Opened, At, FirstAnswer, world
  <2>2. \A d \in devices : d.phone # At(j).phone
    BY <1>0, <2>1 DEF OneInv, SessionInv, Exclusive, PresentAlive, Alive
  <2>3. OneSession'
    BY <2>1, <2>2 DEF OneInv, OneSession
  <2>4. PresentAlive'
    BY <2>1 DEF OneInv, PresentAlive, Alive, Plugged
  <2> QED BY <1>0, <2>3, <2>4 DEF OneInv
<1> QED BY <1>1, <1>2, <1>3, <1>4

\* A phone that does not come back before its dead session was noticed is registered
\* once at most, whatever its key, and however many refreshes overlap.
THEOREM OneSessionAlways == ASSUME ~QuickReplug PROVE Spec => []OneSession
<1>1. OneInv /\ [Next]_vars => OneInv'
  BY NextKeepsOneInv
<1>2. OneInv => OneSession
  BY DEF OneInv
<1> QED BY <1>1, <1>2, InitOneInv, PTL DEF Spec

-----------------------------------------------------------------------------
(* Image Capture.                                                          *)

Reclaiming == {"killing", "grace"}

\* One refresh has the lock, and came by the look at the clock.
LockInv ==
  /\ Typed
  /\ \A i, j \in Job : job[i].pc \in Reclaiming /\ job[j].pc \in Reclaiming => i = j
  /\ OncePerCooldown

LEMMA InitLockInv == Init => LockInv
  BY InitTyped, IdleType DEF Init, LockInv, OncePerCooldown, Reclaiming

LEMMA NextKeepsLockInv == LockInv /\ [Next]_vars => LockInv'
<1> SUFFICES ASSUME LockInv, [Next]_vars PROVE LockInv'
  OBVIOUS
<1> USE DEF world, bounds
<1>t. Typed /\ Typed'
  BY Steps DEF LockInv
<1>0. ASSUME \A i \in Job : job'[i].pc \in Reclaiming => job'[i].pc = job[i].pc,
             cooling' => cooling
      PROVE  LockInv'
  BY <1>0, <1>t DEF LockInv, OncePerCooldown, Reclaiming
<1>1. ASSUME NEW j \in Job, Scan(j) PROVE LockInv'
  BY <1>0, <1>t, <1>1 DEF Scan, Typed, JobType, Reclaiming, IdleJob
<1>2. ASSUME NEW j \in Job, ListConnected(j) PROVE LockInv'
  BY <1>0, <1>t, <1>2 DEF ListConnected, Typed, JobType, Reclaiming
<1>3. ASSUME NEW j \in Job, ProbeAnswers(j) PROVE LockInv'
  BY <1>0, <1>t, <1>3 DEF ProbeAnswers, Typed, JobType, Reclaiming
<1>4. ASSUME NEW j \in Job, ProbeFails(j) PROVE LockInv'
  BY <1>0, <1>t, <1>4 DEF ProbeFails, Typed, JobType, Reclaiming
<1>5. ASSUME NEW j \in Job, ProbesDone(j) PROVE LockInv'
  BY <1>0, <1>t, <1>5 DEF ProbesDone, Typed, JobType, Reclaiming, To
<1>6. ASSUME NEW j \in Job, Pick(j) PROVE LockInv'
  BY <1>0, <1>t, <1>6 DEF Pick, Typed, JobType, Reclaiming
<1>7. ASSUME NEW j \in Job, OpenRefused(j) PROVE LockInv'
  <2>1. CASE Drop(j, TRUE)
    BY <1>0, <1>t, <1>7, <2>1, DropType DEF OpenRefused, Reclaiming
  <2>2. CASE To(j, "reclaim")
    BY <1>0, <1>t, <1>7, <2>2 DEF OpenRefused, Typed, JobType, Reclaiming, To
  <2> QED BY <1>7, <2>1, <2>2 DEF OpenRefused
<1>8. ASSUME NEW j \in Job, OpenFails(j) PROVE LockInv'
  BY <1>0, <1>t, <1>8 DEF OpenFails, Typed, JobType, Reclaiming, Drop
<1>9. ASSUME NEW j \in Job, StoragesFail(j) PROVE LockInv'
  BY <1>0, <1>t, <1>9 DEF StoragesFail, Typed, JobType, Reclaiming, Drop
<1>10. ASSUME NEW j \in Job, Finish(j) PROVE LockInv'
  BY <1>0, <1>t, <1>10 DEF Finish, Typed, JobType, Reclaiming, IdleJob
<1>11. ASSUME NEW j \in Job, OpenAnswers(j) PROVE LockInv'
  BY <1>0, <1>t, <1>11 DEF OpenAnswers, Typed, JobType, Reclaiming
<1>12. ASSUME NEW j \in Job, Register(j) PROVE LockInv'
  BY <1>0, <1>t, <1>12 DEF Register, Typed, JobType, Reclaiming, Drop
<1>13. ASSUME NEW j \in Job, CoolingDown(j) PROVE LockInv'
  BY <1>0, <1>t, <1>13, ReclaimedType DEF CoolingDown, Reclaiming
<1>14. ASSUME NEW j \in Job, NothingToKill(j) PROVE LockInv'
  BY <1>0, <1>t, <1>14, ReclaimedType DEF NothingToKill, Reclaiming
<1>15. ASSUME NEW j \in Job, GraceEnds(j) PROVE LockInv'
  BY <1>0, <1>t, <1>15, ReclaimedType DEF GraceEnds, Reclaiming
<1>16. ASSUME NEW j \in Job, Reclaim(j) PROVE LockInv'
  <2>1. \A i \in Job : job'[i].pc \in Reclaiming => i = j
    BY <1>t, <1>16 DEF Reclaim, MayReclaim, ReclaimUnlocked, To, Typed, JobType, Reclaiming
  <2>2. ~cooling'
    BY <1>16 DEF Reclaim, MayReclaim
  <2> QED BY <1>t, <2>1, <2>2 DEF LockInv, OncePerCooldown
<1>17. ASSUME NEW j \in Job, KillFails(j) PROVE LockInv'
  <2>1. \A i \in Job : job'[i].pc \notin Reclaiming
    BY <1>t, <1>17, ReclaimedType DEF KillFails, LockInv, Reclaiming
  <2> QED BY <1>t, <2>1 DEF LockInv, OncePerCooldown, Reclaiming
<1>18. ASSUME NEW j \in Job, Kill(j) PROVE LockInv'
  <2>1. \A i \in Job : job'[i].pc \in Reclaiming => i = j /\ job'[i].pc = "grace"
    BY <1>t, <1>18 DEF Kill, To, LockInv, Reclaiming, Typed, JobType
  <2>2. \A i \in Job : job'[i].pc # "killing"
    BY <2>1 DEF Reclaiming
  <2> QED BY <1>t, <2>1, <2>2 DEF LockInv, OncePerCooldown
<1>19. CASE World \/ UNCHANGED vars \/ \E j \in Job : ScanFails(j)
  <2>1. UNCHANGED job /\ (cooling' => cooling)
    BY <1>19 DEF World, PlugIn, Unplug, ImageCaptureGrabs, CoolDown, ScanFails, vars
  <2> QED BY <1>0, <2>1
<1> QED BY <1>1, <1>2, <1>3, <1>4, <1>5, <1>6, <1>7, <1>8, <1>9, <1>10, <1>11, <1>12, <1>13,
     <1>14, <1>15, <1>16, <1>17, <1>18, <1>19 DEF Next, Refresh

\* However many refreshes want to, nobody is about to stop Image Capture less than
\* the cooldown after the last time.
THEOREM OncePerCooldownAlways == Spec => []OncePerCooldown
<1>1. LockInv => OncePerCooldown
  BY DEF LockInv
<1> QED BY <1>1, InitLockInv, NextKeepsLockInv, PTL DEF Spec

=============================================================================
