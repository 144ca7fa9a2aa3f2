----------------------------- MODULE HueOnboardingProofs -----------------------------
(***************************************************************************)
(* HueOnboarding: types, one running poll per pairing, and no key from a   *)
(* pairing the user walked away from, for any bridges, areas and bounds.   *)
(***************************************************************************)
EXTENDS HueOnboarding, FiniteSetTheorems, TLAPS

(* What the operators return *)

LEMMA ResolvedIsOwner ==
  ASSUME NEW chain \in Owners, NEW k \in Keys
  PROVE  Resolved(chain, k) \in Owners
  BY DEF Resolved, Owners, Keys

LEMMA CheckIsChecks ==
  ASSUME NEW at \in {"key", "areas"}, NEW b \in Bridges, NEW k \in Keys, NEW chain \in Owners
  PROVE  Check(at, b, k, chain)
           \in [at : {"key", "areas"}, bridge : Bridges, key : Keys, sent : Owners]
  BY ResolvedIsOwner DEF Check

LEMMA StartedCheckTyped ==
  ASSUME TypeOK, NEW b \in Owners, NEW k \in Keys, NEW chain \in Owners, NEW c \in Creds,
         StartsCheck(b, k, chain, c)
  PROVE  /\ checks' \subseteq [at : {"key", "areas"}, bridge : Bridges, key : Keys, sent : Owners]
         /\ cred' \in Creds /\ validating' \in BOOLEAN
<1>1. CASE b = NoBridge \/ k = NoBridge
  BY <1>1 DEF StartsCheck, TypeOK
<1>2. CASE ~(b = NoBridge \/ k = NoBridge)
  <2>1. b \in Bridges
    BY <1>2 DEF Owners
  <2>2. Check("key", b, k, chain)
          \in [at : {"key", "areas"}, bridge : Bridges, key : Keys, sent : Owners]
    BY <2>1, CheckIsChecks
  <2> QED
    BY <1>2, <2>2 DEF StartsCheck, TypeOK, Creds
<1> QED
  BY <1>1, <1>2

LEMMA StartedListTyped ==
  ASSUME TypeOK, NEW b \in Bridges, NEW k \in Keys, NEW chain \in Owners, StartsList(b, k, chain)
  PROVE  lists' \subseteq [bridge : Bridges, sent : Owners] /\ loading' \in BOOLEAN
<1>1. [bridge |-> b, sent |-> Resolved(chain, k)] \in [bridge : Bridges, sent : Owners]
  BY ResolvedIsOwner
<1> QED
  BY <1>1 DEF StartsList, TypeOK

LEMMA WrittenIsOwner ==
  ASSUME NEW b \in Owners, NEW ok, keychain \in Owners
  PROVE  Written(b, ok) \subseteq Owners
  BY DEF Written, Owners

LEMMA FirstIsArea ==
  ASSUME NEW as \in SUBSET Areas
  PROVE  FirstOf(as) \in Areas \cup {NoArea}
  BY DEF FirstOf
-----------------------------------------------------------------------------
(* Types *)

LEMMA InitIsTyped == Init => TypeOK
<1> SUFFICES ASSUME Init PROVE TypeOK
  OBVIOUS
<1>1. saved \in SavedPairings /\ keychain \in Owners
  BY LaunchesAreSaved DEF Init, SavedPairings, Owners
<1>2. bridges \subseteq Bridges /\ sel \in Owners /\ key \in Keys /\ cred \in Creds
  BY DEF Init, Owners, Keys, Creds
<1>3. setAside \in [bridge : Owners, key : Keys, cred : Creds]
  BY DEF Init, NothingAside, Owners, Keys, Creds
<1>4. /\ run \in Runs /\ run <= calls /\ calls \in 0..MaxCalls /\ polls \in 0..MaxPolls
      /\ timer \in [run : Runs, bridge : Owners]
  BY BoundsAreNumbers DEF Init, NoTimer, Runs, Owners
<1>5. request \in [Runs -> Owners]
  BY DEF Init, Owners
<1>6. /\ boot \in Boots
      /\ forgetting \in [is : {"idle", "asked", "releasing", "answered"}, bridge : Owners]
  BY DEF Init, Boots, NotForgetting, Owners, Keys
<1> QED
  BY <1>1, <1>2, <1>3, <1>4, <1>5, <1>6 DEF Init, TypeOK, Owners

LEMMA CheckAnsweredTyped ==
  ASSUME TypeOK, NEW c \in checks, NEW answer, CheckAnswered(c, answer)
  PROVE  TypeOK'
<1>1. c.bridge \in Bridges /\ c.key \in Keys /\ keychain \in Owners
  BY DEF TypeOK
<1>2. Check("areas", c.bridge, c.key, keychain)
        \in [at : {"key", "areas"}, bridge : Bridges, key : Keys, sent : Owners]
  BY <1>1, CheckIsChecks
<1>3. checks' \subseteq [at : {"key", "areas"}, bridge : Bridges, key : Keys, sent : Owners]
  BY <1>2 DEF CheckAnswered, TypeOK
<1>4. saved' \in SavedPairings
  BY DEF CheckAnswered, TypeOK, SavedPairings
<1>5. unreachable' \in BOOLEAN
  <2>1. unreachable' = (answer \in {"unreachable", "thrown"})
    BY DEF CheckAnswered
  <2> QED
    BY <2>1
<1>6. cred' \in Creds /\ validating' \in BOOLEAN
  BY DEF CheckAnswered, Creds
<1> QED
  BY <1>3, <1>4, <1>5, <1>6 DEF CheckAnswered, TypeOK, listed, poll

LEMMA CheckListedTyped ==
  ASSUME TypeOK, NEW c \in checks, NEW answer, CheckListed(c, answer)
  PROVE  TypeOK'
  BY DEF CheckListed, TypeOK, store, poll, AreasOf, Creds

LEMMA RecheckTyped ==
  ASSUME TypeOK, Recheck
  PROVE  TypeOK'
<1>1. sel \in Bridges /\ sel \in Owners /\ key \in Keys /\ keychain \in Owners /\ cred \in Creds
  BY DEF Recheck, TypeOK
<1>2. /\ checks' \subseteq [at : {"key", "areas"}, bridge : Bridges, key : Keys, sent : Owners]
      /\ cred' \in Creds /\ validating' \in BOOLEAN
  BY <1>1, StartedCheckTyped DEF Recheck
<1> QED
  BY <1>2, BoundsAreNumbers DEF Recheck, Asks, TypeOK, store, listed, poll, Runs

LEMMA BootLoadsTyped ==
  ASSUME TypeOK, BootLoads
  PROVE  TypeOK'
<1>1. saved.bridge \in Owners /\ SavedKey \in Keys /\ keychain \in Owners
  BY DEF TypeOK, SavedPairings, SavedKey, Keys, Owners
<1> DEFINE read == IF IsPaired /\ saved.status # "none" THEN saved.status ELSE "unknown"
<1>2. read \in Creds
  BY DEF TypeOK, SavedPairings, Creds
<1>3. /\ checks' \subseteq [at : {"key", "areas"}, bridge : Bridges, key : Keys, sent : Owners]
      /\ cred' \in Creds /\ validating' \in BOOLEAN
  <2>1. CASE saved.backend # "keychain" /\ saved.key # NoBridge
    BY <2>1, <1>2 DEF BootLoads, TypeOK
  <2>2. CASE ~(saved.backend # "keychain" /\ saved.key # NoBridge)
    <3>1. StartsCheck(saved.bridge, SavedKey, keychain, read)
      BY <2>2 DEF BootLoads
    <3> QED
      BY <3>1, <1>1, <1>2, StartedCheckTyped
  <2> QED
    BY <2>1, <2>2
<1>4. boot' \in Boots /\ (boot'.is = "migrating" => boot'.key \in Bridges)
  BY <1>1 DEF BootLoads, Boots, SavedKey, IsPaired, TypeOK, SavedPairings, Owners
<1>5. /\ bridges' \subseteq Bridges /\ sel' \in Owners /\ key' \in Keys
      /\ area' \in Areas \cup {NoArea}
  BY <1>1 DEF BootLoads, TypeOK, SavedPairings, Owners
<1> QED
  BY <1>3, <1>4, <1>5 DEF BootLoads, TypeOK, store, poll

LEMMA BootMigratesTyped ==
  ASSUME TypeOK, BootMigrates
  PROVE  TypeOK'
<1>1. boot.bridge \in Owners /\ boot.key \in Keys /\ boot.key \in Owners /\ cred \in Creds
  BY DEF BootMigrates, TypeOK, Boots, Owners
<1>2. keychain' \in Owners
  BY <1>1, WrittenIsOwner DEF BootMigrates, TypeOK
<1>3. StartsCheck(boot.bridge, boot.key, keychain', cred)
  BY DEF BootMigrates
<1>4. /\ checks' \subseteq [at : {"key", "areas"}, bridge : Bridges, key : Keys, sent : Owners]
      /\ cred' \in Creds /\ validating' \in BOOLEAN
  BY <1>1, <1>2, <1>3, StartedCheckTyped
<1>5. saved' \in SavedPairings
  BY DEF BootMigrates, TypeOK, SavedPairings, Owners
<1>6. boot' \in Boots /\ boot'.is = "done"
  BY DEF BootMigrates, TypeOK, Boots
<1> QED
  BY <1>2, <1>4, <1>5, <1>6 DEF BootMigrates, TypeOK, listed, poll

LEMMA RefreshAreasTyped ==
  ASSUME TypeOK, RefreshAreas
  PROVE  TypeOK'
<1>1. sel \in Bridges /\ key \in Keys /\ keychain \in Owners
  BY DEF RefreshAreas, TypeOK
<1>2. lists' \subseteq [bridge : Bridges, sent : Owners] /\ loading' \in BOOLEAN
  BY <1>1, StartedListTyped DEF RefreshAreas
<1> QED
  BY <1>2, BoundsAreNumbers DEF RefreshAreas, Asks, TypeOK, store, chosen, poll, Runs

LEMMA AreasListedTyped ==
  ASSUME TypeOK, NEW l \in lists, NEW fresh, AreasListed(l, fresh)
  PROVE  TypeOK'
<1>1. fresh \in SUBSET Areas
  BY DEF AreasListed, AreasOf
<1>2. area' \in Areas \cup {NoArea}
  BY <1>1, FirstIsArea DEF AreasListed
<1>3. saved' \in SavedPairings
  BY <1>2 DEF AreasListed, TypeOK, SavedPairings
<1> QED
  BY <1>1, <1>2, <1>3 DEF AreasListed, TypeOK, chosen, poll

LEMMA ListingFailsTyped ==
  ASSUME TypeOK, NEW l \in lists, NEW refused, ListingFails(l, refused)
  PROVE  TypeOK'
  BY DEF ListingFails, TypeOK, store, poll, Creds

LEMMA SelectAreaTyped ==
  ASSUME TypeOK, NEW a \in Areas, SelectArea(a)
  PROVE  TypeOK'
<1>1. saved' \in SavedPairings
  BY DEF SelectArea, TypeOK, SavedPairings
<1> QED
  BY <1>1, BoundsAreNumbers DEF SelectArea, Asks, TypeOK, chosen, poll, Runs

LEMMA PairTyped ==
  ASSUME TypeOK, NEW b \in Bridges, Pair(b)
  PROVE  TypeOK'
<1>1. b \in Owners /\ run + 1 \in Runs /\ run' = run + 1 /\ run' <= calls' /\ calls' \in 0..MaxCalls
  BY BoundsAreNumbers DEF Pair, Asks, TypeOK, Runs, Owners
<1>2. setAside' \in [bridge : Owners, key : Keys, cred : Creds]
  BY DEF Pair, TypeOK
<1>3. sel' \in Owners /\ key' \in Keys /\ cred' \in Creds /\ unreachable' \in BOOLEAN
  BY <1>1 DEF Pair, TypeOK, Keys, Creds
<1>4. request' \in [Runs -> Owners]
  BY <1>1 DEF Pair, TypeOK
<1>5. timer' \in [run : Runs, bridge : Owners] /\ polls' \in 0..MaxPolls
  BY BoundsAreNumbers DEF Pair, NoTimer, Runs, Owners
<1> QED
  BY <1>1, <1>2, <1>3, <1>4, <1>5 DEF Pair, TypeOK, store, listed

LEMMA PollAgainTyped ==
  ASSUME TypeOK, PollAgain
  PROVE  TypeOK'
<1>1. request' \in [Runs -> Owners]
  BY DEF PollAgain, TypeOK
<1>2. timer' \in [run : Runs, bridge : Owners]
  BY BoundsAreNumbers DEF PollAgain, NoTimer, Runs, Owners
<1> QED
  BY <1>1, <1>2 DEF PollAgain, TypeOK, store, chosen, listed

LEMMA LinkButtonAwaitedTyped ==
  ASSUME TypeOK, NEW r \in Runs, LinkButtonAwaited(r)
  PROVE  TypeOK'
<1>1. request' \in [Runs -> Owners]
  BY DEF LinkButtonAwaited, Returns, TypeOK, Owners
<1>2. timer' \in [run : Runs, bridge : Owners]
  BY DEF LinkButtonAwaited, TypeOK
<1>3. polls' \in 0..MaxPolls
  BY BoundsAreNumbers DEF LinkButtonAwaited, TypeOK
<1> QED
  BY <1>1, <1>2, <1>3 DEF LinkButtonAwaited, TypeOK, store, listed, Creds

LEMMA KeyIssuedTyped ==
  ASSUME TypeOK, NEW r \in Runs, KeyIssued(r)
  PROVE  TypeOK'
<1>1. request' \in [Runs -> Owners] /\ request[r] \in Bridges /\ request[r] \in Owners
  BY DEF KeyIssued, Returns, TypeOK, Owners
<1>2. request[r] \in Keys
  BY <1>1 DEF Keys
<1>3. keychain' \in Owners
  BY <1>1, WrittenIsOwner DEF KeyIssued, TypeOK
<1>4. CASE ~Awaited(r)
  BY <1>1, <1>3, <1>4 DEF KeyIssued, TypeOK, chosen, listed
<1>5. CASE Awaited(r)
  <2>1. lists' \subseteq [bridge : Bridges, sent : Owners] /\ loading' \in BOOLEAN
    <3>1. StartsList(request[r], request[r], keychain')
      BY <1>5 DEF KeyIssued
    <3> QED
      BY <3>1, <1>1, <1>2, <1>3, StartedListTyped
  <2>2. saved' \in SavedPairings
    <3>1. PICK ok \in Writes :
            saved' = [saved EXCEPT !.bridge = request[r], !.status = "valid",
                        !.key = IF ok THEN NoBridge ELSE request[r],
                        !.backend = IF ok THEN "keychain" ELSE "plaintext"]
      BY <1>5 DEF KeyIssued
    <3> QED
      BY <3>1, <1>1 DEF TypeOK, SavedPairings, Owners
  <2>3. /\ pairing' = NoBridge /\ isPairing' = FALSE /\ setAside' = NothingAside
        /\ key' = request[r] /\ cred' = "valid" /\ unreachable' = FALSE
        /\ UNCHANGED <<bridges, sel, rows, area>>
    BY <1>5 DEF KeyIssued
  <2>4. pairing' \in Owners /\ setAside' \in [bridge : Owners, key : Keys, cred : Creds]
    BY <2>3 DEF NothingAside, Owners, Keys, Creds
  <2>5. /\ bridges' \subseteq Bridges /\ sel' \in Owners /\ key' \in Keys /\ cred' \in Creds
        /\ unreachable' \in BOOLEAN /\ isPairing' \in BOOLEAN
        /\ rows' \subseteq Areas /\ area' \in Areas \cup {NoArea}
    BY <2>3, <1>2 DEF TypeOK, Creds
  <2>6. UNCHANGED <<validating, run, timer, polls, boot, checks, scan, forgetting, asked, calls>>
    BY DEF KeyIssued
  <2> QED
    BY <1>1, <1>3, <2>1, <2>2, <2>4, <2>5, <2>6 DEF TypeOK
<1> QED
  BY <1>4, <1>5

LEMMA PairingFailsTyped ==
  ASSUME TypeOK, NEW r \in Runs, NEW answered \in BOOLEAN, PairingFails(r, answered)
  PROVE  TypeOK'
<1>1. request' \in [Runs -> Owners]
  BY DEF PairingFails, Returns, TypeOK, Owners
<1>2. /\ pairing' \in Owners /\ isPairing' \in BOOLEAN /\ key' \in Keys /\ cred' \in Creds
      /\ unreachable' \in BOOLEAN /\ bridges' \subseteq Bridges /\ sel' \in Owners
  BY DEF PairingFails, TypeOK, chosen, Owners, Keys, Creds
<1> QED
  BY <1>1, <1>2 DEF PairingFails, TypeOK, store, listed

LEMMA CancelTyped ==
  ASSUME TypeOK, Cancel
  PROVE  TypeOK'
<1>1. /\ run' \in Runs /\ run' <= calls' /\ calls' \in 0..MaxCalls
      /\ pairing' \in Owners /\ timer' \in [run : Runs, bridge : Owners]
  BY BoundsAreNumbers DEF Cancel, Asks, StopPairingPoll, NoTimer, TypeOK, Runs, Owners
<1>2. setAside' \in [bridge : Owners, key : Keys, cred : Creds]
  BY DEF Cancel, NothingAside, Owners, Keys, Creds
<1>3. sel' \in Owners /\ key' \in Keys /\ cred' \in Creds
  BY DEF Cancel, TypeOK, Owners
<1>4. isPairing' \in BOOLEAN
  <2>1. CASE setAside # NothingAside
    BY <2>1 DEF Cancel
  <2>2. CASE setAside = NothingAside
    <3>1. isPairing' = (isPairing /\ pairing = NoBridge)
      BY <2>2 DEF Cancel
    <3> QED
      BY <3>1
  <2> QED
    BY <2>1, <2>2
<1> QED
  BY <1>1, <1>2, <1>3, <1>4 DEF Cancel, TypeOK, store, listed, Owners

LEMMA AskForgetTyped ==
  ASSUME TypeOK, AskForget
  PROVE  TypeOK'
<1>1. /\ run' \in Runs /\ run' <= calls' /\ calls' \in 0..MaxCalls
      /\ pairing' \in Owners /\ timer' \in [run : Runs, bridge : Owners]
  BY BoundsAreNumbers DEF AskForget, Asks, StopPairingPoll, NoTimer, TypeOK, Runs, Owners
<1> QED
  BY <1>1 DEF AskForget, TypeOK, store, chosen, listed, Owners

LEMMA ForgetStartsTyped ==
  ASSUME TypeOK, ForgetStarts
  PROVE  TypeOK'
<1>1. forgetting' \in [is : {"idle", "asked", "releasing", "answered"}, bridge : Owners]
  BY DEF ForgetStarts, TypeOK
<1> QED
  BY <1>1 DEF ForgetStarts, TypeOK, store, chosen, listed, poll

LEMMA ForgetRefusedTyped ==
  ASSUME TypeOK, ForgetRefused
  PROVE  TypeOK'
  BY DEF ForgetRefused, NotForgetting, TypeOK, store, chosen, listed, poll, Owners

LEMMA ForgetsTyped ==
  ASSUME TypeOK, Forgets
  PROVE  TypeOK'
<1>1. saved' \in SavedPairings
  BY DEF Forgets, NothingSaved, SavedPairings, Owners
<1>2. keychain' \in Owners
  BY DEF Forgets, TypeOK, Owners
<1>3. forgetting' \in [is : {"idle", "asked", "releasing", "answered"}, bridge : Owners]
  BY DEF Forgets, TypeOK
<1> QED
  BY <1>1, <1>2, <1>3 DEF Forgets, TypeOK, chosen, listed, poll

LEMMA ForgetAnsweredTyped ==
  ASSUME TypeOK, ForgetAnswered
  PROVE  TypeOK'
  BY DEF ForgetAnswered, NotForgetting, TypeOK, store, poll, Owners, Keys, Creds

LEMMA SearchTyped ==
  ASSUME TypeOK, NEW how \in {"scan", "typed"}, Search(how)
  PROVE  TypeOK'
  BY BoundsAreNumbers DEF Search, Asks, TypeOK, store, chosen, listed, poll, Runs

LEMMA AdoptedTyped ==
  ASSUME TypeOK, NEW b \in Bridges, NEW k \in Keys, NEW moved, NEW c \in Creds,
         Adopts(b, k, moved, c)
  PROVE  /\ checks' \subseteq [at : {"key", "areas"}, bridge : Bridges, key : Keys, sent : Owners]
         /\ cred' \in Creds /\ validating' \in BOOLEAN /\ saved' \in SavedPairings
<1>1. saved' \in SavedPairings
  BY DEF Adopts, TypeOK, SavedPairings, Owners
<1>2. CASE moved \/ unreachable
  <2>1. StartsCheck(b, k, keychain, c) /\ b \in Owners /\ keychain \in Owners
    BY <1>2 DEF Adopts, TypeOK, Owners
  <2> QED
    BY <1>1, <2>1, StartedCheckTyped
<1>3. CASE ~(moved \/ unreachable)
  BY <1>1, <1>3 DEF Adopts, TypeOK
<1> QED
  BY <1>2, <1>3

LEMMA ScannedTyped ==
  ASSUME TypeOK, NEW found \in SUBSET Bridges, NEW moved \in BOOLEAN, Scanned(found, moved)
  PROVE  TypeOK'
<1> DEFINE known == sel \in bridges /\ sel \in found
<1>1. /\ checks' \subseteq [at : {"key", "areas"}, bridge : Bridges, key : Keys, sent : Owners]
      /\ cred' \in Creds /\ validating' \in BOOLEAN /\ saved' \in SavedPairings
  <2>1. CASE known
    <3>1. Adopts(sel, key, moved, cred) /\ sel \in Bridges /\ key \in Keys /\ cred \in Creds
      BY <2>1 DEF Scanned, TypeOK
    <3> QED
      BY <3>1, AdoptedTyped
  <2>2. CASE ~known
    BY <2>2 DEF Scanned, TypeOK
  <2> QED
    BY <2>1, <2>2
<1>2. sel' \in Owners
  <2>1. Cardinality(found) = 1 => found # {}
    BY FS_EmptySet
  <2> QED
    BY <2>1 DEF Scanned, TypeOK, Owners
<1> QED
  BY <1>1, <1>2 DEF Scanned, TypeOK, listed, poll

LEMMA TypedTyped ==
  ASSUME TypeOK, NEW b \in Bridges, NEW moved \in BOOLEAN, Typed(b, moved)
  PROVE  TypeOK'
<1>1. /\ checks' \subseteq [at : {"key", "areas"}, bridge : Bridges, key : Keys, sent : Owners]
      /\ cred' \in Creds /\ validating' \in BOOLEAN /\ saved' \in SavedPairings
      /\ key' \in Keys /\ unreachable' \in BOOLEAN
  <2>1. CASE sel \in bridges /\ b = sel
    <3>1. Adopts(b, key, moved, cred) /\ UNCHANGED <<key, unreachable>>
      BY <2>1 DEF Typed
    <3>2. key \in Keys /\ cred \in Creds /\ unreachable \in BOOLEAN
      BY DEF TypeOK
    <3> QED
      BY <3>1, <3>2, AdoptedTyped
  <2>2. CASE sel \in bridges /\ b # sel
    BY <2>2 DEF Typed, TypeOK, Keys, Creds
  <2>3. CASE sel \notin bridges
    BY <2>3 DEF Typed, TypeOK, SavedPairings, Owners
  <2> QED
    BY <2>1, <2>2, <2>3
<1> QED
  BY <1>1 DEF Typed, TypeOK, listed, poll, Owners

LEMMA SearchFailsTyped ==
  ASSUME TypeOK, SearchFails
  PROVE  TypeOK'
  BY DEF SearchFails, TypeOK, store, chosen, listed, poll


LEMMA NextIsTyped ==
  ASSUME TypeOK, [Next]_vars
  PROVE  TypeOK'
<1>1. CASE UserAsks
  BY <1>1, PairTyped, SelectAreaTyped, SearchTyped, CancelTyped, AskForgetTyped, RecheckTyped,
     RefreshAreasTyped DEF UserAsks
<1>2. CASE Boot
  BY <1>2, BootLoadsTyped, BootMigratesTyped DEF Boot
<1>3. CASE PollAgain
  BY <1>3, PollAgainTyped
<1>4. CASE SearchReturns
  BY <1>4, ScannedTyped, TypedTyped, SearchFailsTyped DEF SearchReturns
<1>5. CASE ForgetRuns \/ ForgetAnswered
  BY <1>5, ForgetStartsTyped, ForgetRefusedTyped, ForgetsTyped, ForgetAnsweredTyped DEF ForgetRuns
<1>6. CASE \E r \in Runs : PairingAnswered(r)
  BY <1>6, LinkButtonAwaitedTyped, KeyIssuedTyped, PairingFailsTyped DEF PairingAnswered
<1>7. CASE \E c \in checks : CheckReturns(c)
  BY <1>7, CheckAnsweredTyped, CheckListedTyped DEF CheckReturns
<1>8. CASE \E l \in lists : ListReturns(l)
  BY <1>8, AreasListedTyped, ListingFailsTyped DEF ListReturns
<1>9. CASE UNCHANGED vars
  BY <1>9 DEF vars, store, chosen, listed, poll, TypeOK
<1> QED
  BY <1>1, <1>2, <1>3, <1>4, <1>5, <1>6, <1>7, <1>8, <1>9 DEF Next

\* Every variable keeps its type, for any bridges, areas, saved pairings and bounds; a pairing
\* being moved to the keychain is one with a key (initialize).
THEOREM TypesHold == Spec => []TypeOK
<1>1. TypeOK /\ [Next]_vars => TypeOK'
  BY NextIsTyped
<1> QED
  BY InitIsTyped, <1>1, PTL DEF Spec
-----------------------------------------------------------------------------
(* One running poll per pairing *)

\* A step that leaves the run, its request and timer, and what the user asked alone.
LEMMA PollUntouched ==
  ASSUME PairingIsPolled, UNCHANGED <<run, pairing, timer, request, asked>>
  PROVE  PairingIsPolled'
  BY DEF PairingIsPolled

\* A run that is stopped leaves none behind.
LEMMA PollStopped ==
  ASSUME TypeOK, PairingIsPolled, run < MaxCalls, StopPairingPoll, UNCHANGED request
  PROVE  PairingIsPolled'
<1>1. run \in Nat /\ run + 1 \in Runs
  BY BoundsAreNumbers DEF TypeOK, Runs
<1>2. request[run + 1] = NoBridge
  BY <1>1 DEF PairingIsPolled
<1>3. \A r \in Runs : r > run + 1 => request[r] = NoBridge
  BY <1>1 DEF PairingIsPolled, Runs
<1> QED
  BY <1>2, <1>3 DEF StopPairingPoll, PairingIsPolled

LEMMA PairPolls ==
  ASSUME TypeOK, PairingIsPolled, NEW b \in Bridges, Pair(b)
  PROVE  PairingIsPolled'
<1>1. run \in Nat /\ run + 1 \in Runs /\ run' = run + 1
  BY BoundsAreNumbers DEF TypeOK, Runs, Pair, Asks
<1>2. request' = [request EXCEPT ![run + 1] = b] /\ request \in [Runs -> Owners]
  BY DEF Pair, TypeOK
<1>3. pairing' = b /\ timer' = NoTimer /\ asked' = b /\ b # NoBridge
  BY BridgesAreBridges DEF Pair
<1>4. request'[run'] = b
  BY <1>1, <1>2
<1>5. \A r \in Runs : r > run' => request'[r] = NoBridge
  BY <1>1, <1>2 DEF PairingIsPolled, Runs
<1> QED
  BY <1>3, <1>4, <1>5 DEF PairingIsPolled

LEMMA PollAgainPolls ==
  ASSUME TypeOK, PairingIsPolled, PollAgain
  PROVE  PairingIsPolled'
<1>1. pairing # NoBridge /\ asked = pairing /\ timer = [run |-> run, bridge |-> pairing]
  BY DEF PollAgain, PairingIsPolled
<1>2. request' = [request EXCEPT ![run] = pairing] /\ request \in [Runs -> Owners] /\ run \in Runs
  BY <1>1 DEF PollAgain, TypeOK
<1>3. request'[run] = pairing /\ (\A r \in Runs : r > run => request'[r] = NoBridge)
  BY <1>2 DEF PairingIsPolled, Runs
<1>4. timer' = NoTimer /\ UNCHANGED <<run, pairing, asked>>
  BY DEF PollAgain
<1> QED
  BY <1>1, <1>3, <1>4 DEF PairingIsPolled

\* What an answer finds: the request it takes is the running one's, or an older run's.
LEMMA AnswerOfARun ==
  ASSUME TypeOK, PairingIsPolled, NEW r \in Runs, Returns(r)
  PROVE  /\ request' = [request EXCEPT ![r] = NoBridge] /\ request'[r] = NoBridge
         /\ \A q \in Runs : q # r => request'[q] = request[q]
         /\ \A q \in Runs : q > run => request'[q] = NoBridge
         /\ r = run => /\ pairing # NoBridge /\ asked = pairing /\ request[r] = pairing
                       /\ timer = NoTimer
  BY DEF Returns, PairingIsPolled, TypeOK

LEMMA LateAnswerPolls ==
  ASSUME TypeOK, PairingIsPolled, NEW r \in Runs, Returns(r), r # run,
         UNCHANGED <<run, pairing, timer, asked>>
  PROVE  PairingIsPolled'
<1>1. run \in Runs
  BY DEF TypeOK
<1> QED
  BY <1>1, AnswerOfARun DEF PairingIsPolled

LEMMA LastAnswerPolls ==
  ASSUME TypeOK, PairingIsPolled, NEW r \in Runs, Returns(r), r = run, pairing' = NoBridge,
         UNCHANGED <<run, timer>>
  PROVE  PairingIsPolled'
  BY AnswerOfARun DEF PairingIsPolled

LEMMA AnswerPolls ==
  ASSUME TypeOK, PairingIsPolled, NEW r \in Runs, PairingAnswered(r)
  PROVE  PairingIsPolled'
<1>1. CASE LinkButtonAwaited(r)
  <2>1. Returns(r) /\ r = run /\ timer' = [run |-> r, bridge |-> request[r]]
        /\ UNCHANGED <<run, pairing, asked>>
    BY <1>1 DEF LinkButtonAwaited, Awaited
  <2> QED
    BY <2>1, AnswerOfARun DEF PairingIsPolled
<1>2. CASE KeyIssued(r)
  <2>1. CASE r = run
    <3>1. Returns(r) /\ pairing' = NoBridge /\ UNCHANGED <<run, timer>>
      BY <1>2, <2>1 DEF KeyIssued, Awaited
    <3> QED
      BY <2>1, <3>1, LastAnswerPolls
  <2>2. CASE r # run
    <3>1. Returns(r) /\ UNCHANGED <<run, pairing, timer, asked>>
      BY <1>2, <2>2 DEF KeyIssued, Awaited
    <3> QED
      BY <2>2, <3>1, LateAnswerPolls
  <2> QED
    BY <2>1, <2>2
<1>3. CASE \E answered \in BOOLEAN : PairingFails(r, answered)
  <2>1. CASE r = run
    <3>1. Returns(r) /\ pairing' = NoBridge /\ UNCHANGED <<run, timer>>
      BY <1>3, <2>1 DEF PairingFails, Awaited
    <3> QED
      BY <2>1, <3>1, LastAnswerPolls
  <2>2. CASE r # run
    <3>1. Returns(r) /\ UNCHANGED <<run, pairing, timer, asked>>
      BY <1>3, <2>2 DEF PairingFails, Awaited
    <3> QED
      BY <2>2, <3>1, LateAnswerPolls
  <2> QED
    BY <2>1, <2>2
<1> QED
  BY <1>1, <1>2, <1>3 DEF PairingAnswered

LEMMA CancelPolls ==
  ASSUME TypeOK, PairingIsPolled, Cancel
  PROVE  PairingIsPolled'
<1>1. CASE pairing # NoBridge
  <2>1. run < MaxCalls
    BY BoundsAreNumbers DEF Cancel, Asks, TypeOK, Runs
  <2>2. StopPairingPoll /\ UNCHANGED request
    BY <1>1 DEF Cancel
  <2> QED
    BY <2>1, <2>2, PollStopped
<1>2. CASE pairing = NoBridge
  BY <1>2 DEF Cancel, PairingIsPolled
<1> QED
  BY <1>1, <1>2

LEMMA AskForgetPolls ==
  ASSUME TypeOK, PairingIsPolled, AskForget
  PROVE  PairingIsPolled'
<1>1. run < MaxCalls
  BY BoundsAreNumbers DEF AskForget, Asks, TypeOK, Runs
<1> QED
  BY <1>1, PollStopped DEF AskForget

\* The steps that are not about the poll.
LEMMA OthersPoll ==
  ASSUME PairingIsPolled,
         \/ \E a \in Areas : SelectArea(a)
         \/ \E how \in {"scan", "typed"} : Search(how)
         \/ Recheck \/ RefreshAreas \/ Boot \/ SearchReturns \/ ForgetRuns \/ ForgetAnswered
         \/ \E c \in checks : CheckReturns(c)
         \/ \E l \in lists : ListReturns(l)
         \/ UNCHANGED vars
  PROVE  PairingIsPolled'
<1>1. UNCHANGED <<run, pairing, timer, request, asked>>
  <2>1. CASE (\E a \in Areas : SelectArea(a)) \/ (\E how \in {"scan", "typed"} : Search(how))
    BY <2>1 DEF SelectArea, Search, poll
  <2>2. CASE Recheck \/ RefreshAreas \/ Boot
    BY <2>2 DEF Recheck, RefreshAreas, Boot, BootLoads, BootMigrates, poll
  <2>3. CASE SearchReturns
    BY <2>3 DEF SearchReturns, Scanned, Typed, SearchFails, poll
  <2>4. CASE ForgetRuns \/ ForgetAnswered
    BY <2>4 DEF ForgetRuns, ForgetStarts, ForgetRefused, Forgets, ForgetAnswered, poll
  <2>5. CASE \E c \in checks : CheckReturns(c)
    BY <2>5 DEF CheckReturns, CheckAnswered, CheckListed, poll
  <2>6. CASE \E l \in lists : ListReturns(l)
    BY <2>6 DEF ListReturns, AreasListed, ListingFails, poll
  <2>7. CASE UNCHANGED vars
    BY <2>7 DEF vars, poll
  <2> QED
    BY <2>1, <2>2, <2>3, <2>4, <2>5, <2>6, <2>7
<1> QED
  BY <1>1, PollUntouched

LEMMA NextPolls ==
  ASSUME TypeOK, PairingIsPolled, [Next]_vars
  PROVE  PairingIsPolled'
<1>1. CASE UserAsks
  BY <1>1, PairPolls, CancelPolls, AskForgetPolls, OthersPoll DEF UserAsks
<1>2. CASE PollAgain
  BY <1>2, PollAgainPolls
<1>3. CASE \E r \in Runs : PairingAnswered(r)
  BY <1>3, AnswerPolls
<1>4. CASE ~UserAsks /\ ~PollAgain /\ ~(\E r \in Runs : PairingAnswered(r))
  BY <1>4, OthersPoll DEF Next
<1> QED
  BY <1>1, <1>2, <1>3, <1>4

\* At any time one pairing at most is being asked for, the one the user asked for last and has
\* not let go of, and it is: no interleaving of late answers, timers, Cancel and Forget makes
\* two polls or leaves one that nobody drives (pair, stopPairingPoll).
THEOREM OnePollPerPairing == Spec => []PairingIsPolled
<1>1. Init => PairingIsPolled
  BY BoundsAreNumbers DEF Init, PairingIsPolled, Runs
<1>2. TypeOK /\ PairingIsPolled /\ [Next]_vars => PairingIsPolled'
  BY NextPolls
<1> QED
  BY <1>1, <1>2, TypesHold, PTL DEF Spec

-----------------------------------------------------------------------------
(* Where a key comes from *)

LEMMA KeyComesFrom ==
  ASSUME TypeOK, PairingIsPolled, Next, key' \in Bridges, key' # key
  PROVE  \/ key' = asked
         \/ boot.is = "loading" /\ key' = saved.key
         \/ key' = setAside.key
<1>0. key' # NoBridge
  BY BridgesAreBridges
<1>1. CASE UserAsks
  BY <1>0, <1>1 DEF UserAsks, Pair, SelectArea, Search, Cancel, AskForget, Recheck, RefreshAreas,
     chosen
<1>2. CASE Boot
  BY <1>2, BridgesAreBridges DEF Boot, BootLoads, BootMigrates, SavedKey
<1>3. CASE PollAgain \/ ForgetRuns \/ ForgetAnswered
  BY <1>0, <1>3 DEF PollAgain, ForgetRuns, ForgetStarts, ForgetRefused, Forgets, ForgetAnswered,
     chosen
<1>4. CASE SearchReturns
  BY <1>0, <1>4 DEF SearchReturns, Scanned, Typed, SearchFails, chosen
<1>5. CASE \E r \in Runs : PairingAnswered(r)
  <2>1. PICK r \in Runs : PairingAnswered(r)
    BY <1>5
  <2>2. CASE LinkButtonAwaited(r) \/ (\E answered \in BOOLEAN : PairingFails(r, answered))
    BY <1>0, <2>2 DEF LinkButtonAwaited, PairingFails, chosen
  <2>3. CASE KeyIssued(r)
    <3>1. r = run /\ key' = request[r] /\ Returns(r)
      BY <2>3 DEF KeyIssued, Awaited, chosen
    <3> QED
      BY <3>1, AnswerOfARun
  <2> QED
    BY <2>1, <2>2, <2>3 DEF PairingAnswered
<1>6. CASE \E c \in checks : CheckReturns(c)
  BY <1>6 DEF CheckReturns, CheckAnswered, CheckListed
<1>7. CASE \E l \in lists : ListReturns(l)
  BY <1>7 DEF ListReturns, AreasListed, ListingFails, chosen
<1> QED
  BY <1>1, <1>2, <1>3, <1>4, <1>5, <1>6, <1>7 DEF Next

\* The hook takes a key only from the launch, from the bridge set aside or from the bridge the
\* user asked to pair and has not let go of since, however many answers are late ("its answer is
\* dropped instead of resurrecting a pairing the user walked away from").
THEOREM LateKeysAreDropped == Spec => OnlyAskedPairingsLand
<1> DEFINE Lands == key' \in Bridges /\ key' # key =>
                      \/ key' = asked
                      \/ boot.is = "loading" /\ key' = saved.key
                      \/ key' = setAside.key
<1>1. TypeOK /\ PairingIsPolled /\ [Next]_vars => [Lands]_vars
  BY KeyComesFrom
<1> QED
  BY <1>1, TypesHold, OnePollPerPairing, PTL DEF Spec, OnlyAskedPairingsLand
======================================================================================
