-------------------------------- MODULE HueOnboarding --------------------------------
(***************************************************************************)
(* The Devices view's side of a Hue pairing: finding a bridge, pairing it, *)
(* checking its key, listing its areas, letting go of it and forgetting it *)
(* (features/hue/state/useHueOnboardingCore.ts), with what the commands it *)
(* calls do to the saved pairing and to the keychain                       *)
(* (commands/hue_onboarding/pairing.rs, commands/hue/credential_store.rs,  *)
(* commands/hue/forget.rs).                                                *)
(*                                                                         *)
(* The hook's handlers are not serialised: each await lets any other run,  *)
(* and an answer acts on the state it meets. A step here is a handler from *)
(* its start or an await to the next. A save is a step of the saved state: *)
(* the order of one window's saves is ShellState's subject. Addresses are  *)
(* kept as whether an answer found the selected bridge somewhere new.      *)
(* Readiness checks, what is displayed beside the selection, hueOnboarding- *)
(* Step and leaving the Devices view are left out. An operator named X_Y   *)
(* is X with a fault Y put in; no action uses it.                          *)
(***************************************************************************)
EXTENDS Naturals, FiniteSets

CONSTANTS
  Bridges,        \* the bridges on the network
  Areas,          \* their entertainment areas
  BridgeOf,       \* whose each area is
  Launches,       \* the pairings saved at launch
  MaxPolls,       \* bound: times one pairing asks again for the link button
  MaxCalls,       \* bound: what the user asks for
  StoreMayFail    \* the keychain may refuse a write or a delete

NoBridge == "no bridge"
NoArea   == "no area"
\* The credentials of a launch from the keychain: Rust resolves the empty names.
Blank    == "blank"

Keys   == Bridges \cup {NoBridge, Blank}
Owners == Bridges \cup {NoBridge}
Runs   == 0..MaxCalls
Creds  == {"unknown", "valid", "repair"}

SavedPairings == [bridge : Owners, key : Owners, backend : {"none", "plaintext", "keychain"},
                  area : Areas \cup {NoArea}, status : {"none", "valid", "repair"}]
NothingSaved == [bridge |-> NoBridge, key |-> NoBridge, backend |-> "none",
                 area |-> NoArea, status |-> "none"]

ASSUME BridgesAreBridges == Bridges \cap {NoBridge, Blank} = {} /\ NoArea \notin Areas
ASSUME AreasAreOfBridges == BridgeOf \in [Areas -> Bridges]
ASSUME LaunchesAreSaved == Launches \subseteq SavedPairings
ASSUME BoundsAreNumbers == {MaxPolls, MaxCalls} \subseteq Nat /\ StoreMayFail \in BOOLEAN

VARIABLES
  saved,       \* of the shell state: lastHueBridge, hueAppKey, credentialStorageBackend,
               \* lastHueAreaId, hueCredentialStatus
  keychain,    \* whose pair the keychain holds
  bridges, sel, key, cred, unreachable, rows, area,   \* HueOnboardingState: bridges,
               \* selectedBridgeId, credentials (by the bridge that issued them),
               \* credentialState, bridgeUnreachable, areaGroups, selectedAreaId
  isPairing, validating, loading,   \* isPairing, isValidatingCredential, isLoadingAreas
  setAside,    \* setAsideRef
  run, pairing, timer,   \* pairingRunRef, pairingBridgeIdRef, pairingTimerRef
  request,     \* per run: the bridge a pairing request is out to
  polls,       \* how often this run has asked (stands for its deadline)
  boot,        \* initialize
  checks,      \* validateBridge, at one of its two awaits
  lists,       \* refreshAreasWith, at its await
  scan,        \* discover or submitManualIp, at its await (isDiscovering)
  forgetting,  \* forgetBridge and forget_hue_bridge
  asked,       \* history: the bridge the user asked to pair and has not let go of
  calls

store  == <<saved, keychain>>
chosen == <<bridges, sel, key, cred, unreachable>>
listed == <<rows, area, loading>>
poll   == <<run, pairing, timer, request, polls>>
vars == <<store, chosen, listed, isPairing, validating, setAside, poll, boot, checks, lists,
          scan, forgetting, asked, calls>>

Boots == [is : {"loading", "migrating", "done"}, bridge : Owners, key : Keys]
NoTimer == [run |-> 0, bridge |-> NoBridge]
NothingAside == [bridge |-> NoBridge, key |-> NoBridge, cred |-> "unknown"]
NotForgetting == [is |-> "idle", bridge |-> NoBridge]

\* isPaired and savedCredentials of initialize.
IsPaired == saved.key # NoBridge \/ saved.backend = "keychain"
SavedKey == IF ~IsPaired THEN NoBridge ELSE IF saved.key # NoBridge THEN saved.key ELSE Blank

\* effective_hue_app_key: the keychain's key before the one the window sent.
Resolved(chain, k) == IF chain # NoBridge THEN chain ELSE IF k = Blank THEN NoBridge ELSE k

AreasOf(b) == {a \in Areas : BridgeOf[a] = b}
FirstOf(as) == IF as = {} THEN NoArea ELSE CHOOSE a \in as : TRUE

Init ==
  /\ saved \in Launches
  /\ keychain = IF saved.backend = "keychain" THEN saved.bridge ELSE NoBridge
  /\ bridges = {} /\ sel = NoBridge /\ key = NoBridge /\ cred = "unknown"
  /\ unreachable = FALSE /\ rows = {} /\ area = NoArea /\ loading = FALSE
  /\ isPairing = FALSE /\ validating = FALSE /\ setAside = NothingAside
  /\ run = 0 /\ pairing = NoBridge /\ timer = NoTimer /\ polls = 0
  /\ request = [r \in Runs |-> NoBridge]
  /\ boot = [is |-> "loading", bridge |-> NoBridge, key |-> NoBridge]
  /\ checks = {} /\ lists = {} /\ scan = "no" /\ forgetting = NotForgetting
  /\ asked = NoBridge /\ calls = 0

Asks == calls < MaxCalls /\ calls' = calls + 1

-----------------------------------------------------------------------------
(* Checking the key of a bridge, then listing its areas *)

Check(at, b, k, chain) == [at |-> at, bridge |-> b, key |-> k, sent |-> Resolved(chain, k)]

\* validateBridge up to its first await, for a state that becomes `c` otherwise.
StartsCheck(b, k, chain, c) ==
  IF b = NoBridge \/ k = NoBridge
  THEN cred' = c /\ UNCHANGED <<checks, validating>>
  ELSE /\ checks' = checks \cup {Check("key", b, k, chain)}
       /\ cred' = "unknown" /\ validating' = TRUE

\* The bridge's answer about the key: it takes only its own, and may have revoked it.
CheckAnswered(c, answer) ==
  /\ c.at = "key" /\ (answer = "valid" => c.sent = c.bridge)
  /\ validating' = FALSE
  /\ cred' = IF answer = "valid" THEN "valid" ELSE "repair"
  /\ unreachable' = (answer \in {"unreachable", "thrown"})
  /\ saved' = IF answer = "thrown" THEN saved
              ELSE [saved EXCEPT !.status = IF answer = "valid" THEN "valid" ELSE "repair"]
  /\ checks' = (checks \ {c}) \cup (IF answer = "valid"
                                    THEN {Check("areas", c.bridge, c.key, keychain)} ELSE {})
  /\ UNCHANGED <<keychain, bridges, sel, key, listed, isPairing, setAside, poll, boot, lists,
                 scan, forgetting, asked, calls>>

\* Its areas. A listing that failed comes back empty, and its code is not read.
CheckListed(c, answer) ==
  /\ c.at = "areas" /\ (answer = "areas" => c.sent = c.bridge)
  /\ checks' = checks \ {c}
  /\ IF answer = "thrown"
     THEN cred' = "repair" /\ unreachable' = TRUE /\ validating' = FALSE /\ UNCHANGED rows
     ELSE /\ rows' = IF answer = "areas" THEN AreasOf(c.bridge) ELSE {}
          /\ UNCHANGED <<cred, unreachable, validating>>
  /\ UNCHANGED <<store, bridges, sel, key, area, loading, isPairing, setAside, poll, boot,
                 lists, scan, forgetting, asked, calls>>

\* "Retry" of a bridge that did not answer (recheckBridge).
Recheck ==
  /\ Asks /\ unreachable /\ ~validating /\ sel \in bridges /\ key # NoBridge
  /\ StartsCheck(sel, key, keychain, cred)
  /\ UNCHANGED <<store, bridges, sel, key, unreachable, listed, isPairing, setAside, poll, boot,
                 lists, scan, forgetting, asked>>

-----------------------------------------------------------------------------
(* The launch: what was saved, the one-time move to the keychain, a check *)

BootLoads ==
  /\ boot.is = "loading"
  /\ bridges' = bridges \cup ({saved.bridge} \ {NoBridge})
  /\ sel' = IF saved.bridge # NoBridge THEN saved.bridge ELSE sel
  /\ area' = IF saved.area # NoArea THEN saved.area ELSE area
  /\ key' = SavedKey
  /\ LET read == IF IsPaired /\ saved.status # "none" THEN saved.status ELSE "unknown"
         moves == saved.backend # "keychain" /\ saved.key # NoBridge
     IN /\ boot' = [is |-> IF moves THEN "migrating" ELSE "done",
                    bridge |-> saved.bridge, key |-> SavedKey]
        /\ IF moves THEN cred' = read /\ UNCHANGED <<checks, validating>>
           ELSE StartsCheck(saved.bridge, SavedKey, keychain, read)
  /\ UNCHANGED <<store, unreachable, rows, loading, isPairing, setAside, poll, lists, scan,
                 forgetting, asked, calls>>

\* What the keychain holds after a write of b's pair: refused at its first half it
\* keeps what it had, later it is rolled back to nothing.
Written(b, ok) == IF ok THEN {b} ELSE {keychain, NoBridge}
Writes == IF StoreMayFail THEN BOOLEAN ELSE {TRUE}

BootMigrates ==
  /\ boot.is = "migrating" /\ boot' = [boot EXCEPT !.is = "done"]
  /\ \E ok \in Writes :
       /\ keychain' \in Written(boot.key, ok)
       /\ saved' = IF ok THEN [saved EXCEPT !.key = NoBridge, !.backend = "keychain"] ELSE saved
  /\ StartsCheck(boot.bridge, boot.key, keychain', cred)
  /\ UNCHANGED <<bridges, sel, key, unreachable, listed, isPairing, setAside, poll, lists,
                 scan, forgetting, asked, calls>>
-----------------------------------------------------------------------------
(* The areas *)

\* refreshAreasWith up to its await.
StartsList(b, k, chain) ==
  /\ lists' = lists \cup {[bridge |-> b, sent |-> Resolved(chain, k)]}
  /\ loading' = TRUE

\* "Refresh areas", and opening the list of them.
RefreshAreas ==
  /\ Asks /\ sel \in bridges /\ cred = "valid" /\ ~loading /\ key # NoBridge
  /\ StartsList(sel, key, keychain)
  /\ UNCHANGED <<store, chosen, rows, area, isPairing, validating, setAside, poll, boot,
                 checks, scan, forgetting, asked>>

\* The bridge answered with its areas, or with none: the selection follows.
AreasListed(l, fresh) ==
  /\ l.sent = l.bridge /\ fresh \in {AreasOf(l.bridge), {}}
  /\ lists' = lists \ {l} /\ loading' = FALSE /\ rows' = fresh
  /\ area' = IF area \in fresh THEN area ELSE FirstOf(fresh)
  /\ saved' = [saved EXCEPT !.area = area']
  /\ UNCHANGED <<keychain, chosen, isPairing, validating, setAside, poll, boot, checks, scan,
                 forgetting, asked, calls>>

\* It refused the key, or nobody answered: rows and selection stay.
ListingFails(l, refused) ==
  /\ lists' = lists \ {l} /\ loading' = FALSE
  /\ cred' = IF refused THEN "repair" ELSE cred
  /\ UNCHANGED <<store, bridges, sel, key, unreachable, rows, area, isPairing, validating,
                 setAside, poll, boot, checks, scan, forgetting, asked, calls>>

\* A row of the list (useHueAreaChoice.pick, selectArea).
SelectArea(a) ==
  /\ Asks /\ sel \in bridges /\ cred = "valid" /\ a \in rows /\ a # area
  /\ area' = a /\ saved' = [saved EXCEPT !.area = a]
  /\ UNCHANGED <<keychain, chosen, rows, loading, isPairing, validating, setAside, poll, boot,
                 checks, lists, scan, forgetting, asked>>

-----------------------------------------------------------------------------
(* Pairing *)

\* stopPairingPoll: an answer of an older run is dropped.
StopPairingPoll_TimerLeft == run' = run + 1 /\ pairing' = NoBridge /\ UNCHANGED timer
StopPairingPoll == run' = run + 1 /\ pairing' = NoBridge /\ timer' = NoTimer

\* Pairing another bridge than the one in use sets that one aside until it lands. The card
\* does not offer it while the key of its bridge is being checked.
Pair(b) ==
  /\ Asks /\ b \in bridges /\ (b = sel => key = NoBridge \/ cred # "unknown")
  /\ setAside' = IF b # sel /\ key # NoBridge
                 THEN [bridge |-> sel, key |-> key, cred |-> cred] ELSE setAside
  /\ sel' = b /\ isPairing' = TRUE
  /\ IF b = sel THEN UNCHANGED <<key, cred, unreachable>>
     ELSE key' = NoBridge /\ cred' = "unknown" /\ unreachable' = FALSE
  /\ run' = run + 1 /\ pairing' = b /\ timer' = NoTimer /\ polls' = 0
  /\ request' = [request EXCEPT ![run + 1] = b]
  /\ asked' = b
  /\ UNCHANGED <<store, bridges, listed, validating, boot, checks, lists, scan, forgetting>>

\* The timer asks again.
PollAgain ==
  /\ timer # NoTimer /\ timer' = NoTimer
  /\ request' = [request EXCEPT ![timer.run] = timer.bridge]
  /\ UNCHANGED <<store, chosen, listed, isPairing, validating, setAside, run, pairing, polls,
                 boot, checks, lists, scan, forgetting, asked, calls>>

Returns(r) == request[r] # NoBridge /\ request' = [request EXCEPT ![r] = NoBridge]

\* The run an answer belongs to is still the one the user waits for.
Awaited_Any(r) == TRUE
Awaited(r) == r = run

\* 101 before the deadline: the link button was not pressed yet.
MayPoll_Always == TRUE
MayPoll == polls < MaxPolls
LinkButtonAwaited(r) ==
  /\ Returns(r) /\ Awaited(r) /\ MayPoll
  /\ polls' = IF polls < MaxPolls THEN polls + 1 ELSE polls
  /\ timer' = [run |-> r, bridge |-> request[r]]
  /\ cred' = "repair" /\ unreachable' = FALSE /\ isPairing' = TRUE
  /\ UNCHANGED <<store, bridges, sel, key, listed, validating, setAside, run, pairing, boot,
                 checks, lists, scan, forgetting, asked, calls>>

\* The bridge issued a key: Rust keeps it, whoever still waits for it.
KeyIssued(r) ==
  /\ Returns(r)
  /\ \E ok \in Writes :
       /\ keychain' \in Written(request[r], ok)
       /\ IF ~Awaited(r)
          THEN UNCHANGED <<saved, chosen, listed, isPairing, setAside, pairing, lists>>
          ELSE /\ pairing' = NoBridge /\ isPairing' = FALSE /\ setAside' = NothingAside
               /\ key' = request[r] /\ cred' = "valid" /\ unreachable' = FALSE
               /\ saved' = [saved EXCEPT !.bridge = request[r], !.status = "valid",
                              !.key = IF ok THEN NoBridge ELSE request[r],
                              !.backend = IF ok THEN "keychain" ELSE "plaintext"]
               /\ StartsList(request[r], request[r], keychain')
               /\ UNCHANGED <<bridges, sel, rows, area>>
  /\ UNCHANGED <<validating, run, timer, polls, boot, checks, scan, forgetting, asked, calls>>

\* Anything else ends the run: no key, or no answer at all (`answered` is false) which
\* leaves the credentials alone.
PairingFails(r, answered) ==
  /\ Returns(r)
  /\ IF ~Awaited(r) THEN UNCHANGED <<chosen, isPairing, pairing>>
     ELSE /\ pairing' = NoBridge /\ isPairing' = FALSE /\ cred' = "repair"
          /\ key' = IF answered THEN NoBridge ELSE key
          /\ unreachable' \in (IF answered THEN {FALSE, unreachable} ELSE {unreachable})
          /\ UNCHANGED <<bridges, sel>>
  /\ UNCHANGED <<store, listed, validating, setAside, run, timer, polls, boot, checks, lists,
                 scan, forgetting, asked, calls>>

\* "Cancel", and "Forget" of a bridge that has no key (selectBridge with null).
Cancel ==
  /\ Asks /\ sel # NoBridge /\ (key = NoBridge \/ (isPairing /\ ~unreachable))
  /\ IF pairing # NoBridge THEN StopPairingPoll ELSE UNCHANGED <<run, pairing, timer>>
  /\ setAside' = NothingAside
  /\ unreachable' = FALSE
  /\ IF setAside # NothingAside
     THEN /\ sel' = setAside.bridge /\ key' = setAside.key /\ cred' = setAside.cred
          /\ isPairing' = FALSE
     ELSE /\ sel' = NoBridge /\ UNCHANGED <<key, cred>>
          /\ isPairing' = (isPairing /\ pairing = NoBridge)
  /\ asked' = NoBridge
  /\ UNCHANGED <<store, bridges, listed, validating, request, polls, boot, checks, lists,
                 scan, forgetting>>
-----------------------------------------------------------------------------
(* Forgetting *)

\* The card offers it for a bridge with a key, after a confirmation.
AskForget ==
  /\ Asks /\ forgetting = NotForgetting /\ sel # NoBridge /\ key # NoBridge
  /\ StopPairingPoll
  /\ forgetting' = [is |-> "asked", bridge |-> sel]
  /\ asked' = NoBridge
  /\ UNCHANGED <<store, chosen, listed, isPairing, validating, setAside, request, polls, boot,
                 checks, lists, scan>>

\* forget_hue_bridge is refused for another bridge than the saved one. It reads the saved one
\* once, then takes Hue out of the lighting, which may refuse it too.
ForgetStarts ==
  /\ forgetting.is = "asked" /\ saved.bridge \in {NoBridge, forgetting.bridge}
  /\ forgetting' = [forgetting EXCEPT !.is = "releasing"]
  /\ UNCHANGED <<store, chosen, listed, isPairing, validating, setAside, poll, boot, checks,
                 lists, scan, asked, calls>>

ForgetRefused ==
  /\ forgetting.is \in {"asked", "releasing"} /\ forgetting' = NotForgetting
  /\ UNCHANGED <<store, chosen, listed, isPairing, validating, setAside, poll, boot, checks,
                 lists, scan, asked, calls>>

\* HUE_BRIDGE_STATE_KEYS go, and the pair if it is this bridge's.
Forgets ==
  /\ forgetting.is = "releasing"
  /\ saved' = NothingSaved
  /\ \E ok \in Writes :
       keychain' = IF ok /\ keychain = forgetting.bridge THEN NoBridge ELSE keychain
  /\ forgetting' = [forgetting EXCEPT !.is = "answered"]
  /\ UNCHANGED <<chosen, listed, isPairing, validating, setAside, poll, boot, checks, lists,
                 scan, asked, calls>>

ForgetAnswered ==
  /\ forgetting.is = "answered" /\ forgetting' = NotForgetting
  /\ bridges' = bridges \ {forgetting.bridge}
  /\ sel' = NoBridge /\ key' = NoBridge /\ cred' = "unknown" /\ unreachable' = FALSE
  /\ rows' = {} /\ area' = NoArea /\ isPairing' = FALSE
  /\ UNCHANGED <<store, loading, validating, setAside, poll, boot, checks, lists, scan, asked,
                 calls>>

-----------------------------------------------------------------------------
(* Finding a bridge: a scan, a typed address *)

OffersSearch == scan = "no" /\ (sel = NoBridge \/ unreachable)

Search(how) ==
  /\ Asks /\ OffersSearch /\ scan' = how
  /\ UNCHANGED <<store, chosen, listed, isPairing, validating, setAside, poll, boot, checks,
                 lists, forgetting, asked>>

\* adoptBridgeAddress: the selected bridge was found, `moved` or where it was.
Adopts(b, k, moved, c) ==
  /\ saved' = IF moved THEN [saved EXCEPT !.bridge = b] ELSE saved
  /\ IF moved \/ unreachable THEN StartsCheck(b, k, keychain, c)
     ELSE cred' = c /\ UNCHANGED <<checks, validating>>

\* A scan selects a bridge only when none is selected and it found one.
Scanned(found, moved) ==
  /\ scan = "scan" /\ scan' = "no"
  /\ LET known == sel \in bridges /\ sel \in found
     IN /\ moved => known
        /\ bridges' = bridges \cup found
        /\ sel' = IF sel \in bridges' THEN sel
                  ELSE IF Cardinality(found) = 1 THEN CHOOSE b \in found : TRUE ELSE NoBridge
        /\ IF known THEN Adopts(sel, key, moved, cred)
           ELSE UNCHANGED <<saved, cred, checks, validating>>
  /\ UNCHANGED <<keychain, key, unreachable, listed, isPairing, setAside, poll, boot, lists,
                 forgetting, asked, calls>>

\* The typed address is that of bridge b: the selected one, the first one, or another,
\* which starts unpaired.
Typed(b, moved) ==
  /\ scan = "typed" /\ scan' = "no"
  /\ bridges' = bridges \cup {b} /\ sel' = b
  /\ moved => b = sel /\ sel \in bridges
  /\ \/ /\ sel \in bridges /\ b = sel
        /\ Adopts(b, key, moved, cred) /\ UNCHANGED <<key, unreachable>>
     \/ /\ sel \in bridges /\ b # sel
        /\ key' = NoBridge /\ cred' = "unknown" /\ unreachable' = FALSE
        /\ UNCHANGED <<saved, checks, validating>>
     \/ /\ sel \notin bridges
        /\ saved' = [saved EXCEPT !.bridge = b]
        /\ UNCHANGED <<key, cred, unreachable, checks, validating>>
  /\ UNCHANGED <<keychain, listed, isPairing, setAside, poll, boot, lists, forgetting, asked,
                 calls>>

SearchFails ==
  /\ scan # "no" /\ scan' = "no"
  /\ UNCHANGED <<store, chosen, listed, isPairing, validating, setAside, poll, boot, checks,
                 lists, forgetting, asked, calls>>

-----------------------------------------------------------------------------

PairingAnswered(r) == \/ LinkButtonAwaited(r) \/ KeyIssued(r)
                      \/ \E answered \in BOOLEAN : PairingFails(r, answered)
CheckReturns(c) == \/ \E answer \in {"valid", "invalid", "unreachable", "thrown"} :
                        CheckAnswered(c, answer)
                   \/ \E answer \in {"areas", "none", "thrown"} : CheckListed(c, answer)
ListReturns(l) == \/ \E fresh \in SUBSET Areas : AreasListed(l, fresh)
                  \/ \E refused \in BOOLEAN : ListingFails(l, refused)
SearchReturns == \/ \E found \in SUBSET Bridges, moved \in BOOLEAN : Scanned(found, moved)
                 \/ \E b \in Bridges, moved \in BOOLEAN : Typed(b, moved)
                 \/ SearchFails
ForgetRuns == ForgetStarts \/ ForgetRefused \/ Forgets
Boot == BootLoads \/ BootMigrates

UserAsks == \/ \E b \in Bridges : Pair(b)
            \/ \E a \in Areas : SelectArea(a)
            \/ \E how \in {"scan", "typed"} : Search(how)
            \/ Cancel \/ AskForget \/ Recheck \/ RefreshAreas

Next == \/ UserAsks \/ Boot \/ PollAgain \/ SearchReturns \/ ForgetRuns \/ ForgetAnswered
        \/ \E r \in Runs : PairingAnswered(r)
        \/ \E c \in checks : CheckReturns(c)
        \/ \E l \in lists : ListReturns(l)

Spec == Init /\ [][Next]_vars

\* Every command answers and every timer fires. The user has to do nothing.
Fairness ==
  /\ WF_vars(Boot) /\ WF_vars(PollAgain) /\ WF_vars(SearchReturns)
  /\ WF_vars(ForgetRuns) /\ WF_vars(ForgetAnswered)
  /\ \A r \in Runs : WF_vars(PairingAnswered(r))
  /\ WF_vars(\E c \in checks : CheckReturns(c)) /\ WF_vars(\E l \in lists : ListReturns(l))

FairSpec == Spec /\ Fairness

-----------------------------------------------------------------------------

TypeOK ==
  /\ saved \in SavedPairings /\ keychain \in Owners
  /\ bridges \subseteq Bridges /\ sel \in Owners /\ key \in Keys /\ cred \in Creds
  /\ unreachable \in BOOLEAN /\ rows \subseteq Areas /\ area \in Areas \cup {NoArea}
  /\ {isPairing, validating, loading} \subseteq BOOLEAN
  /\ setAside \in [bridge : Owners, key : Keys, cred : Creds]
  /\ run \in Runs /\ pairing \in Owners /\ polls \in 0..MaxPolls
  /\ timer \in [run : Runs, bridge : Owners] /\ request \in [Runs -> Owners]
  /\ boot \in Boots /\ (boot.is = "migrating" => boot.key \in Bridges)
  /\ checks \subseteq [at : {"key", "areas"}, bridge : Bridges, key : Keys, sent : Owners]
  /\ lists \subseteq [bridge : Bridges, sent : Owners]
  /\ scan \in {"no", "scan", "typed"}
  /\ forgetting \in [is : {"idle", "asked", "releasing", "answered"}, bridge : Owners]
  /\ asked \in Owners /\ calls \in 0..MaxCalls /\ run <= calls

\* A pairing the hook takes for running is the one the user asked for and is being asked for,
\* once: its request is out or its timer is set. A run that was stopped has neither, so it
\* cannot come back (pair, stopPairingPoll).
PairingIsPolled ==
  /\ pairing # NoBridge =>
       /\ asked = pairing
       /\ \/ request[run] = pairing /\ timer = NoTimer
          \/ request[run] = NoBridge /\ timer = [run |-> run, bridge |-> pairing]
  /\ pairing = NoBridge => request[run] = NoBridge /\ timer = NoTimer
  /\ \A r \in Runs : r > run => request[r] = NoBridge

\* A key comes to the hook only from the launch, from the bridge set aside, or from the
\* bridge the user asked to pair and has not let go of since: no late answer brings one
\* (useHueOnboardingCore.ts:499).
OnlyAskedPairingsLand ==
  [][key' \in Bridges /\ key' # key =>
       \/ key' = asked
       \/ boot.is = "loading" /\ key' = saved.key
       \/ key' = setAside.key]_vars

\* Nothing waits for ever: a pairing ends, at its deadline at the latest, and so do a
\* check of the key, a listing and a search, whatever else was asked for meanwhile.
WaitsEnd ==
  /\ pairing # NoBridge ~> pairing = NoBridge
  /\ validating ~> ~validating
  /\ loading ~> ~loading
  /\ scan # "no" ~> scan = "no"
-----------------------------------------------------------------------------
(* What the code and its docs promise and the model breaks (README, section 7) *)

\* Nothing is kept of a bridge that was forgotten (hue.md: "removes everything the app keeps
\* about it").
ForgottenIsGone == saved.bridge = NoBridge => saved = NothingSaved

\* A forget leaves the pairing of another bridge alone (forget.rs: the saved bridge is a
\* different one, nothing was changed).
ForgetKeepsOthers ==
  [][forgetting.is = "releasing" /\ forgetting'.is = "answered" =>
       saved.bridge \in {NoBridge, forgetting.bridge}]_vars

\* The hook holds a key only for the bridge that issued it (hue.md: "the pair stays with
\* the bridge that issued it").
KeyIsItsBridges == key \in Bridges /\ sel # NoBridge => key = sel

\* A bridge shown as paired has its key saved, the one a pairing set aside included
\* (useHueOnboardingCore.ts: "key and all: the key is still saved").
PairedIsSaved == cred = "valid" /\ key # NoBridge /\ sel # NoBridge /\ sel = saved.bridge =>
                   Resolved(keychain, key) = sel

\* A bridge with a key is not checked for ever: the card shows a check with no Retry
\* while the state of the key is unknown.
ChecksSettle == cred = "unknown" /\ key # NoBridge ~> cred # "unknown" \/ key = NoBridge

\* A pairing that was shown ends being shown.
PairingEnds == isPairing ~> ~isPairing
=====================================================================================
