------------------------------- MODULE MCHueOnboarding -------------------------------
(* Small instances of HueOnboarding for TLC. *)
EXTENDS HueOnboarding, TLC

CONSTANTS b1, b2, a1, a2

TwoBridges == {b1, b2}
OneEach == {a1, a2}
HomeOf == (a1 :> b1) @@ (a2 :> b2)

\* What earlier sessions left: nothing, a pairing in the keychain, and one of the time
\* before it.
PairedWith(b, backend, a, status) ==
  [bridge |-> b, key |-> IF backend = "plaintext" THEN b ELSE NoBridge, backend |-> backend,
   area |-> a, status |-> status]
FreshStart == {NothingSaved}
FromKeychain == {PairedWith(b1, "keychain", a1, "valid")}
FromPlaintext == {PairedWith(b1, "plaintext", a1, "valid")}
AnyLaunch == FreshStart \cup FromKeychain \cup FromPlaintext
AnyPaired == FromKeychain \cup FromPlaintext

\* The user acts after the launch has read what was saved.
ActsAfterLoad == calls' # calls => boot.is # "loading"
NothingTyped == scan' # "typed"
NothingScanned == scan' # "scan"
=====================================================================================
