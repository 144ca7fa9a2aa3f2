---------------------------- MODULE MCLightingTransaction ----------------------------
(* Small instances of LightingTransaction for TLC. *)
EXTENDS LightingTransaction, TLC

CallSymmetry == Permutations(Calls)

Ask(origin, mode, targets) == [origin |-> origin, mode |-> mode, targets |-> targets]

\* What the windows and the tray send: a mode, a selection, or both.
Choices == {Ask("user", m, t) : m \in LitKinds, t \in {{"usb"}, Outputs}}
             \cup {Ask("user", "Off", Keep), Ask("user", NoMode, {"usb"}),
                   Ask("user", NoMode, Outputs)}
Away == {Ask("leave", NoMode, Keep), Ask("return", NoMode, Keep)}
Settings == {Ask("settings", NoMode, Keep)}
Releases == {Ask("release", NoMode, Keep)}
Unplugs == {Ask("unplug", NoMode, {}), Ask("unplug", NoMode, {"hue"})}
Leases == {Ask("lease", NoMode, Keep), Ask("giveBack", NoMode, Keep)}

RaceRequests == Choices \cup Away \cup Settings
FaultRequests == {Ask("user", "Solid", {"usb"}), Ask("join", NoMode, Keep)}
                   \cup Settings \cup Unplugs
LeaseRequests == {Ask("user", "Solid", t) : t \in {{"usb"}, Outputs}}
                   \cup {Ask("user", "Off", Keep)} \cup Releases \cup Leases

QuitRequests == {Ask("user", "Solid", {"hue"}), Ask("user", "Solid", Outputs),
                 Ask("user", "Off", Keep)}
                  \cup Settings \cup Releases \cup Leases

\* Two choices of the user, and what may come between them.
RefusedThenChosen == {Ask("user", "Ambilight", {"hue"}), Ask("user", "Solid", {"usb"})}
TwoChoices == {Ask("user", m, Keep) : m \in LitKinds}
HueChoices == {Ask("user", "Solid", Outputs), Ask("user", "Solid", {"hue"})}
UnplugThenChoice == Unplugs \cup {Ask("user", "Solid", {"hue"})}
PutBackRequests == {Ask("unplug", NoMode, {}), Ask("user", "Solid", {"usb"})}
                     \cup Settings
ReleaseThenChoice == Releases \cup {Ask("user", "Solid", {"usb"})}
SettingsAmongChoices == Settings \cup {Ask("user", "Solid", Outputs),
                                       Ask("user", NoMode, Outputs)}

OneKind == {"Solid"}
TwoKinds == {"Solid", "Ambilight"}
From(kind, targets, lit) == [kind |-> kind, targets |-> targets, lit |-> lit]
FromOffOrBoth == {From("Off", {"usb"}, {}), From("Solid", Outputs, Outputs)}
FromOffWithBoth == {From("Off", Outputs, {})}
FromOffOrHueAlone == FromOffWithBoth \cup {From("Solid", Outputs, {"hue"})}
FromBoth == {From("Solid", Outputs, Outputs)}
HueAlwaysStarts == {"RUNNING"}
HueMayRefuse == {"RUNNING", "GATE_BLOCKED", "AUTH_INVALID"}
HueWithoutLights == {"RUNNING", "NO_LIGHTS"}
FromOff == {From("Off", {"usb"}, {})}
FromStrip == {From("Solid", {"usb"}, {"usb"})}
HueRefuses == {"GATE_BLOCKED"}
NoFaults == {}
AllFaults == AllApplyFaults
=============================================================================
