---------------------------- MODULE WifiFailover ----------------------------
(***************************************************************************)
(* Which Wi-Fi network the display tries next                              *)
(* (firmware/lib/WifiFailoverPolicy and service_wifi, request_wifi_now in  *)
(* firmware/src/main.cpp): up to three networks in a fixed priority, a     *)
(* time-out for each attempt and a growing pause after a failed round.     *)
(*                                                                         *)
(* The policy works with a millisecond counter that wraps around.  The     *)
(* ghost variable age is the true time since the attempt or the pause      *)
(* began.  service_wifi runs at least every MaxGap units, except while the *)
(* portal is open or a changed network configuration is not saved yet;     *)
(* both end in request_wifi_now, which starts the policy afresh.           *)
(***************************************************************************)
EXTENDS Integers, Sequences

CONSTANTS
    Wrap,          \* 2^32: the counter's range
    Timeout,       \* kWifiProfileTimeoutMs
    FirstBackoff,  \* kWifiInitialRoundBackoffMs
    MaxBackoff,    \* kWifiMaximumRoundBackoffMs
    MaxGap,        \* longest time between two runs of service_wifi
    MaxChanges     \* bound on the changes of configuration and reception

ASSUME WifiAssumption ==
    /\ Wrap \in Nat /\ Wrap % 2 = 0
    /\ Timeout \in Nat \ {0} /\ FirstBackoff \in Nat \ {0} /\ MaxBackoff \in Nat
    /\ FirstBackoff <= MaxBackoff
    /\ MaxGap \in Nat \ {0} /\ MaxChanges \in Nat
    /\ Timeout + MaxGap < Wrap \div 2 /\ MaxBackoff + MaxGap < Wrap \div 2

VARIABLES
    now,       \* millis()
    ssids,     \* the profiles whose SSID is set in config
    dirty,     \* network_config_dirty
    portal,    \* portal_active, or its jobs reserve the network
    policy,    \* wifi_failover_policy
    station,   \* the profile the station was told to join
    joined,    \* WiFi.status() == WL_CONNECTED
    reach,     \* the profiles in reception
    age,       \* true time since the attempt or the pause began, up to a cap
    tried,     \* the profiles tried in this round (history)
    pause,     \* retry_after_ms of the round that failed last (history)
    gap,       \* time since service_wifi ran
    changes

wifiVars == <<now, ssids, dirty, portal, policy, station, joined, reach, age, tried, pause,
          gap, changes>>

envVars == <<ssids, dirty, portal, reach, changes>>

-----------------------------------------------------------------------------
None == 0

\* kPrimary, kBackup1 and kBackup2, in their priority.
Profiles == 1..3

\* The append of prepare_round: what is available and not in the order yet.
AppendProfile(order, profile, available) ==
    IF profile \in available /\ \A i \in 1..Len(order) : order[i] # profile
    THEN Append(order, profile)
    ELSE order

\* Mutant of Round: the last good profile comes first.
RoundLastGood(available, lastGood) ==
    LET first == AppendProfile(<<>>, lastGood, available) IN
    AppendProfile(AppendProfile(AppendProfile(first, 1, available), 2, available), 3, available)

\* Mutant of Round: the backups are left out.
RoundPrimaryOnly(available, lastGood) == AppendProfile(<<>>, 1, available)

\* prepare_round; lastGood is deliberately not used.
Round(available, lastGood) ==
    AppendProfile(AppendProfile(AppendProfile(<<>>, 1, available), 2, available), 3, available)

NewPolicy == [phase |-> "idle", order |-> <<>>, index |-> 1, active |-> None,
              lastGood |-> None, started |-> 0, nextRound |-> 0, backoff |-> FirstBackoff]

\* deadline_reached: the signed difference of two counters.
DeadlineReached(t, deadline) == (t - deadline) % Wrap < Wrap \div 2

\* Mutant of TimedOut: counters compared without regard to the wrap-around.
TimedOutLinear(t, started) == t >= started + Timeout

\* The unsigned difference of two counters.
TimedOut(t, started) == (t - started) % Wrap >= Timeout

\* configure: a profile that is gone is neither tried nor remembered.
Configured(p, available) ==
    [p EXCEPT !.lastGood = IF @ \in available THEN @ ELSE None,
              !.active = IF @ \in available THEN @ ELSE None,
              !.phase = IF p.active \in available THEN @ ELSE "idle"]

WifiInit ==
    /\ now = 0
    /\ ssids \in {{}, {1}, {1, 3}, {1, 2, 3}}
    /\ reach \in SUBSET Profiles
    /\ dirty = FALSE /\ portal = FALSE
    /\ policy = NewPolicy /\ station = None /\ joined = FALSE
    /\ age = 0 /\ tried = <<>> /\ pause = 0 /\ gap = 0 /\ changes = 0

-----------------------------------------------------------------------------
(* service_wifi.                                                           *)

Service == ~portal /\ ~dirty /\ gap' = 0 /\ UNCHANGED <<now, envVars>>

\* The policy as update finds it.
Current == Configured(policy, ssids)

\* note_connected, which ignores a profile that is not configured.
NoteConnected(p, profile, available) ==
    IF profile \in available
    THEN [p EXCEPT !.active = profile, !.lastGood = profile,
                   !.phase = "connected", !.backoff = FirstBackoff]
    ELSE p

\* The station is connected: its SSID tells the profile, and update keeps the
\* one it was trying for a network it does not know.
ServiceJoined ==
    /\ Service
    /\ joined
    /\ LET noted == NoteConnected(Current, station, ssids) IN
          policy' = [noted EXCEPT !.lastGood = IF noted.active \in ssids THEN noted.active ELSE @,
                                  !.phase = "connected", !.backoff = FirstBackoff]
    /\ pause' = 0
    /\ UNCHANGED <<station, joined, age, tried>>

\* No network is configured.
ServiceUnconfigured ==
    /\ Service
    /\ ~joined /\ ssids = {}
    /\ policy' = [Current EXCEPT !.active = None, !.phase = "idle"]
    /\ UNCHANGED <<station, joined, age, tried, pause>>

\* start_current_profile, and WiFi.disconnect and WiFi.begin for it.
Start(p, order, index) ==
    /\ policy' = [p EXCEPT !.order = order, !.index = index, !.active = order[index],
                           !.started = now, !.phase = "attempting"]
    /\ station' = order[index] /\ joined' = FALSE
    /\ age' = 0

RoundDue ==
    \/ Current.phase \in {"connected", "idle"}
    \/ Current.phase = "waiting" /\ DeadlineReached(now, Current.nextRound)

StartRound ==
    /\ Service
    /\ ~joined /\ ssids # {}
    /\ RoundDue
    /\ LET order == Round(ssids, Current.lastGood) IN
          /\ Start(Current, order, 1)
          /\ tried' = <<order[1]>>
    /\ pause' = 0

Abandon == ~joined /\ Current.phase = "attempting" /\ TimedOut(now, Current.started)

NextProfile ==
    /\ Service
    /\ Abandon
    /\ Current.index < Len(Current.order)
    /\ Start(Current, Current.order, Current.index + 1)
    /\ tried' = Append(tried, Current.order[Current.index + 1])
    /\ UNCHANGED pause

Doubled(backoff) == IF 2 * backoff < MaxBackoff THEN 2 * backoff ELSE MaxBackoff

RoundFails ==
    /\ Service
    /\ Abandon
    /\ Current.index >= Len(Current.order)
    /\ policy' = [Current EXCEPT !.nextRound = (now + Current.backoff) % Wrap,
                                 !.backoff = Doubled(@),
                                 !.active = None, !.phase = "waiting"]
    /\ station' = None
    /\ pause' = Current.backoff /\ age' = 0 /\ tried' = <<>>
    /\ UNCHANGED joined

\* Neither a time-out nor a deadline has passed.
ServiceWaits ==
    /\ Service
    /\ ~joined /\ ssids # {} /\ ~RoundDue /\ ~Abandon
    /\ policy' = Current
    /\ UNCHANGED <<station, joined, age, tried, pause>>

ServiceWifi ==
    \/ ServiceJoined \/ ServiceUnconfigured \/ StartRound \/ NextProfile
    \/ RoundFails \/ ServiceWaits

-----------------------------------------------------------------------------
(* The rest of the firmware.                                               *)

\* manual_reset forgets everything but the last good profile.
ManualReset(p) == [NewPolicy EXCEPT !.lastGood = p.lastGood]

\* request_wifi_now: configure, manual_reset and WiFi.disconnect.
RequestWifiNow(available) ==
    /\ policy' = ManualReset(Configured(policy, available))
    /\ station' = None /\ joined' = FALSE
    /\ age' = 0 /\ tried' = <<>> /\ pause' = 0 /\ gap' = 0

Change == changes < MaxChanges /\ changes' = changes + 1

\* manual_refresh, "test" and the arrival of USB power, when disconnected.
ManualRefresh ==
    /\ Change
    /\ ~joined
    /\ RequestWifiNow(ssids)
    /\ UNCHANGED <<now, ssids, dirty, portal, reach>>

\* "set ssid..." and "wifi-promote" change config at once and mark it dirty.
StageNetwork ==
    /\ Change
    /\ \E a \in SUBSET Profiles : ssids' = a
    /\ dirty' = TRUE
    /\ UNCHANGED <<now, portal, policy, station, joined, reach, age, tried, pause, gap>>

\* config_ready of what is staged, as far as the networks go: the primary
\* one is required.
ConfigReady == 1 \in ssids

\* "save"; a commit that fails leaves the configuration dirty.
Save ==
    /\ dirty /\ ConfigReady
    /\ dirty' = FALSE
    /\ RequestWifiNow(ssids)
    /\ UNCHANGED <<now, ssids, portal, reach, changes>>

OpenPortal ==
    /\ Change
    /\ ~portal /\ portal' = TRUE
    /\ UNCHANGED <<now, ssids, dirty, policy, station, joined, reach, age, tried, pause, gap>>

ClosePortal ==
    /\ portal /\ portal' = FALSE
    /\ RequestWifiNow(ssids)
    /\ UNCHANGED <<now, ssids, dirty, reach, changes>>

-----------------------------------------------------------------------------
(* Time and the networks.                                                  *)

Suspended == portal \/ dirty

Tick ==
    /\ Suspended \/ gap < MaxGap
    /\ now' = (now + 1) % Wrap
    /\ age' = IF age < Timeout + MaxBackoff THEN age + 1 ELSE age
    /\ gap' = IF Suspended THEN gap ELSE gap + 1
    /\ UNCHANGED <<policy, station, joined, tried, pause, envVars>>

Join ==
    /\ station \in reach /\ ~joined
    /\ joined' = TRUE
    /\ UNCHANGED <<now, policy, station, age, tried, pause, gap, envVars>>

\* Reception changes; a network that is lost is left.
Roam ==
    /\ Change
    /\ \E r \in SUBSET Profiles :
          /\ reach' = r
          /\ joined' = (joined /\ station \in r)
    /\ UNCHANGED <<now, ssids, dirty, portal, policy, station, age, tried, pause, gap>>

WifiNext ==
    \/ ServiceWifi \/ ManualRefresh \/ StageNetwork \/ Save
    \/ OpenPortal \/ ClosePortal \/ Tick \/ Join \/ Roam

WifiSpec == WifiInit /\ [][WifiNext]_wifiVars

\* The loop and time go on, and a network in reception that the station is
\* told to join again and again is joined in the end.
WifiFairSpec == WifiSpec /\ WF_wifiVars(ServiceWifi) /\ WF_wifiVars(Tick) /\ SF_wifiVars(Join)

-----------------------------------------------------------------------------
\* Types of the policy and of the station.
WifiTypeOK ==
    /\ now \in 0..Wrap - 1 /\ ssids \subseteq Profiles /\ reach \subseteq Profiles
    /\ policy.phase \in {"idle", "attempting", "waiting", "connected"}
    /\ policy.order \in Seq(Profiles) /\ policy.index \in 1..3
    /\ policy.active \in Profiles \cup {None} /\ policy.lastGood \in Profiles \cup {None}
    /\ policy.started \in 0..Wrap - 1 /\ policy.nextRound \in 0..Wrap - 1
    /\ policy.backoff \in FirstBackoff..MaxBackoff
    /\ station \in Profiles \cup {None} /\ {dirty, portal, joined} \subseteq BOOLEAN

\* Every round tries the configured networks from the primary on, whatever
\* worked before and however the configuration changed ("Every connection
\* round starts at primary, then tries backup1 and backup2, skipping absent
\* entries"): before each network exactly those were tried that come before it.
RoundInPriority ==
    policy.phase = "attempting" /\ ~Suspended =>
        \A i \in 1..Len(tried) :
            /\ tried[i] \in ssids
            /\ \A p \in ssids : p < tried[i] <=> \E j \in 1..i - 1 : tried[j] = p

\* An attempt ends by the time-out exactly when its true time is up, although
\* the counter wraps around and runs on while the policy is not asked.
AttemptLastsTimeout ==
    [][ServiceWifi /\ ~joined /\ policy.phase = "attempting" =>
          (age >= Timeout <=> tried' # tried)]_wifiVars

\* A display with a configured network in reception gets connected, whichever
\* networks before it in the order do not answer.
GetsConnected ==
    <>[](~Suspended /\ ssids \cap reach # {}) => []<>joined

\* "Every round that fails is followed by a pause of 1, 2, 4 ... seconds"
\* (docs/firmware-ota.md).
PauseIsObserved ==
    [][pause > 0 /\ ServiceWifi /\ tried' # tried => age >= pause]_wifiVars
=============================================================================
