----------------------------- MODULE DeviceSetup -----------------------------
(***************************************************************************)
(* Link speed and device initialisation: unipro_api/power_change.py,       *)
(* ufs_api/initial_device.py, the speed part of debug_cmd/dcmd5.py, and    *)
(* the one-command helpers of ufs_api/attr_flag_functions.py.              *)
(*                                                                         *)
(* The library keeps what it believes of the link (current_speed) and of   *)
(* the units (gMaxNumberLU, gLUCapacity).  A change of speed is believed   *)
(* when it is pushed, not when it was executed; an initialisation resets   *)
(* the link outside the package and then sends, with its own commands,     *)
(* whatever a pattern left in the package.  Modes are SLOW and FAST (the   *)
(* _AUTO modes pass the same tests); the number of lanes goes the way of   *)
(* the gear and is left out.                                               *)
(***************************************************************************)
EXTENDS Integers, Sequences, FiniteSets, TLC

CONSTANTS
  Gears, MaxGear,    \* gears, and the one host, device and clock allow
  Clocks,            \* reference clocks
  Devices,           \* configurations of the device: number and capacity of its units
  MaxLuns,           \* 32, the units the cache has room for
  SpeedRequests,     \* speed changes of patterns: some fields of a speed
  InitRequests,      \* initialisations of patterns that give a speed of their own
  MaxPending,        \* bound: commands a pattern may leave pending and push more
  NONE

Modes == {"SLOW", "FAST"}
Luns  == 0 .. MaxLuns - 1
Timings == {"NO_SPEED_CHANGE", "AFTER_LINK", "AFTER_INIT", "AFTER_LINK_AND_INIT"}

SpeedType  == [txmode : Modes, rxmode : Modes, txgear : Gears, rxgear : Gears, hsrate : {"A", "B"}]
InitType   == [speed : SpeedType, clock : Clocks, timing : Timings, stop : BOOLEAN]
DeviceType == [number : 1 .. MaxLuns, capacity : [Luns -> Nat]]

ASSUME SetupAssumption ==
  /\ 1 \in Gears /\ MaxGear \in Gears /\ MaxLuns \in Nat \ {0}
  /\ Devices \subseteq DeviceType /\ InitRequests \subseteq InitType
  /\ \A r \in SpeedRequests, s \in SpeedType : r @@ s \in SpeedType
  /\ MaxPending \in Nat /\ NONE \notin Gears \cup Clocks

VARIABLES
  hw,        \* tester and device: link speed and startup mode, the startup mode set for
             \* the next link, the tester's clock, the configuration
  cache,     \* current_speed: link_startup_mode, the speed, refclk
  known,     \* gMaxNumberLU, gLUCapacity
  cmds,      \* the package
  sent,      \* _is_cmd_sent
  executed,  \* which commands of the package the tester has executed
  call,      \* the helper that runs or ran last
  doubt      \* history: what of the cache the library leaves unconfirmed

vars == <<hw, cache, known, cmds, sent, executed, call, doubt>>

Both(mode, gear, rate) ==
  [txmode |-> mode, rxmode |-> mode, txgear |-> gear, rxgear |-> gear, hsrate |-> rate]

Slow(s)   == "SLOW" \in {s.txmode, s.rxmode}
LsMode(s) == s.txmode = "SLOW" /\ s.rxmode = "SLOW"

(* A command.  A package is executed in any order between the commands     *)
(* that wait for the queue to empty.  History: a command is blind when it  *)
(* was pushed on a cache in doubt, or was pending when the link was reset. *)
Command(op) ==
  [op |-> op, waits |-> TRUE, blind |-> FALSE, speed |-> NONE, clock |-> NONE, device |-> NONE,
   lun |-> NONE, answer |-> NONE]

Change(s, blind) == [Command("speed") EXCEPT !.speed = s, !.blind = blind]

NoCall ==
  [op |-> "none", step |-> "idle", speed |-> NONE, clock |-> NONE, timing |-> NONE,
   startup |-> NONE, stop |-> FALSE, carried |-> FALSE]

Idle    == call = NoCall
Running == call.step \in {"send", "geometry", "units", "ready", "query"}
Return  == call' = NoCall
Raise   == call' = NoCall

Has(ops) == \E i \in DOMAIN cmds : cmds[i].op \in ops
Pending  == ~sent /\ cmds # <<>>
Touched  == (IF Has({"speed"}) THEN {"speed"} ELSE {})
            \cup (IF Has({"attr", "clock"}) THEN {"clock"} ELSE {})

(* What a speed change is pushed on: the cached speed and startup mode.    *)
Unsure == doubt \cap {"speed", "startup", "mode"} # {}

Blinded == [i \in DOMAIN cmds |-> [cmds[i] EXCEPT !.blind = TRUE]]

-----------------------------------------------------------------------------
(* The package: send(), the tester, clear(). *)

ClearPackage == cmds' = <<>> /\ sent' = FALSE /\ executed' = {}

EnqueueAndSend(new, record) ==
  /\ ~sent
  /\ cmds' = cmds \o new /\ sent' = TRUE /\ executed' = {}
  /\ call' = record

(* What the device or the link does not take in its present state.         *)
Refused(c) ==
  \/ c.op = "speed" /\ hw.startup = "HS" /\ Slow(c.speed)
  \/ c.op = "attr" /\ ~LsMode(hw.speed)

Ready(i) ==
  /\ Running /\ i \in DOMAIN cmds \ executed
  /\ \A j \in 1 .. i - 1 : cmds[i].waits \/ cmds[j].waits => j \in executed

Effect(c) ==
  CASE c.op = "speed"  -> [hw EXCEPT !.speed = c.speed]
    [] c.op = "clock"  -> [hw EXCEPT !.clock = c.clock]
    [] c.op = "config" -> [hw EXCEPT !.device = c.device]
    [] OTHER           -> hw

Answer(c) ==
  CASE c.op = "geometry" -> hw.device.number
    [] c.op = "unit"     -> hw.device.capacity[c.lun]
    [] OTHER             -> NONE

Execute(i) ==
  /\ Ready(i) /\ ~Refused(cmds[i])
  /\ hw' = Effect(cmds[i])
  /\ cmds' = [cmds EXCEPT ![i].answer = Answer(cmds[i])]
  /\ executed' = executed \cup {i}
  /\ UNCHANGED <<cache, known, sent, call, doubt>>

(* A package that stays sent blocks every call until it is cleared; what   *)
(* it holds is not looked at again and is dropped here.                    *)
KeepSent == cmds' = <<>> /\ executed' = {} /\ UNCHANGED sent

(* A command fails or the tester reports an error.                         *)
SendFails ==
  /\ Running
  /\ doubt' = doubt \cup Touched
  /\ KeepSent /\ Raise /\ UNCHANGED <<hw, cache, known>>

Completed(step) == Running /\ call.step = step /\ executed = DOMAIN cmds

(* send() was the last thing the helper did; it clears the package.        *)
SendReturns ==
  /\ Completed("send") /\ ClearPackage /\ Return
  /\ UNCHANGED <<hw, cache, known, doubt>>

(* The pattern's own use of the package: a new configuration for the       *)
(* device, send(), and clear(), which also drops what was never sent.      *)
(* While a sent package is there, whatever else a pattern calls raises at  *)
(* its first enqueue or send and changes nothing: no action.  Bound: a     *)
(* configuration is pushed on an empty package only.                       *)
PushConfig(d) ==
  /\ Idle /\ ~sent /\ cmds = <<>>
  /\ cmds' = Append(cmds, [Command("config") EXCEPT !.device = d, !.waits = FALSE])
  /\ UNCHANGED <<hw, cache, known, sent, executed, call, doubt>>

PatternSend ==
  /\ Idle /\ EnqueueAndSend(<<>>, [NoCall EXCEPT !.step = "send"])
  /\ UNCHANGED <<hw, cache, known, doubt>>

PatternClears ==
  /\ Idle /\ ClearPackage
  /\ doubt' = IF Pending THEN doubt \cup Touched ELSE doubt
  /\ UNCHANGED <<hw, cache, known, call>>

-----------------------------------------------------------------------------
(* power_change.py *)

Requested(request) == request @@ cache.speed

(* Mutant: the rate is changed where the link is.                          *)
SpeedCommandsDirect(s, blind) == <<Change(s, blind)>>

(* The rate may only change in slow mode, gear 1.                          *)
SpeedCommands(s, blind) ==
  IF cache.startup = "LS" /\ s.hsrate # cache.speed.hsrate
  THEN <<Change(Both("SLOW", 1, cache.speed.hsrate), blind),
         Change(Both("SLOW", 1, s.hsrate), blind), Change(s, blind)>>
  ELSE <<Change(s, blind)>>

ShallNotChangeToSlow(s) == cache.startup = "HS" /\ Slow(s)

PushSpeedChange(request, sends) ==
  LET s == Requested(request)
      new == SpeedCommands(s, Unsure)
  IN
  /\ Idle /\ ~sent /\ Len(cmds) <= MaxPending
  /\ ~ShallNotChangeToSlow(s)
  /\ IF sends
     THEN EnqueueAndSend(new, [NoCall EXCEPT !.step = "send"])
     ELSE cmds' = cmds \o new /\ UNCHANGED <<sent, executed, call>>
  /\ cache' = [cache EXCEPT !.speed = s]
  /\ doubt' = doubt \ {"speed"}
  /\ UNCHANGED <<hw, known>>

AttrCommand(clk, blind) ==
  [Command("attr") EXCEPT !.clock = clk, !.blind = blind, !.waits = FALSE]

(* A pattern that switches the clock outside LS-MODE is on its own.        *)
ClockCommands(clk) ==
  <<AttrCommand(clk, Unsure \/ ~LsMode(cache.speed)),
    [Command("clock") EXCEPT !.clock = clk]>>

PushSwitchRefClk(clk, sends) ==
  /\ Idle /\ ~sent /\ Len(cmds) <= MaxPending
  /\ IF sends
     THEN EnqueueAndSend(ClockCommands(clk), [NoCall EXCEPT !.step = "send"])
     ELSE cmds' = cmds \o ClockCommands(clk) /\ UNCHANGED <<sent, executed, call>>
  /\ cache' = [cache EXCEPT !.refclk = clk]
  /\ doubt' = doubt \ {"clock"}
  /\ UNCHANGED <<hw, known>>

-----------------------------------------------------------------------------
(* init_tester_to_unit_ready *)

CachedSpeed == Both(cache.speed.txmode, cache.speed.txgear, cache.speed.hsrate)

DefaultInits ==
  {[speed |-> CachedSpeed, clock |-> cache.refclk, timing |-> "AFTER_INIT", stop |-> stop] :
     stop \in BOOLEAN}

InitTesterToUnitReady(request) ==
  /\ Idle
  /\ call' = [NoCall EXCEPT !.op = "init", !.step = "dcmd5", !.speed = request.speed,
                            !.clock = request.clock, !.timing = request.timing, !.stop = request.stop]
  /\ UNCHANGED <<hw, cache, known, cmds, sent, executed, doubt>>

LinkDefault == IF hw.setting = "HS" THEN Both("FAST", 1, "A") ELSE Both("SLOW", 1, "A")

Linked == [hw EXCEPT !.startup = hw.setting, !.speed = LinkDefault]

(* Only these two timings set a bit of the argument.                       *)
ChangesSpeed(timing) == timing \in {"AFTER_LINK", "AFTER_INIT"}

Initialised ==
  [Linked EXCEPT !.clock = call.clock,
                 !.speed = IF ChangesSpeed(call.timing) THEN call.speed ELSE @]

(* The debug command fails at any of its steps; the cache keeps its values.*)
Dcmd5Fails ==
  /\ call.step = "dcmd5"
  /\ hw' \in {hw, Linked, [Linked EXCEPT !.clock = call.clock]}
  /\ doubt' = doubt \cup {"speed", "clock"}
  /\ cmds' = IF sent THEN cmds ELSE Blinded
  /\ Raise /\ UNCHANGED <<cache, known, sent, executed>>

(* Mutant: the clock is forgotten.                                         *)
UpdateCacheSpeed == [cache EXCEPT !.speed = call.speed]

UpdateCache == [cache EXCEPT !.speed = call.speed, !.refclk = call.clock]

Unperformed == IF ChangesSpeed(call.timing) THEN {} ELSE {"speed"}

(* The arguments of the debug command are not used again.                  *)
Remaining ==
  [call EXCEPT !.step = "descriptors", !.speed = NONE, !.timing = NONE,
               !.clock = IF call.op = "first" THEN @ ELSE NONE]

Dcmd5Succeeds ==
  /\ call.step = "dcmd5"
  /\ ~(ChangesSpeed(call.timing) /\ hw.setting = "HS" /\ Slow(call.speed))
  /\ hw' = Initialised
  /\ cache' = UpdateCache
  /\ cmds' = IF sent THEN cmds ELSE Blinded
  /\ doubt' = Unperformed \cup (IF sent THEN {} ELSE Touched) \cup (doubt \cap {"mode"})
  /\ IF call.stop THEN Return ELSE call' = Remaining
  /\ UNCHANGED <<known, sent, executed>>

(* Mutant: the descriptors overtake what the package holds.                *)
GeometryReadAtOnce == [Command("geometry") EXCEPT !.waits = FALSE]

GeometryRead == Command("geometry")

(* get_desc_and_update_cache: the device and geometry descriptors are read *)
(* behind what the package holds, the unit descriptors in one of their own.*)
ReadDeviceDescriptors ==
  /\ call.step = "descriptors"
  /\ \/ EnqueueAndSend(<<GeometryRead>>, [call EXCEPT !.step = "geometry"])
     \/ sent /\ Raise /\ UNCHANGED <<cmds, sent, executed>>
  /\ UNCHANGED <<hw, cache, known, doubt>>

UnitReads(number) ==
  [i \in 1 .. number |-> [Command("unit") EXCEPT !.lun = i - 1, !.waits = FALSE]]

ReadUnitDescriptors ==
  /\ Completed("geometry")
  /\ LET number == cmds[Len(cmds)].answer IN
     /\ known' = [known EXCEPT !.number = number]
     /\ cmds' = UnitReads(number) /\ executed' = {}
  /\ call' = [call EXCEPT !.step = "units"]
  /\ UNCHANGED <<hw, cache, sent, doubt>>

(* The index of a unit in the cache is the index of its command.           *)
CapacitiesRead ==
  [lun \in Luns |-> IF lun + 1 \in DOMAIN cmds THEN cmds[lun + 1].answer ELSE known.capacity[lun]]

TestUnitsReady ==
  /\ Completed("units")
  /\ known' = [known EXCEPT !.capacity = CapacitiesRead]
  /\ cmds' = <<Command("ready")>> /\ executed' = {}
  /\ call' = [call EXCEPT !.step = IF call.op = "first" /\ call.startup = "LS" THEN "ready" ELSE "send"]
  /\ UNCHANGED <<hw, cache, sent, doubt>>

-----------------------------------------------------------------------------
(* first_init_to_max_hs_gear *)

(* Mutant: gear 1 for both ways to start.                                  *)
FirstSpeedGearOne(startup) == Both(IF startup = "HS" THEN "FAST" ELSE "SLOW", 1, "B")

FirstSpeed(startup) ==
  IF startup = "HS" THEN Both("FAST", MaxGear, "B") ELSE Both("SLOW", 1, "B")

FirstInit(startup, clk) ==
  /\ Idle
  /\ call' = [NoCall EXCEPT !.op = "first", !.step = "link", !.startup = startup, !.clock = clk,
                            !.speed = FirstSpeed(startup), !.timing = "AFTER_INIT",
                            !.carried = Pending]
  /\ UNCHANGED <<hw, cache, known, cmds, sent, executed, doubt>>

(* The link is started with the clock asked for; reading the capabilities, *)
(* which may raise, is part of the step.                                   *)
LinkStartup ==
  /\ call.step = "link"
  /\ \/ /\ hw' = [Linked EXCEPT !.clock = call.clock]
        /\ call' = [call EXCEPT !.step = IF call.startup = "HS" THEN "mode" ELSE "dcmd5"]
     \/ /\ hw' \in {hw, [hw EXCEPT !.clock = call.clock], [Linked EXCEPT !.clock = call.clock]}
        /\ Raise
  /\ doubt' = doubt \cup {"speed", "clock"}
  /\ cmds' = IF sent THEN cmds ELSE Blinded
  /\ UNCHANGED <<cache, known, sent, executed>>

(* The mode is set and read back: the cache follows only when the tester   *)
(* says it was taken.  Setting and reading are calls of the SDK and may    *)
(* raise: then the tester has the new mode and the cache was not told.     *)
SetLinkStartupModeAndCheck ==
  /\ call.step = "mode"
  /\ \/ /\ hw' = [hw EXCEPT !.setting = call.startup]
        /\ cache' = [cache EXCEPT !.startup = call.startup]
        /\ doubt' = (doubt \ {"mode"}) \cup {"startup"}
        /\ call' = [call EXCEPT !.step = "dcmd5"]
     \/ /\ hw' = [hw EXCEPT !.setting = call.startup]
        /\ doubt' = doubt \cup {"startup"} \cup (IF cache.startup # call.startup THEN {"mode"} ELSE {})
        /\ Raise /\ UNCHANGED cache
     \/ hw.setting # call.startup /\ Raise /\ UNCHANGED <<hw, cache, doubt>>
  /\ UNCHANGED <<known, cmds, sent, executed>>

FullSpeed == Both("FAST", MaxGear, "B")

(* The last package of a start in low speed: the clock attribute, then the *)
(* highest speed.                                                          *)
ChangeToMaxGear ==
  /\ Completed("ready")
  /\ cmds' = <<AttrCommand(call.clock, Unsure)>> \o SpeedCommands(FullSpeed, Unsure)
  /\ executed' = {} /\ sent' = TRUE
  /\ call' = [call EXCEPT !.step = "send"]
  /\ cache' = [cache EXCEPT !.speed = FullSpeed]
  /\ doubt' = doubt \ {"speed"}
  /\ UNCHANGED <<hw, known>>

-----------------------------------------------------------------------------
(* attr_flag_functions.py: one command, sent with what the package holds.  *)

Query(op) ==
  /\ Idle
  /\ EnqueueAndSend(<<[Command("query") EXCEPT !.waits = FALSE]>>,
                    [NoCall EXCEPT !.op = op, !.step = "query"])
  /\ UNCHANGED <<hw, cache, known, doubt>>

QueryMatches ==
  /\ Completed("query")
  /\ ClearPackage /\ Return
  /\ UNCHANGED <<hw, cache, known, doubt>>

(* Mutant: the attribute functions check first, as the flag functions do.  *)
AttributeKept(op) == FALSE

(* Of a response that is not the one expected, the flag functions leave    *)
(* the package as it is.                                                   *)
ClearsBeforeChecks(op) == op = "attribute"

QueryMismatch ==
  /\ Completed("query")
  /\ IF ClearsBeforeChecks(call.op) THEN ClearPackage ELSE KeepSent
  /\ Raise
  /\ UNCHANGED <<hw, cache, known, doubt>>

-----------------------------------------------------------------------------
(* Start: the tester was powered off, the cache holds its defaults.        *)
Init ==
  /\ hw \in [startup : {"LS"}, setting : {"LS"}, speed : {Both("SLOW", 1, "A")},
             clock : Clocks, device : Devices]
  /\ cache = [startup |-> "LS", speed |-> Both("SLOW", 1, "A"), refclk |-> 0]
  /\ known = [number |-> 0, capacity |-> [lun \in Luns |-> 0]]
  /\ cmds = <<>> /\ sent = FALSE /\ executed = {}
  /\ call = NoCall /\ doubt = {"speed", "clock"}

PatternNext ==
  \/ \E r \in SpeedRequests, sends \in BOOLEAN : PushSpeedChange(r, sends)
  \/ \E clk \in Clocks, sends \in BOOLEAN : PushSwitchRefClk(clk, sends)
  \/ \E d \in Devices : PushConfig(d)
  \/ PatternSend
  \/ PatternClears

InitNext ==
  \/ \E r \in DefaultInits \cup InitRequests : InitTesterToUnitReady(r)
  \/ Dcmd5Fails
  \/ Dcmd5Succeeds
  \/ ReadDeviceDescriptors
  \/ ReadUnitDescriptors
  \/ TestUnitsReady
  \/ \E startup \in {"LS", "HS"}, clk \in Clocks : FirstInit(startup, clk)
  \/ LinkStartup
  \/ SetLinkStartupModeAndCheck
  \/ ChangeToMaxGear

QueryNext ==
  \/ \E op \in {"attribute", "flag"} : Query(op)
  \/ QueryMatches
  \/ QueryMismatch

SendNext ==
  \/ \E i \in DOMAIN cmds : Execute(i)
  \/ SendFails
  \/ SendReturns

Next == PatternNext \/ InitNext \/ QueryNext \/ SendNext

Spec == Init /\ [][Next]_vars

-----------------------------------------------------------------------------
(* Properties *)

(* Commands of the package that will still be executed if it goes well.    *)
Waiting(op) ==
  {i \in DOMAIN cmds \ executed : cmds[i].op = op /\ (Running \/ ~sent)}

Last(S) == {i \in S : \A j \in S : j <= i}

(* What the cache says of the link is what the link will run at when the   *)
(* package is through: after any mixture of changes that were pushed, sent *)
(* and left pending, initialisations and failures.  Excepted is what the   *)
(* library itself leaves wrong and goes on with: speed or clock after a    *)
(* failed or dropped package, a failed initialisation or a change left     *)
(* pending across a reset; and the startup mode after a mode was set whose *)
(* reading back raised, until one is set and read back.  Even then the     *)
(* cache never has a high speed start the tester was not set to.           *)
CacheIsLink ==
  /\ "mode" \notin doubt => cache.startup = hw.setting
  /\ cache.startup = "HS" => hw.setting = "HS"
  /\ "speed" \notin doubt =>
       /\ Waiting("speed") = {} => cache.speed = hw.speed
       /\ \A i \in Last(Waiting("speed")) : cache.speed = cmds[i].speed
  /\ "clock" \notin doubt =>
       /\ Waiting("clock") = {} => cache.refclk = hw.clock
       /\ \A i \in Last(Waiting("clock")) : cache.refclk = cmds[i].clock

SlowGearOne(s) == LsMode(s) /\ s.txgear = 1 /\ s.rxgear = 1

(* No command meets a link that must not take it: slow mode after a high   *)
(* speed start, the clock attribute outside LS-MODE, another rate elsewhere*)
(* than in slow mode and gear 1.  Excepted are the commands that were      *)
(* pushed on a cache the library had left unconfirmed, for the reasons     *)
(* named at CacheIsLink, or overtaken by a reset while they were pending.  *)
(* The first is a fault of the code where the mode was set and its reading *)
(* raised: every slow change of later packages is let through and refused. *)
CommandsAreLegal ==
  \A i \in DOMAIN cmds :
    Ready(i) /\ ~cmds[i].blind =>
      /\ ~Refused(cmds[i])
      /\ cmds[i].op = "speed" /\ hw.startup = "LS" /\ cmds[i].speed.hsrate # hw.speed.hsrate =>
           SlowGearOne(hw.speed)

(* After an initialisation the cached capacities are those of the device,  *)
(* also of one configured by commands the initialisation itself sent, for  *)
(* every unit the device has.                                              *)
CapacitiesAreCached ==
  [][SendReturns /\ call.op \in {"init", "first"} =>
       /\ known.number = hw.device.number
       /\ \A lun \in 0 .. known.number - 1 : known.capacity[lun] = hw.device.capacity[lun]]_vars

(* first_init_to_max_hs_gear is what a pattern falls back to: whatever     *)
(* failed before, when it returns, and no change of speed or clock was     *)
(* left pending, link, clocks, device and cache are where it takes them.   *)
FirstInitSettles ==
  [][SendReturns /\ call.op = "first" /\ ~call.carried =>
       /\ hw.startup = call.startup /\ hw.setting = call.startup
       /\ hw.speed = FullSpeed /\ cache.speed = FullSpeed
       /\ hw.clock = call.clock /\ cache.refclk = call.clock]_vars

(* A call that has sent something and ends leaves the package clear for    *)
(* the next one, an attribute function even when it raises on the response;*)
(* only a send that fails and a flag function that raises leave it sent.   *)
ReturnsClear ==
  [][Running /\ Idle' =>
       \/ cmds' = <<>> /\ ~sent'
       \/ SendFails
       \/ QueryMismatch /\ call.op = "flag"]_vars
=============================================================================
