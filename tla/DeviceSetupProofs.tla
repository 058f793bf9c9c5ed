------------------------- MODULE DeviceSetupProofs -------------------------
(***************************************************************************)
(* The library's beliefs about link, clock and units are right, for every  *)
(* set of gears, clocks, configurations and requests, and any number of    *)
(* pending commands.                                                       *)
(***************************************************************************)
EXTENDS DeviceSetup, TLAPS

-----------------------------------------------------------------------------
(* The inductive invariant. *)

ClockValues == Clocks \cup {NONE, 0}
Starts == {"LS", "HS"}
Ops    == {"speed", "attr", "clock", "config", "geometry", "unit", "ready", "query"}
LinkSteps == {"link", "mode", "dcmd5"}
Steps  == LinkSteps \cup {"idle", "send", "descriptors", "geometry", "units", "ready", "query"}

CommandType ==
  [op : Ops, waits : BOOLEAN, blind : BOOLEAN, speed : SpeedType \cup {NONE}, clock : ClockValues,
   device : Devices \cup {NONE}, lun : Luns \cup {NONE}, answer : Nat \cup {NONE}]

HwType ==
  [startup : Starts, setting : Starts, speed : SpeedType, clock : ClockValues, device : Devices]

CacheType == [startup : Starts, speed : SpeedType, refclk : ClockValues]
KnownType == [number : Nat, capacity : [Luns -> Nat]]

CallType ==
  [op : {"none", "init", "first", "attribute", "flag"}, step : Steps,
   speed : SpeedType \cup {NONE}, clock : ClockValues, timing : Timings \cup {NONE},
   startup : Starts \cup {NONE}, stop : BOOLEAN, carried : BOOLEAN]

TypeOK ==
  /\ hw \in HwType /\ cache \in CacheType /\ known \in KnownType
  /\ cmds \in Seq(CommandType) /\ sent \in BOOLEAN /\ executed \subseteq DOMAIN cmds
  /\ call \in CallType /\ doubt \subseteq {"speed", "clock", "startup", "mode"}

(* What a command carries, and which commands wait for those before them.  *)
CommandOk(c) ==
  /\ c.op = "speed"  => c.speed \in SpeedType
  /\ c.op \in {"speed", "clock", "geometry", "ready"} => c.waits
  /\ c.op = "config" => c.device \in Devices
  /\ c.op = "unit"   => c.lun \in Luns

CommandInv == \A i \in DOMAIN cmds : CommandOk(cmds[i])

(* What was sent is running, or nobody looks at it again.                  *)
PackageInv ==
  /\ Running => sent
  /\ ~sent => executed = {}
  /\ sent /\ ~Running => cmds = <<>>

(* What a call has to do, and what it has done already.                    *)
CallInv ==
  /\ call.step \in LinkSteps => call.speed \in SpeedType /\ call.timing \in Timings
  /\ call.step \in {"link", "mode", "ready"} => call.op = "first"
  /\ call.step \in {"dcmd5", "descriptors", "geometry", "units"} => call.op \in {"init", "first"}
  /\ call.step = "mode" => call.startup = "HS"
  /\ call.step = "ready" => call.startup = "LS"
  /\ call.step = "query" => call.op \in {"attribute", "flag"}
  /\ call.op = "first" =>
       /\ call.startup \in Starts
       /\ call.step \in LinkSteps =>
            call.speed = FirstSpeed(call.startup) /\ call.timing = "AFTER_INIT" /\ ~call.stop
       /\ call.step = "dcmd5" /\ call.startup = "HS" => hw.setting = "HS"
       /\ call.step \notin LinkSteps => hw.startup = call.startup /\ hw.setting = call.startup
       /\ call.step \in {"descriptors", "geometry", "units", "ready"} =>
            cache.speed = FirstSpeed(call.startup)

StartupInv == "startup" \notin doubt => hw.startup = hw.setting

(* Commands to come.  In a package that nobody looks at there are none.    *)
Open(op) == {i \in DOMAIN cmds \ executed : cmds[i].op = op}

SpeedFollows ==
  /\ Open("speed") = {} => cache.speed = hw.speed
  /\ \A i \in Last(Open("speed")) : cache.speed = cmds[i].speed

ClockFollows ==
  /\ Open("clock") = {} => cache.refclk = hw.clock
  /\ \A i \in Last(Open("clock")) : cache.refclk = cmds[i].clock

(* The cache, whoever pushed what.                                         *)
CacheInv ==
  /\ "mode" \notin doubt => cache.startup = hw.setting
  /\ cache.startup = "HS" => hw.setting = "HS"
  /\ "speed" \notin doubt => SpeedFollows
  /\ "clock" \notin doubt => ClockFollows

(* A command fits the speed it meets: the one of the last change before it *)
(* that is still to come, or the present one.                              *)
Fits(c, s) ==
  /\ c.op = "speed" =>
       /\ ~(hw.startup = "HS" /\ Slow(c.speed))
       /\ hw.startup = "LS" /\ c.speed.hsrate # s.hsrate => SlowGearOne(s)
  /\ c.op = "attr" => LsMode(s)

OpenBefore(i) == {j \in Open("speed") : j < i}

Legal(i) ==
  /\ OpenBefore(i) = {} => Fits(cmds[i], hw.speed)
  /\ \A j \in Last(OpenBefore(i)) : Fits(cmds[i], cmds[j].speed)

LegalInv == \A i \in DOMAIN cmds \ executed : ~cmds[i].blind => Legal(i)

(* The descriptors an initialisation has read are the device's, and no new *)
(* configuration is left to be executed.                                   *)
UnitsKnown(S) == \A i \in S : cmds[i].answer = hw.device.capacity[i - 1]

DescriptorInv ==
  /\ call.step = "geometry" =>
       /\ cmds # <<>> /\ cmds[Len(cmds)].op = "geometry"
       /\ Len(cmds) \in executed =>
            executed = DOMAIN cmds /\ cmds[Len(cmds)].answer = hw.device.number
  /\ call.step = "units" =>
       /\ known.number = hw.device.number /\ Len(cmds) = known.number
       /\ \A i \in DOMAIN cmds : cmds[i].op = "unit" /\ cmds[i].lun = i - 1
       /\ UnitsKnown(executed)
  /\ call.op \in {"init", "first"} /\ call.step \in {"ready", "send"} =>
       /\ known.number = hw.device.number
       /\ \A lun \in 0 .. known.number - 1 : known.capacity[lun] = hw.device.capacity[lun]
       /\ \A i \in DOMAIN cmds : cmds[i].op # "config"

(* A first initialisation that nothing was carried into.                   *)
SettledInv ==
  call.op = "first" /\ ~call.carried =>
    /\ call.step \in LinkSteps \cup {"descriptors"} => cmds = <<>>
    /\ call.step \notin LinkSteps =>
         /\ "speed" \notin doubt /\ "clock" \notin doubt
         /\ cache.refclk = call.clock
         /\ cache.speed = IF call.step = "send" THEN FullSpeed ELSE FirstSpeed(call.startup)

IInv ==
  /\ TypeOK /\ CommandInv /\ PackageInv /\ CallInv /\ StartupInv
  /\ CacheInv /\ LegalInv /\ DescriptorInv /\ SettledInv

-----------------------------------------------------------------------------
(* Commands and packages. *)

LEMMA BothTyped ==
  ASSUME NEW mode \in Modes, NEW gear \in Gears, NEW rate \in {"A", "B"}
  PROVE  Both(mode, gear, rate) \in SpeedType
  BY DEF Both, SpeedType

(* A command that is not told otherwise carries nothing.                   *)
LEMMA Commands ==
  /\ \A op \in Ops : Command(op) \in CommandType /\ Command(op).op = op /\ Command(op).waits
  /\ \A clk \in ClockValues :
       LET c == [Command("clock") EXCEPT !.clock = clk]
       IN  c \in CommandType /\ c.op = "clock" /\ c.clock = clk /\ CommandOk(c)
  /\ \A d \in Devices :
       LET c == [Command("config") EXCEPT !.device = d, !.waits = FALSE]
       IN  c \in CommandType /\ c.op = "config" /\ CommandOk(c)
  /\ LET c == [Command("query") EXCEPT !.waits = FALSE]
     IN  c \in CommandType /\ c.op = "query" /\ CommandOk(c)
  /\ \A op \in {"geometry", "ready"} : CommandOk(Command(op))
<1>1. \A op \in Ops : Command(op) \in CommandType /\ Command(op).op = op /\ Command(op).waits
  BY DEF Command, CommandType, ClockValues
<1>2. \A clk \in ClockValues :
        LET c == [Command("clock") EXCEPT !.clock = clk]
        IN  c \in CommandType /\ c.op = "clock" /\ c.clock = clk /\ CommandOk(c)
  BY DEF Command, CommandType, ClockValues, Ops, CommandOk
<1>3. \A d \in Devices :
        LET c == [Command("config") EXCEPT !.device = d, !.waits = FALSE]
        IN  c \in CommandType /\ c.op = "config" /\ CommandOk(c)
  BY DEF Command, CommandType, ClockValues, Ops, CommandOk
<1>4. LET c == [Command("query") EXCEPT !.waits = FALSE]
      IN  c \in CommandType /\ c.op = "query" /\ CommandOk(c)
  BY DEF Command, CommandType, ClockValues, Ops, CommandOk
<1>5. \A op \in {"geometry", "ready"} : CommandOk(Command(op))
  BY DEF Command, CommandOk
<1> QED BY <1>1, <1>2, <1>3, <1>4, <1>5

LEMMA ChangeIs ==
  ASSUME NEW s \in SpeedType, NEW b \in BOOLEAN
  PROVE  LET c == Change(s, b)
         IN  c \in CommandType /\ c.op = "speed" /\ c.speed = s /\ c.blind = b /\ CommandOk(c)
  BY DEF Change, Command, CommandType, ClockValues, Ops, CommandOk

LEMMA AttrIs ==
  ASSUME NEW clk \in ClockValues, NEW b \in BOOLEAN
  PROVE  LET c == AttrCommand(clk, b)
         IN  c \in CommandType /\ c.op = "attr" /\ c.blind = b /\ CommandOk(c)
  BY DEF AttrCommand, Command, CommandType, ClockValues, Ops, CommandOk

LEMMA UnitIs ==
  ASSUME NEW lun \in Luns
  PROVE  LET c == [Command("unit") EXCEPT !.lun = lun, !.waits = FALSE]
         IN  c \in CommandType /\ c.op = "unit" /\ c.lun = lun /\ CommandOk(c)
  BY DEF Command, CommandType, ClockValues, Ops, CommandOk

LEMMA NoCallTyped == NoCall \in CallType /\ NoCall.step = "idle" /\ NoCall.op = "none"
  BY DEF NoCall, CallType, ClockValues, Steps, LinkSteps

LEMMA DeviceFacts ==
  ASSUME TypeOK
  PROVE  /\ hw.device.number \in 1 .. MaxLuns /\ hw.device.number \in Nat
         /\ hw.device.capacity \in [Luns -> Nat]
  BY SetupAssumption DEF TypeOK, HwType, DeviceType

(* New commands go behind those that wait, whether they are sent or not.   *)
LEMMA Appended ==
  ASSUME TypeOK, CommandInv, NEW new \in Seq(CommandType),
         \A i \in DOMAIN new : CommandOk(new[i]), cmds' = cmds \o new, executed' = {}
  PROVE  /\ cmds' \in Seq(CommandType) /\ executed' \subseteq DOMAIN cmds' /\ CommandInv'
         /\ Len(cmds) \in Nat /\ Len(new) \in Nat
         /\ DOMAIN cmds = 1 .. Len(cmds) /\ DOMAIN new = 1 .. Len(new)
         /\ DOMAIN cmds' = 1 .. Len(cmds) + Len(new)
         /\ \A i \in DOMAIN cmds : cmds'[i] = cmds[i]
         /\ \A i \in DOMAIN new : cmds'[Len(cmds) + i] = new[i]
         /\ \A i \in DOMAIN cmds' : i \notin DOMAIN cmds => i - Len(cmds) \in DOMAIN new /\ cmds'[i] = new[i - Len(cmds)]
<1>1. /\ Len(cmds) \in Nat /\ Len(new) \in Nat
      /\ DOMAIN cmds = 1 .. Len(cmds) /\ DOMAIN new = 1 .. Len(new)
      /\ cmds' \in Seq(CommandType) /\ DOMAIN cmds' = 1 .. Len(cmds) + Len(new)
      /\ \A i \in DOMAIN cmds : cmds'[i] = cmds[i]
      /\ \A i \in DOMAIN cmds' : i \notin DOMAIN cmds => i - Len(cmds) \in DOMAIN new /\ cmds'[i] = new[i - Len(cmds)]
  BY DEF TypeOK
<1>2. \A i \in DOMAIN new : cmds'[Len(cmds) + i] = new[i]
  BY <1>1
<1>3. CommandInv'
  BY <1>1 DEF CommandInv
<1> QED BY <1>1, <1>2, <1>3

-----------------------------------------------------------------------------
(* What keeps the beliefs. *)

(* Where the same changes of speed are still to come, nothing is disturbed.*)
LEMMA SpeedKept ==
  ASSUME SpeedFollows, Open("speed")' = Open("speed"), cache'.speed = cache.speed,
         hw'.speed = hw.speed, \A i \in Open("speed") : cmds'[i].speed = cmds[i].speed
  PROVE  SpeedFollows'
  BY DEF SpeedFollows, Last

LEMMA ClockKept ==
  ASSUME ClockFollows, Open("clock")' = Open("clock"), cache'.refclk = cache.refclk,
         hw'.clock = hw.clock, \A i \in Open("clock") : cmds'[i].clock = cmds[i].clock
  PROVE  ClockFollows'
  BY DEF ClockFollows, Last

LEMMA LegalKept ==
  ASSUME LegalInv, hw'.startup = hw.startup, hw'.speed = hw.speed, Open("speed")' = Open("speed"),
         \A i \in Open("speed") : cmds'[i].speed = cmds[i].speed,
         NEW i \in DOMAIN cmds \ executed, ~cmds[i].blind,
         cmds'[i].op = cmds[i].op, cmds'[i].speed = cmds[i].speed
  PROVE  Legal(i)'
<1>1. Legal(i)
  BY DEF LegalInv
<1>2. OpenBefore(i)' = OpenBefore(i)
  BY DEF OpenBefore
<1>3. \A s : Fits(cmds[i], s) => Fits(cmds[i], s)'
  BY DEF Fits
<1>4. \A j \in Last(OpenBefore(i)) : cmds'[j].speed = cmds[j].speed
  BY DEF Last, OpenBefore
<1> QED BY <1>1, <1>2, <1>3, <1>4 DEF Legal, Last, Fits

(* A package that ends, or is cleared, with nothing lost that is believed. *)
LEMMA Drained ==
  ASSUME IInv, cmds' = <<>>, executed' = {}, call' = NoCall, UNCHANGED <<hw, cache, known>>,
         sent' \in BOOLEAN, doubt \subseteq doubt', doubt' \subseteq {"speed", "clock", "startup", "mode"},
         "speed" \notin doubt' => Open("speed") = {}, "clock" \notin doubt' => Open("clock") = {}
  PROVE  IInv'
<1>1. TypeOK'
  BY NoCallTyped DEF IInv, TypeOK
<1>2. CommandInv' /\ LegalInv' /\ PackageInv'
  BY NoCallTyped DEF CommandInv, LegalInv, PackageInv, Running
<1>3. CallInv' /\ DescriptorInv' /\ SettledInv'
  BY NoCallTyped DEF CallInv, DescriptorInv, SettledInv, LinkSteps
<1>4. StartupInv'
  BY DEF IInv, StartupInv
<1>5. Open("speed")' = {} /\ Open("clock")' = {}
  BY DEF Open
<1>6. CacheInv'
  BY <1>5 DEF IInv, CacheInv, SpeedFollows, ClockFollows, Last
<1> QED BY <1>1, <1>2, <1>3, <1>4, <1>6 DEF IInv

LEMMA TouchedIs ==
  ASSUME TypeOK
  PROVE  /\ Touched \subseteq {"speed", "clock"}
         /\ "speed" \notin Touched => Open("speed") = {}
         /\ "clock" \notin Touched => Open("clock") = {}
  BY DEF Touched, Has, Open

LEMMA PatternClearsKeeps == ASSUME IInv, PatternClears PROVE IInv'
<1>1. Idle /\ ClearPackage /\ doubt' = (IF Pending THEN doubt \cup Touched ELSE doubt)
      /\ UNCHANGED <<hw, cache, known, call>>
  BY DEF PatternClears
<1>2. doubt \subseteq doubt' /\ doubt' \subseteq {"speed", "clock", "startup", "mode"}
  BY <1>1, TouchedIs DEF IInv, TypeOK
<1>3. ~Pending => cmds = <<>>
  BY <1>1 DEF IInv, PackageInv, Pending, Idle, Running, NoCall, TypeOK
<1>4. /\ "speed" \notin doubt' => Open("speed") = {}
      /\ "clock" \notin doubt' => Open("clock") = {}
  BY <1>1, <1>3, TouchedIs DEF IInv, Open
<1> QED BY <1>1, <1>2, <1>4, Drained DEF ClearPackage, Idle

LEMMA SendFailsKeeps == ASSUME IInv, SendFails PROVE IInv'
<1>1. doubt' = doubt \cup Touched /\ cmds' = <<>> /\ executed' = {} /\ UNCHANGED sent
      /\ call' = NoCall /\ UNCHANGED <<hw, cache, known>>
  BY DEF SendFails, KeepSent, Raise
<1>2. sent' \in BOOLEAN /\ doubt' \subseteq {"speed", "clock", "startup", "mode"}
  BY <1>1, TouchedIs DEF IInv, TypeOK
<1>3. /\ "speed" \notin doubt' => Open("speed") = {}
      /\ "clock" \notin doubt' => Open("clock") = {}
  BY <1>1, TouchedIs DEF IInv
<1> QED BY <1>1, <1>2, <1>3, Drained

(* A package that is through has nothing left to come.                     *)
LEMMA CompletedEnds ==
  ASSUME IInv, NEW step, Completed(step), cmds' = <<>>, executed' = {}, call' = NoCall,
         UNCHANGED <<hw, cache, known, doubt>>, sent' \in BOOLEAN
  PROVE  IInv'
<1>1. Open("speed") = {} /\ Open("clock") = {}
  BY DEF Open, Completed
<1> QED BY <1>1, Drained DEF IInv, TypeOK

LEMMA SendReturnsKeeps == ASSUME IInv, SendReturns PROVE IInv'
  BY CompletedEnds DEF SendReturns, ClearPackage, Return

LEMMA QueryMatchesKeeps == ASSUME IInv, QueryMatches PROVE IInv'
  BY CompletedEnds DEF QueryMatches, ClearPackage, Return

LEMMA QueryMismatchKeeps == ASSUME IInv, QueryMismatch PROVE IInv'
<1>1. Completed("query") /\ cmds' = <<>> /\ executed' = {} /\ sent' \in BOOLEAN
      /\ call' = NoCall /\ UNCHANGED <<hw, cache, known, doubt>>
  BY DEF QueryMismatch, ClearPackage, KeepSent, Raise, IInv, TypeOK
<1> QED BY <1>1, CompletedEnds

-----------------------------------------------------------------------------
(* Commands that join the package. *)

(* The call a helper makes when it only sends.                             *)
Sender(c) ==
  /\ c \in CallType /\ c.op \in {"none", "attribute", "flag"} /\ c.step \in {"send", "query"}
  /\ c.step = "query" => c.op # "none"

LEMMA Senders ==
  /\ Sender([NoCall EXCEPT !.step = "send"])
  /\ \A op \in {"attribute", "flag"} : Sender([NoCall EXCEPT !.op = op, !.step = "query"])
  BY NoCallTyped DEF Sender, NoCall, CallType, ClockValues, Steps, LinkSteps

LEMMA IdleIs ==
  ASSUME Idle
  PROVE  ~Running /\ call.step = "idle" /\ call.op = "none"
  BY NoCallTyped DEF Idle, Running

(* The parts of the invariant that do not look at commands.                *)
LEMMA Joins ==
  ASSUME IInv, Idle, ~sent, NEW new \in Seq(CommandType),
         \A i \in DOMAIN new : CommandOk(new[i]), cmds' = cmds \o new, executed' = {},
         cache' \in CacheType, cache'.startup = cache.startup, UNCHANGED <<hw, known>>,
         doubt' \subseteq doubt, "startup" \in doubt => "startup" \in doubt',
         \/ UNCHANGED <<sent, call>>
         \/ sent' = TRUE /\ Sender(call')
  PROVE  /\ TypeOK' /\ CommandInv' /\ PackageInv' /\ CallInv' /\ StartupInv'
         /\ DescriptorInv' /\ SettledInv'
<1>0. ~Running /\ call.step = "idle" /\ call.op = "none"
  BY IdleIs
<1>1. TypeOK' /\ CommandInv'
  BY Appended DEF IInv, TypeOK, Sender
<1>2. /\ call'.op \in {"none", "attribute", "flag"} /\ call'.step \in {"idle", "send", "query"}
      /\ call'.step = "query" => call'.op # "none"
  BY <1>0 DEF Sender
<1>3. PackageInv'
  BY <1>0 DEF PackageInv, Running, Sender
<1>4. CallInv' /\ DescriptorInv' /\ SettledInv'
  BY <1>2 DEF CallInv, DescriptorInv, SettledInv, LinkSteps
<1>5. StartupInv'
  BY DEF IInv, StartupInv
<1> QED BY <1>1, <1>3, <1>4, <1>5

(* Commands that change neither speed nor clock, nor need a speed.         *)
LEMMA Harmless ==
  ASSUME IInv, NEW new \in Seq(CommandType),
         \A i \in DOMAIN new : CommandOk(new[i]) /\ new[i].op \notin {"speed", "clock", "attr"},
         executed = {}, cmds' = cmds \o new, executed' = {}, UNCHANGED <<hw, cache, doubt>>
  PROVE  CacheInv' /\ LegalInv'
<1>1. /\ DOMAIN cmds \subseteq DOMAIN cmds'
      /\ \A i \in DOMAIN cmds : cmds'[i] = cmds[i]
      /\ \A i \in DOMAIN cmds' : i \notin DOMAIN cmds => i - Len(cmds) \in DOMAIN new /\ cmds'[i] = new[i - Len(cmds)]
  BY Appended DEF IInv
<1>2. \A op \in {"speed", "clock"} : Open(op)' = Open(op)
  BY <1>1 DEF Open
<1>3. CacheInv'
  BY <1>1, <1>2, SpeedKept, ClockKept DEF IInv, CacheInv, Open
<1>4. LegalInv'
  <2> SUFFICES ASSUME NEW i \in DOMAIN cmds' \ executed', ~cmds'[i].blind
               PROVE  Legal(i)'
    BY DEF LegalInv
  <2>1. CASE i \in DOMAIN cmds
    BY <2>1, <1>1, <1>2, LegalKept DEF IInv, Open
  <2>2. CASE i \notin DOMAIN cmds
    <3>1. cmds'[i].op \notin {"speed", "attr"}
      BY <2>2, <1>1
    <3> QED BY <3>1 DEF Legal, Fits
  <2> QED BY <2>1, <2>2
<1> QED BY <1>3, <1>4

LEMMA PushConfigKeeps == ASSUME IInv, NEW d \in Devices, PushConfig(d) PROVE IInv'
<1> DEFINE c == [Command("config") EXCEPT !.device = d, !.waits = FALSE]
<1>1. c \in CommandType /\ c.op = "config" /\ CommandOk(c)
  BY Commands
<1> HIDE DEF c
<1>2. <<c>> \in Seq(CommandType) /\ (\A i \in DOMAIN <<c>> : CommandOk(<<c>>[i]) /\ <<c>>[i].op = "config")
  BY <1>1
<1>3. Idle /\ ~sent /\ cmds' = cmds \o <<c>> /\ executed' = {} /\ executed = {}
      /\ UNCHANGED <<hw, cache, known, sent, call, doubt>>
  BY DEF PushConfig, c, IInv, PackageInv, TypeOK
<1>4. cache' \in CacheType
  BY <1>3 DEF IInv, TypeOK
<1>5. CacheInv' /\ LegalInv'
  BY <1>2, <1>3, Harmless
<1>6. /\ TypeOK' /\ CommandInv' /\ PackageInv' /\ CallInv' /\ StartupInv'
      /\ DescriptorInv' /\ SettledInv'
  BY <1>2, <1>3, <1>4, Joins
<1> QED BY <1>5, <1>6 DEF IInv

LEMMA PatternSendKeeps == ASSUME IInv, PatternSend PROVE IInv'
<1> DEFINE new == <<>>
<1>1. Idle /\ ~sent /\ cmds' = cmds \o new /\ executed' = {} /\ executed = {} /\ sent' = TRUE
      /\ Sender(call') /\ UNCHANGED <<hw, cache, known, doubt>>
  BY Senders DEF PatternSend, EnqueueAndSend, IInv, PackageInv
<1>2. new \in Seq(CommandType) /\ DOMAIN new = {}
  OBVIOUS
<1> HIDE DEF new
<1>3. CacheInv' /\ LegalInv'
  BY <1>1, <1>2, Harmless
<1>4. cache' \in CacheType
  BY <1>1 DEF IInv, TypeOK
<1>5. /\ TypeOK' /\ CommandInv' /\ PackageInv' /\ CallInv' /\ StartupInv'
      /\ DescriptorInv' /\ SettledInv'
  BY <1>1, <1>2, <1>4, Joins
<1> QED BY <1>3, <1>5 DEF IInv

LEMMA QueryKeeps == ASSUME IInv, NEW op \in {"attribute", "flag"}, Query(op) PROVE IInv'
<1> DEFINE c == [Command("query") EXCEPT !.waits = FALSE]
<1>1. c \in CommandType /\ c.op = "query" /\ CommandOk(c)
  BY Commands
<1> HIDE DEF c
<1>2. <<c>> \in Seq(CommandType) /\ (\A i \in DOMAIN <<c>> : CommandOk(<<c>>[i]) /\ <<c>>[i].op = "query")
  BY <1>1
<1>3. Idle /\ ~sent /\ cmds' = cmds \o <<c>> /\ executed' = {} /\ executed = {} /\ sent' = TRUE
      /\ Sender(call') /\ UNCHANGED <<hw, cache, known, doubt>>
  BY Senders DEF Query, EnqueueAndSend, c, IInv, PackageInv
<1>4. CacheInv' /\ LegalInv'
  BY <1>2, <1>3, Harmless
<1>5. /\ TypeOK' /\ CommandInv' /\ PackageInv' /\ CallInv' /\ StartupInv'
      /\ DescriptorInv' /\ SettledInv'
  BY <1>2, <1>3, Joins DEF IInv, TypeOK
<1> QED BY <1>4, <1>5 DEF IInv

-----------------------------------------------------------------------------
(* Changes of speed and clock. *)

SpeedsIn(p) == {j \in DOMAIN p : p[j].op = "speed"}
SpeedsBefore(p, i) == {j \in SpeedsIn(p) : j < i}

(* The speed a package p that is still to run takes the link to is s.      *)
EndsAt(p, s) ==
  /\ SpeedsIn(p) = {} => hw.speed = s
  /\ \A j \in Last(SpeedsIn(p)) : p[j].speed = s

LegalIn(p, i) ==
  /\ SpeedsBefore(p, i) = {} => Fits(p[i], hw.speed)
  /\ \A j \in Last(SpeedsBefore(p, i)) : Fits(p[i], p[j].speed)

LEMMA SpeedCommandsAre ==
  ASSUME TypeOK, NEW s \in SpeedType, NEW b \in BOOLEAN
  PROVE  LET new  == SpeedCommands(s, b)
             rate == cache.speed.hsrate
         IN  /\ new \in Seq(CommandType) /\ Len(new) \in {1, 3} /\ DOMAIN new = 1 .. Len(new)
             /\ \A i \in 1 .. Len(new) : CommandOk(new[i]) /\ new[i].op = "speed" /\ new[i].blind = b
             /\ new[Len(new)].speed = s
             /\ Len(new) = 1 => cache.startup = "HS" \/ s.hsrate = rate
             /\ Len(new) = 3 =>
                  /\ cache.startup = "LS"
                  /\ new[1].speed = Both("SLOW", 1, rate) /\ new[2].speed = Both("SLOW", 1, s.hsrate)
<1> DEFINE rate == cache.speed.hsrate
           one == Change(s, b)
           two == <<Change(Both("SLOW", 1, rate), b), Change(Both("SLOW", 1, s.hsrate), b), Change(s, b)>>
<1>1. rate \in {"A", "B"} /\ s.hsrate \in {"A", "B"} /\ cache.startup \in Starts
  BY DEF TypeOK, CacheType, SpeedType
<1>2. Both("SLOW", 1, rate) \in SpeedType /\ Both("SLOW", 1, s.hsrate) \in SpeedType
  BY <1>1, BothTyped, SetupAssumption DEF Modes
<1>3. \A t \in SpeedType :
        LET c == Change(t, b)
        IN  c \in CommandType /\ c.op = "speed" /\ c.speed = t /\ c.blind = b /\ CommandOk(c)
  BY ChangeIs
<1>4. CASE cache.startup = "LS" /\ s.hsrate # rate
  <2>1. SpeedCommands(s, b) = two
    BY <1>4 DEF SpeedCommands
  <2>2. two \in Seq(CommandType) /\ Len(two) = 3 /\ DOMAIN two = 1 .. 3
    BY <1>2, <1>3
  <2>3. /\ two[1] = Change(Both("SLOW", 1, rate), b) /\ two[2] = Change(Both("SLOW", 1, s.hsrate), b)
        /\ two[3] = Change(s, b)
    OBVIOUS
  <2>4. /\ \A i \in 1 .. 3 : CommandOk(two[i]) /\ two[i].op = "speed" /\ two[i].blind = b
        /\ two[1].speed = Both("SLOW", 1, rate) /\ two[2].speed = Both("SLOW", 1, s.hsrate)
        /\ two[3].speed = s
    <3> HIDE DEF two
    <3>1. \A i \in 1 .. 3 : i = 1 \/ i = 2 \/ i = 3
      OBVIOUS
    <3> QED BY <3>1, <2>3, <1>2, <1>3
  <2> HIDE DEF two
  <2> QED BY <1>4, <2>1, <2>2, <2>4
<1>5. CASE ~(cache.startup = "LS" /\ s.hsrate # rate)
  <2>1. SpeedCommands(s, b) = <<one>>
    BY <1>5 DEF SpeedCommands
  <2>2. one \in CommandType /\ one.op = "speed" /\ one.speed = s /\ one.blind = b /\ CommandOk(one)
    BY <1>3
  <2> HIDE DEF one
  <2> QED BY <1>1, <1>5, <2>1, <2>2 DEF Starts
<1> QED BY <1>4, <1>5

LEMMA SlowIsSlow ==
  ASSUME NEW rate
  PROVE  SlowGearOne(Both("SLOW", 1, rate)) /\ Both("SLOW", 1, rate).hsrate = rate
  BY DEF SlowGearOne, LsMode, Both

LEMMA LastIs ==
  ASSUME NEW S, NEW m, m \in S, \A j \in S : j \in Int /\ j <= m
  PROVE  Last(S) = {m}
<1>1. m \in Last(S)
  BY DEF Last
<1>2. ASSUME NEW j \in Last(S) PROVE j = m
  BY <1>2 DEF Last
<1> QED BY <1>1, <1>2

LEMMA LastOfThree ==
  ASSUME NEW L \in Nat, NEW S, S \subseteq 1 .. L, NEW P, P = S \cup (L + 1 .. L + 3)
  PROVE  /\ Last({j \in P : j < L + 2}) = {L + 1}
         /\ Last({j \in P : j < L + 3}) = {L + 2}
<1>1. \A j \in P : j \in Int
  OBVIOUS
<1>2. L + 1 \in P /\ L + 2 \in P
  OBVIOUS
<1>3. Last({j \in P : j < L + 2}) = {L + 1}
  <2> DEFINE Q == {j \in P : j < L + 2}
  <2>1. L + 1 \in Q /\ \A j \in Q : j \in Int /\ j <= L + 1
    BY <1>1, <1>2
  <2> HIDE DEF Q
  <2>2. Last(Q) = {L + 1}
    BY <2>1, LastIs
  <2> QED BY <2>2 DEF Q
<1>4. Last({j \in P : j < L + 3}) = {L + 2}
  <2> DEFINE Q == {j \in P : j < L + 3}
  <2>1. L + 2 \in Q /\ \A j \in Q : j \in Int /\ j <= L + 2
    BY <1>1, <1>2
  <2> HIDE DEF Q
  <2>2. Last(Q) = {L + 2}
    BY <2>1, LastIs
  <2> QED BY <2>2 DEF Q
<1> QED BY <1>3, <1>4

(* A change of speed behind a package: the cache is where the link will    *)
(* be, and the commands fit, the way through slow mode included.           *)
LEMMA SpeedPushed ==
  ASSUME TypeOK, StartupInv, "mode" \notin doubt => cache.startup = hw.setting,
         NEW old \in Seq(CommandType), NEW s \in SpeedType, ~ShallNotChangeToSlow(s),
         "speed" \notin doubt => EndsAt(old, cache.speed),
         \A i \in DOMAIN old : ~old[i].blind => LegalIn(old, i),
         cmds' = old \o SpeedCommands(s, Unsure), executed' = {}, hw' = hw, cache'.speed = s
  PROVE  SpeedFollows' /\ LegalInv'
<1> DEFINE new == SpeedCommands(s, Unsure)
           rate == cache.speed.hsrate
           L == Len(old)
           n == Len(new)
<1>0. Unsure \in BOOLEAN
  BY DEF Unsure
<1>1. /\ new \in Seq(CommandType) /\ n \in {1, 3} /\ DOMAIN new = 1 .. n
      /\ \A i \in 1 .. n : new[i].op = "speed" /\ new[i].blind = Unsure
      /\ new[n].speed = s
      /\ n = 1 => cache.startup = "HS" \/ s.hsrate = rate
      /\ n = 3 =>
           /\ cache.startup = "LS"
           /\ new[1].speed = Both("SLOW", 1, rate) /\ new[2].speed = Both("SLOW", 1, s.hsrate)
  BY <1>0, SpeedCommandsAre
<1>2. cmds' = old \o new
  OBVIOUS
<1> HIDE DEF new
<1>3. /\ L \in Nat /\ DOMAIN old = 1 .. L /\ DOMAIN cmds' = 1 .. L + n
      /\ \A i \in 1 .. L : cmds'[i] = old[i]
      /\ \A i \in 1 .. n : cmds'[L + i] = new[i]
  BY <1>1, <1>2
<1> HIDE DEF L, n
<1>4. \A i \in 1 .. L + n : i \notin 1 .. L => i \in {L + 1, L + 2, L + 3} /\ cmds'[i].op = "speed" /\ cmds'[i].blind = Unsure
  <2> SUFFICES ASSUME NEW i \in 1 .. L + n, i \notin 1 .. L
               PROVE  i \in {L + 1, L + 2, L + 3} /\ cmds'[i].op = "speed" /\ cmds'[i].blind = Unsure
    OBVIOUS
  <2>1. i - L \in 1 .. n /\ L + (i - L) = i /\ i - L \in {1, 2, 3}
    BY <1>1, <1>3
  <2>2. cmds'[L + (i - L)] = new[i - L]
    BY <2>1, <1>3
  <2>3. new[i - L].op = "speed" /\ new[i - L].blind = Unsure
    BY <2>1, <1>1
  <2>4. i \in {L + 1, L + 2, L + 3}
    BY <2>1, <1>3
  <2>5. cmds'[i] = new[i - L]
    BY <2>1, <2>2
  <2> QED BY <2>3, <2>4, <2>5
<1>5. Open("speed")' = SpeedsIn(old) \cup (L + 1 .. L + n)
  <2>1. Open("speed")' = {i \in 1 .. L + n : cmds'[i].op = "speed"}
    BY <1>3 DEF Open
  <2>2. \A i \in L + 1 .. L + n : i \in 1 .. L + n /\ i \notin 1 .. L
    BY <1>1, <1>3
  <2>3. \A i \in 1 .. L : i \in 1 .. L + n /\ cmds'[i] = old[i]
    BY <1>1, <1>3
  <2>4. SpeedsIn(old) = {i \in 1 .. L : old[i].op = "speed"}
    BY <1>3 DEF SpeedsIn
  <2>5. \A i \in 1 .. L + n : i \in 1 .. L \/ i \in L + 1 .. L + n
    BY <1>1, <1>3
  <2>6. \A i \in L + 1 .. L + n : cmds'[i].op = "speed"
    BY <2>2, <1>4
  <2> QED BY <2>1, <2>2, <2>3, <2>4, <2>5, <2>6
<1>6. SpeedFollows'
  <2>1. L + n \in Open("speed")' /\ (\A j \in Open("speed")' : j \in Int /\ j <= L + n)
    BY <1>1, <1>3, <1>5 DEF SpeedsIn
  <2>2. Last(Open("speed")') = {L + n}
    BY <2>1, <1>1, <1>3 DEF Last
  <2>3. cmds'[L + n].speed = s
    BY <1>1, <1>3
  <2> QED BY <2>1, <2>2, <2>3 DEF SpeedFollows, Last
<1>7. \A i \in 1 .. L : OpenBefore(i)' = SpeedsBefore(old, i)
  BY <1>1, <1>3, <1>5 DEF OpenBefore, SpeedsBefore, SpeedsIn
<1>8. OpenBefore(L + 1)' = SpeedsIn(old)
  BY <1>1, <1>3, <1>5 DEF OpenBefore, SpeedsIn
<1>9. n = 3 => Last(OpenBefore(L + 2)') = {L + 1} /\ Last(OpenBefore(L + 3)') = {L + 2}
  <2> SUFFICES ASSUME n = 3 PROVE Last(OpenBefore(L + 2)') = {L + 1} /\ Last(OpenBefore(L + 3)') = {L + 2}
    OBVIOUS
  <2>1. SpeedsIn(old) \subseteq 1 .. L /\ L \in Nat
    BY <1>3 DEF SpeedsIn
  <2>2. Open("speed")' = SpeedsIn(old) \cup (L + 1 .. L + 3)
    BY <1>5
  <2> QED BY <2>1, <2>2, LastOfThree DEF OpenBefore
<1>10. \A i \in 1 .. L : ~cmds'[i].blind => Legal(i)'
  <2> SUFFICES ASSUME NEW i \in 1 .. L, ~cmds'[i].blind PROVE Legal(i)'
    OBVIOUS
  <2>1. LegalIn(old, i) /\ cmds'[i] = old[i] /\ OpenBefore(i)' = SpeedsBefore(old, i)
    BY <1>3, <1>7
  <2>2. \A j \in SpeedsBefore(old, i) : cmds'[j] = old[j]
    BY <1>3 DEF SpeedsBefore, SpeedsIn
  <2> QED BY <2>1, <2>2 DEF LegalIn, Legal, Last, Fits
<1>11. ASSUME ~Unsure PROVE \A i \in L + 1 .. L + n : Legal(i)'
  <2>1. EndsAt(old, cache.speed) /\ cache.startup = hw.startup /\ hw.startup \in Starts
    BY <1>11 DEF Unsure, StartupInv, TypeOK, HwType
  <2>2. hw.startup = "HS" => ~Slow(s)
    BY <2>1 DEF ShallNotChangeToSlow
  <2>3. Fits(cmds'[L + 1], cache.speed)
    <3>1. cmds'[L + 1].op = "speed"
      BY <1>1, <1>3
    <3>2. CASE n = 1
      <4>1. cmds'[L + 1].speed = s
        BY <3>2, <1>1, <1>3
      <4> QED BY <3>1, <3>2, <4>1, <1>1, <2>1, <2>2 DEF Fits
    <3>3. CASE n = 3
      <4>1. cmds'[L + 1].speed.hsrate = rate
        <5>1. cmds'[L + 1] = new[1]
          BY <3>3, <1>3
        <5>2. new[1].speed = Both("SLOW", 1, rate)
          BY <3>3, <1>1
        <5> QED BY <5>1, <5>2, SlowIsSlow
      <4> QED BY <3>1, <3>3, <4>1, <1>1, <2>1 DEF Fits
    <3> QED BY <3>2, <3>3, <1>1
  <2>4. Legal(L + 1)'
    <3>1. \A j \in Last(SpeedsIn(old)) : cmds'[j].speed = cache.speed
      BY <1>3, <2>1 DEF EndsAt, Last, SpeedsIn
    <3> QED BY <1>8, <2>1, <2>3, <3>1 DEF Legal, EndsAt, Last, Fits
  <2>5. ASSUME n = 3 PROVE Legal(L + 2)' /\ Legal(L + 3)'
    <3>1. L + 1 \in OpenBefore(L + 2)' /\ L + 2 \in OpenBefore(L + 3)'
      BY <2>5, <1>9 DEF Last
    <3>2. cmds'[L + 1].speed = Both("SLOW", 1, rate) /\ cmds'[L + 2].speed = Both("SLOW", 1, s.hsrate)
      BY <2>5, <1>1, <1>3
    <3>a. 2 \in 1 .. n /\ 3 \in 1 .. n
      BY <2>5
    <3>b. cmds'[L + 2] = new[2] /\ cmds'[L + 3] = new[3]
      BY <3>a, <1>3
    <3>3. cmds'[L + 2].op = "speed" /\ cmds'[L + 3].op = "speed" /\ cmds'[L + 3].speed = s
      BY <3>a, <3>b, <2>5, <1>1
    <3>4. hw.startup = "LS"
      BY <2>5, <2>1, <1>1
    <3>5. Fits(cmds'[L + 2], Both("SLOW", 1, rate)) /\ Fits(cmds'[L + 3], Both("SLOW", 1, s.hsrate))
      BY <3>3, <3>4, SlowIsSlow DEF Fits
    <3> QED BY <3>1, <3>2, <3>5, <2>5, <1>9 DEF Legal, Last, Fits
  <2>6. \A i \in L + 1 .. L + n : i = L + 1 \/ (n = 3 /\ (i = L + 2 \/ i = L + 3))
    BY <1>1, <1>3
  <2> QED BY <2>4, <2>5, <2>6
<1>12. LegalInv'
  <2> SUFFICES ASSUME NEW i \in 1 .. L + n, ~cmds'[i].blind PROVE Legal(i)'
    BY <1>3 DEF LegalInv
  <2>1. CASE i \in 1 .. L
    BY <2>1, <1>10
  <2>2. CASE i \notin 1 .. L
    <3>1. ~Unsure /\ i \in L + 1 .. L + n
      BY <2>2, <1>3, <1>4, <1>1
    <3> QED BY <3>1, <1>11
  <2> QED BY <2>1, <2>2
<1> QED BY <1>6, <1>12

(* In a package that is not sent everything is still to come.              *)
LEMMA NothingExecuted ==
  ASSUME IInv, ~sent
  PROVE  /\ executed = {}
         /\ Open("speed") = SpeedsIn(cmds)
         /\ "speed" \notin doubt => EndsAt(cmds, cache.speed)
         /\ \A i \in DOMAIN cmds : ~cmds[i].blind => LegalIn(cmds, i)
<1>1. executed = {}
  BY DEF IInv, PackageInv
<1>2. Open("speed") = SpeedsIn(cmds)
  BY <1>1 DEF Open, SpeedsIn
<1>3. "speed" \notin doubt => EndsAt(cmds, cache.speed)
  BY <1>2 DEF IInv, CacheInv, SpeedFollows, EndsAt, Last
<1>4. ASSUME NEW i \in DOMAIN cmds, ~cmds[i].blind PROVE LegalIn(cmds, i)
  <2>1. Legal(i) /\ OpenBefore(i) = SpeedsBefore(cmds, i)
    BY <1>1, <1>2, <1>4 DEF IInv, LegalInv, OpenBefore, SpeedsBefore
  <2> QED BY <2>1 DEF Legal, LegalIn
<1> QED BY <1>1, <1>2, <1>3, <1>4

LEMMA PushSpeedChangeKeeps ==
  ASSUME IInv, NEW r \in SpeedRequests, NEW sends \in BOOLEAN, PushSpeedChange(r, sends)
  PROVE  IInv'
<1> DEFINE s   == Requested(r)
           new == SpeedCommands(s, Unsure)
<1>1. s \in SpeedType
  BY SetupAssumption DEF Requested, IInv, TypeOK, CacheType
<1>2. Idle /\ ~sent /\ ~ShallNotChangeToSlow(s) /\ cmds' = cmds \o new
      /\ cache' = [cache EXCEPT !.speed = s] /\ doubt' = doubt \ {"speed"} /\ UNCHANGED <<hw, known>>
  BY DEF PushSpeedChange, EnqueueAndSend
<1>3. executed' = {} /\ (UNCHANGED <<sent, call>> \/ (sent' = TRUE /\ Sender(call')))
  BY NothingExecuted, Senders DEF PushSpeedChange, EnqueueAndSend
<1>4. cache' \in CacheType /\ cache'.speed = s /\ cache'.startup = cache.startup /\ cache'.refclk = cache.refclk
  BY <1>1, <1>2 DEF IInv, TypeOK, CacheType
<1>5. new \in Seq(CommandType) /\ (\A i \in DOMAIN new : CommandOk(new[i]) /\ new[i].op = "speed")
  <2>1. TypeOK /\ Unsure \in BOOLEAN
    BY DEF IInv, Unsure
  <2> HIDE DEF s
  <2> QED BY <1>1, <2>1, SpeedCommandsAre
<1>6. SpeedFollows' /\ LegalInv'
  BY <1>1, <1>2, <1>3, <1>4, NothingExecuted, SpeedPushed DEF IInv, CacheInv, TypeOK
<1> HIDE DEF new, s
<1>7. /\ TypeOK' /\ CommandInv' /\ PackageInv' /\ CallInv' /\ StartupInv'
      /\ DescriptorInv' /\ SettledInv'
  BY <1>2, <1>3, <1>4, <1>5, Joins
<1>8. CacheInv'
  <2>1. /\ DOMAIN cmds \subseteq DOMAIN cmds'
        /\ \A i \in DOMAIN cmds : cmds'[i] = cmds[i]
        /\ \A i \in DOMAIN cmds' : i \notin DOMAIN cmds => i - Len(cmds) \in DOMAIN new /\ cmds'[i] = new[i - Len(cmds)]
    BY <1>2, <1>3, <1>5, Appended DEF IInv
  <2>2. Open("clock")' = Open("clock")
    BY <2>1, <1>3, <1>5, NothingExecuted, <1>2 DEF Open
  <2>3. "clock" \notin doubt' => ClockFollows'
    BY <2>1, <2>2, <1>2, <1>4, ClockKept DEF IInv, CacheInv, Open
  <2> QED BY <2>3, <1>2, <1>4, <1>6 DEF IInv, CacheInv
<1> QED BY <1>6, <1>7, <1>8 DEF IInv

LEMMA PushSwitchRefClkKeeps ==
  ASSUME IInv, NEW clk \in Clocks, NEW sends \in BOOLEAN, PushSwitchRefClk(clk, sends)
  PROVE  IInv'
<1> DEFINE attr  == AttrCommand(clk, Unsure \/ ~LsMode(cache.speed))
           clock == [Command("clock") EXCEPT !.clock = clk]
           L     == Len(cmds)
<1>1. /\ attr \in CommandType /\ attr.op = "attr" /\ attr.blind = (Unsure \/ ~LsMode(cache.speed)) /\ CommandOk(attr)
      /\ clock \in CommandType /\ clock.op = "clock" /\ clock.clock = clk /\ CommandOk(clock)
  <2>1. clk \in ClockValues /\ (Unsure \/ ~LsMode(cache.speed)) \in BOOLEAN
    BY DEF ClockValues
  <2> QED BY <2>1, AttrIs, Commands
<1>2. Idle /\ ~sent /\ cmds' = cmds \o <<attr, clock>> /\ cache' = [cache EXCEPT !.refclk = clk]
      /\ doubt' = doubt \ {"clock"} /\ UNCHANGED <<hw, known>>
  BY DEF PushSwitchRefClk, EnqueueAndSend, ClockCommands
<1>3. executed' = {} /\ (UNCHANGED <<sent, call>> \/ (sent' = TRUE /\ Sender(call')))
  BY NothingExecuted, Senders DEF PushSwitchRefClk, EnqueueAndSend
<1>4. cache' \in CacheType /\ cache'.refclk = clk /\ cache'.startup = cache.startup /\ cache'.speed = cache.speed
  BY <1>2 DEF IInv, TypeOK, CacheType, ClockValues
<1> HIDE DEF attr, clock
<1>5. <<attr, clock>> \in Seq(CommandType) /\ (\A i \in DOMAIN <<attr, clock>> : CommandOk(<<attr, clock>>[i]))
  BY <1>1
<1>6. /\ TypeOK' /\ CommandInv' /\ PackageInv' /\ CallInv' /\ StartupInv'
      /\ DescriptorInv' /\ SettledInv'
  BY <1>2, <1>3, <1>4, <1>5, Joins
<1>7. /\ L \in Nat /\ DOMAIN cmds = 1 .. L /\ DOMAIN cmds' = 1 .. L + 2
      /\ \A i \in 1 .. L : cmds'[i] = cmds[i]
      /\ cmds'[L + 1] = attr /\ cmds'[L + 2] = clock
  BY <1>1, <1>2 DEF IInv, TypeOK
<1> HIDE DEF L
<1>8. executed = {}
  BY <1>2, NothingExecuted
<1>9. \A i \in 1 .. L + 2 : i \notin 1 .. L => i = L + 1 \/ i = L + 2
  BY <1>7
<1>10. Open("speed")' = Open("speed") /\ (\A i \in Open("speed") : i \in 1 .. L /\ cmds'[i] = cmds[i])
  BY <1>1, <1>3, <1>7, <1>8, <1>9 DEF Open
<1>11. "speed" \notin doubt' => SpeedFollows'
  BY <1>10, <1>2, <1>4, SpeedKept DEF IInv, CacheInv
<1>12. ClockFollows'
  <2>1. L + 2 \in Open("clock")' /\ (\A j \in Open("clock")' : j \in Int /\ j <= L + 2)
    BY <1>1, <1>3, <1>7 DEF Open
  <2>2. Last(Open("clock")') = {L + 2}
    BY <2>1, <1>7 DEF Last
  <2> QED BY <2>1, <2>2, <1>1, <1>4, <1>7 DEF ClockFollows, Last
<1>13. ASSUME NEW i \in 1 .. L + 2, ~cmds'[i].blind PROVE Legal(i)'
  <2>1. CASE i \in 1 .. L
    BY <2>1, <1>2, <1>7, <1>8, <1>10, <1>13, LegalKept DEF IInv
  <2>2. CASE i = L + 1
    <3>1. ~Unsure /\ LsMode(cache.speed)
      BY <2>2, <1>1, <1>7, <1>13
    <3>2. SpeedFollows
      BY <3>1 DEF Unsure, IInv, CacheInv
    <3>3. OpenBefore(i)' = Open("speed")
      BY <2>2, <1>7, <1>10 DEF OpenBefore
    <3>4. Fits(attr, cache.speed)
      BY <3>1, <1>1 DEF Fits
    <3> QED BY <3>2, <3>3, <3>4, <2>2, <1>2, <1>7, <1>10 DEF Legal, SpeedFollows, Last, Fits
  <2>3. CASE i = L + 2
    BY <2>3, <1>1, <1>7 DEF Legal, Fits
  <2> QED BY <2>1, <2>2, <2>3, <1>9
<1>14. LegalInv'
  BY <1>7, <1>13 DEF LegalInv
<1>15. CacheInv'
  BY <1>2, <1>4, <1>11, <1>12 DEF IInv, CacheInv
<1> QED BY <1>6, <1>14, <1>15 DEF IInv

-----------------------------------------------------------------------------
(* Initialisation, up to the descriptors. *)

LEMMA FirstSpeeds ==
  /\ \A startup \in Starts : FirstSpeed(startup) \in SpeedType
  /\ FirstSpeed("HS") = FullSpeed /\ FullSpeed \in SpeedType
  /\ Slow(FirstSpeed("LS")) /\ LsMode(FirstSpeed("LS")) /\ ~Slow(FullSpeed)
<1>1. \A startup \in Starts : FirstSpeed(startup) \in SpeedType
  BY BothTyped, SetupAssumption DEF FirstSpeed, Starts, Modes
<1>2. FullSpeed \in SpeedType
  BY BothTyped, SetupAssumption DEF FullSpeed, Modes
<1> QED BY <1>1, <1>2 DEF FirstSpeed, FullSpeed, Slow, LsMode, Both

(* A call that begins looks at nothing.                                    *)
LEMMA CallBegins ==
  ASSUME IInv, Idle, UNCHANGED <<hw, cache, known, cmds, sent, executed, doubt>>,
         call' \in CallType, call'.step \in {"link", "dcmd5"}, CallInv', SettledInv'
  PROVE  IInv'
<1>1. ~Running /\ ~Running'
  BY IdleIs DEF Running
<1>2. TypeOK' /\ CommandInv' /\ PackageInv' /\ StartupInv' /\ DescriptorInv'
  BY <1>1 DEF IInv, TypeOK, CommandInv, PackageInv, StartupInv, DescriptorInv
<1>3. Open("speed")' = Open("speed") /\ Open("clock")' = Open("clock")
  BY DEF Open
<1>4. CacheInv'
  BY <1>3 DEF IInv, CacheInv, SpeedFollows, ClockFollows, Last
<1>5. LegalInv'
  BY DEF IInv, LegalInv, Legal, OpenBefore, Open, Last, Fits, Slow, LsMode, SlowGearOne
<1> QED BY <1>2, <1>4, <1>5 DEF IInv

LEMMA InitTesterToUnitReadyKeeps ==
  ASSUME IInv, NEW r \in DefaultInits \cup InitRequests, InitTesterToUnitReady(r)
  PROVE  IInv'
<1>1. r.speed \in SpeedType /\ r.clock \in ClockValues /\ r.timing \in Timings /\ r.stop \in BOOLEAN
  <2>1. CASE r \in InitRequests
    BY <2>1, SetupAssumption DEF InitType, ClockValues
  <2>2. CASE r \in DefaultInits
    <3>1. CachedSpeed \in SpeedType
      BY BothTyped DEF CachedSpeed, IInv, TypeOK, CacheType, SpeedType
    <3>2. cache.refclk \in ClockValues
      BY DEF IInv, TypeOK, CacheType
    <3> QED BY <2>2, <3>1, <3>2 DEF DefaultInits, Timings
  <2> QED BY <2>1, <2>2
<1>2. call' = [NoCall EXCEPT !.op = "init", !.step = "dcmd5", !.speed = r.speed,
                            !.clock = r.clock, !.timing = r.timing, !.stop = r.stop]
  BY DEF InitTesterToUnitReady
<1>3. call' \in CallType /\ call'.op = "init" /\ call'.step = "dcmd5" /\ call'.speed \in SpeedType
      /\ call'.timing \in Timings
  BY <1>1, <1>2 DEF NoCall, CallType, ClockValues, Steps, LinkSteps
<1>4. CallInv' /\ SettledInv'
  BY <1>3 DEF CallInv, SettledInv, LinkSteps
<1> QED BY <1>3, <1>4, CallBegins DEF InitTesterToUnitReady

LEMMA FirstInitKeeps ==
  ASSUME IInv, NEW startup \in {"LS", "HS"}, NEW clk \in Clocks, FirstInit(startup, clk)
  PROVE  IInv'
<1>1. call' = [NoCall EXCEPT !.op = "first", !.step = "link", !.startup = startup, !.clock = clk,
                            !.speed = FirstSpeed(startup), !.timing = "AFTER_INIT",
                            !.carried = Pending]
      /\ UNCHANGED <<hw, cache, known, cmds, sent, executed, doubt>> /\ Idle
  BY DEF FirstInit
<1>2. FirstSpeed(startup) \in SpeedType /\ Pending \in BOOLEAN
  BY FirstSpeeds DEF Starts, Pending
<1>3. call' \in CallType
  BY <1>1, <1>2 DEF NoCall, CallType, ClockValues, Steps, LinkSteps, Starts, Timings
<1>4. /\ call'.op = "first" /\ call'.step = "link" /\ call'.speed = FirstSpeed(startup)
      /\ call'.startup = startup /\ call'.timing = "AFTER_INIT" /\ ~call'.stop
  BY <1>1 DEF NoCall
<1>5. CallInv'
  BY <1>2, <1>4 DEF CallInv, LinkSteps, Starts, Timings
<1>6. ~Pending => cmds = <<>>
  BY <1>1, IdleIs DEF IInv, PackageInv, Pending, TypeOK
<1>7. call'.carried = Pending
  BY <1>1 DEF NoCall
<1>8. SettledInv'
  BY <1>1, <1>4, <1>6, <1>7 DEF SettledInv, LinkSteps
<1> QED BY <1>1, <1>3, <1>4, <1>5, <1>8, CallBegins

(* The link is reset under the commands that wait: they are blind now.     *)
LEMMA Blind ==
  ASSUME IInv, ~Running, cmds' = (IF sent THEN cmds ELSE Blinded), UNCHANGED <<sent, executed>>,
         hw' \in HwType
  PROVE  /\ cmds' \in Seq(CommandType) /\ executed' \subseteq DOMAIN cmds' /\ CommandInv'
         /\ LegalInv' /\ (sent => cmds' = <<>>) /\ (~sent => executed' = {})
         /\ DOMAIN cmds' = DOMAIN cmds /\ \A i \in DOMAIN cmds : cmds'[i].op = cmds[i].op
<1>1. CASE sent
  <2>1. cmds = <<>> /\ cmds' = <<>>
    BY <1>1 DEF IInv, PackageInv
  <2> QED BY <2>1, <1>1 DEF IInv, TypeOK, CommandInv, LegalInv
<1>2. CASE ~sent
  <2>1. cmds' = Blinded /\ executed' = {}
    BY <1>2 DEF IInv, PackageInv
  <2>2. \A c \in CommandType :
          /\ [c EXCEPT !.blind = TRUE] \in CommandType
          /\ [c EXCEPT !.blind = TRUE].op = c.op /\ [c EXCEPT !.blind = TRUE].blind
          /\ CommandOk(c) => CommandOk([c EXCEPT !.blind = TRUE])
    BY DEF CommandType, CommandOk
  <2>a. cmds \in Seq(CommandType) /\ CommandInv
    BY DEF IInv, TypeOK
  <2>b. \A i \in DOMAIN cmds : cmds[i] \in CommandType
    BY <2>a
  <2>3. \A i \in DOMAIN cmds : cmds[i] \in CommandType /\ cmds'[i] = [cmds[i] EXCEPT !.blind = TRUE]
    BY <2>1, <2>b DEF Blinded
  <2>4. DOMAIN cmds' = DOMAIN cmds
    BY <2>1 DEF Blinded
  <2>5. cmds' \in Seq(CommandType)
    BY <2>1, <2>2, <2>3 DEF Blinded, IInv, TypeOK
  <2>6. CommandInv'
    <3> SUFFICES ASSUME NEW i \in DOMAIN cmds PROVE CommandOk(cmds'[i])
      BY <2>4 DEF CommandInv
    <3>1. cmds[i] \in CommandType /\ CommandOk(cmds[i])
      BY <2>3, <2>a DEF CommandInv
    <3>2. CommandOk([cmds[i] EXCEPT !.blind = TRUE])
      BY <3>1, <2>2
    <3> QED BY <3>2, <2>3
  <2>7. LegalInv'
    <3>1. ASSUME NEW i \in DOMAIN cmds PROVE cmds'[i].blind
      <4>1. cmds[i] \in CommandType /\ cmds'[i] = [cmds[i] EXCEPT !.blind = TRUE]
        BY <2>3
      <4> QED BY <4>1 DEF CommandType
    <3> QED BY <3>1, <2>4 DEF LegalInv
  <2> QED BY <2>1, <2>2, <2>3, <2>4, <2>5, <2>6, <2>7, <1>2
<1> QED BY <1>1, <1>2

LEMMA LinkedTyped ==
  ASSUME IInv
  PROVE  /\ Linked \in HwType /\ Linked.startup = hw.setting /\ Linked.setting = hw.setting
         /\ Linked.device = hw.device
         /\ \A clk \in ClockValues :
              /\ [Linked EXCEPT !.clock = clk] \in HwType
              /\ [Linked EXCEPT !.clock = clk].startup = hw.setting
              /\ [Linked EXCEPT !.clock = clk].setting = hw.setting
<1>1. LinkDefault \in SpeedType
  BY BothTyped, SetupAssumption DEF LinkDefault, Modes
<1> QED BY <1>1 DEF Linked, IInv, TypeOK, HwType

LEMMA Dcmd5FailsKeeps == ASSUME IInv, Dcmd5Fails PROVE IInv'
<1>1. /\ call.step = "dcmd5" /\ hw' \in {hw, Linked, [Linked EXCEPT !.clock = call.clock]}
      /\ doubt' = doubt \cup {"speed", "clock"} /\ cmds' = (IF sent THEN cmds ELSE Blinded)
      /\ call' = NoCall /\ UNCHANGED <<cache, known, sent, executed>>
  BY DEF Dcmd5Fails, Raise
<1>2. ~Running /\ call.clock \in ClockValues
  BY <1>1 DEF Running, IInv, TypeOK, CallType
<1>3. hw' \in HwType /\ hw'.setting = hw.setting /\ (hw' = hw \/ hw'.startup = hw.setting)
  <2>1. hw \in HwType
    BY DEF IInv, TypeOK
  <2>2. hw' = hw \/ hw' = Linked \/ hw' = [Linked EXCEPT !.clock = call.clock]
    BY <1>1
  <2> QED BY <1>2, <2>1, <2>2, LinkedTyped
<1>4. TypeOK' /\ CommandInv' /\ LegalInv' /\ PackageInv'
  BY <1>1, <1>2, <1>3, Blind, NoCallTyped DEF IInv, TypeOK, PackageInv, Running
<1>5. CallInv' /\ DescriptorInv' /\ SettledInv'
  BY <1>1, NoCallTyped DEF CallInv, DescriptorInv, SettledInv, LinkSteps
<1>6. StartupInv' /\ CacheInv'
  BY <1>1, <1>3 DEF IInv, StartupInv, CacheInv
<1> QED BY <1>4, <1>5, <1>6 DEF IInv

LEMMA LinkStartupKeeps == ASSUME IInv, LinkStartup PROVE IInv'
<1>1. /\ call.step = "link" /\ doubt' = doubt \cup {"speed", "clock"}
      /\ cmds' = (IF sent THEN cmds ELSE Blinded) /\ UNCHANGED <<cache, known, sent, executed>>
  BY DEF LinkStartup
<1>2. ~Running /\ call.clock \in ClockValues /\ call.op = "first" /\ call.startup \in Starts
      /\ call.speed = FirstSpeed(call.startup) /\ call.timing = "AFTER_INIT" /\ ~call.stop
  BY <1>1 DEF Running, IInv, TypeOK, CallType, CallInv, LinkSteps
<1>3. hw' \in HwType /\ hw'.setting = hw.setting /\ (hw'.startup = hw.startup \/ hw'.startup = hw.setting)
  BY <1>2, LinkedTyped DEF LinkStartup, IInv, TypeOK, HwType
<1>4. /\ cmds' \in Seq(CommandType) /\ executed' \subseteq DOMAIN cmds' /\ CommandInv'
      /\ LegalInv' /\ (sent => cmds' = <<>>) /\ (~sent => executed' = {})
      /\ DOMAIN cmds' = DOMAIN cmds
  BY <1>1, <1>2, <1>3, Blind
<1>5. StartupInv' /\ CacheInv'
  BY <1>1, <1>3, LinkedTyped, <1>2 DEF IInv, StartupInv, CacheInv, LinkStartup, HwType, TypeOK
<1>6. CASE call' = NoCall
  <2>1. TypeOK' /\ PackageInv'
    BY <1>1, <1>3, <1>4, <1>6, NoCallTyped DEF IInv, TypeOK, PackageInv, Running
  <2>2. CallInv' /\ DescriptorInv' /\ SettledInv'
    BY <1>6, NoCallTyped DEF CallInv, DescriptorInv, SettledInv, LinkSteps
  <2> QED BY <2>1, <2>2, <1>4, <1>5 DEF IInv
<1>7. CASE call' = [call EXCEPT !.step = IF call.startup = "HS" THEN "mode" ELSE "dcmd5"]
  <2>1. call' \in CallType /\ call'.op = "first" /\ call'.startup = call.startup
        /\ call'.speed = call.speed /\ call'.timing = call.timing /\ call'.stop = call.stop
        /\ call'.carried = call.carried
        /\ call'.step = (IF call.startup = "HS" THEN "mode" ELSE "dcmd5")
    BY <1>2, <1>7 DEF IInv, TypeOK, CallType, Steps, LinkSteps
  <2>2. TypeOK' /\ PackageInv'
    BY <1>1, <1>3, <1>4, <2>1 DEF IInv, TypeOK, PackageInv, Running
  <2>3. CallInv'
    BY <1>1, <1>2, <2>1, FirstSpeeds DEF IInv, CallInv, LinkSteps, Starts
  <2>4. DescriptorInv'
    BY <2>1 DEF DescriptorInv
  <2>5. ~call.carried => cmds' = <<>>
    BY <1>1, <1>2, <1>4 DEF IInv, SettledInv, LinkSteps, TypeOK
  <2>6. SettledInv'
    BY <2>1, <2>5 DEF SettledInv, LinkSteps
  <2> QED BY <2>2, <2>3, <2>4, <2>6, <1>4, <1>5 DEF IInv
<1> QED BY <1>6, <1>7 DEF LinkStartup, Raise

LEMMA SetLinkStartupModeKeeps == ASSUME IInv, SetLinkStartupModeAndCheck PROVE IInv'
<1>1. call.step = "mode" /\ UNCHANGED <<known, cmds, sent, executed>>
  BY DEF SetLinkStartupModeAndCheck
<1>2. ~Running /\ call.op = "first" /\ call.startup = "HS" /\ call.startup \in Starts
      /\ call.speed = FirstSpeed(call.startup) /\ call.timing = "AFTER_INIT" /\ ~call.stop
  BY <1>1 DEF Running, IInv, CallInv, LinkSteps
<1>3. CASE call' = NoCall /\ UNCHANGED <<hw, cache, doubt>>
  <2>1. TypeOK' /\ PackageInv'
    BY <1>1, <1>2, <1>3, NoCallTyped DEF IInv, TypeOK, PackageInv, Running
  <2>2. CallInv' /\ DescriptorInv' /\ SettledInv'
    BY <1>3, NoCallTyped DEF CallInv, DescriptorInv, SettledInv, LinkSteps
  <2>3. CommandInv' /\ StartupInv'
    BY <1>1, <1>3 DEF IInv, CommandInv, StartupInv
  <2>4. Open("speed")' = Open("speed") /\ Open("clock")' = Open("clock")
    BY <1>1 DEF Open
  <2>5. CacheInv'
    BY <1>1, <1>3, <2>4 DEF IInv, CacheInv, SpeedFollows, ClockFollows, Last
  <2>6. LegalInv'
    BY <1>1, <1>3 DEF IInv, LegalInv, Legal, OpenBefore, Open, Last, Fits
  <2> QED BY <2>1, <2>2, <2>3, <2>5, <2>6 DEF IInv
<1>4. CASE /\ hw' = [hw EXCEPT !.setting = call.startup] /\ cache' = [cache EXCEPT !.startup = call.startup]
           /\ doubt' = (doubt \ {"mode"}) \cup {"startup"} /\ call' = [call EXCEPT !.step = "dcmd5"]
  <2>1. /\ hw' \in HwType /\ hw'.setting = "HS" /\ hw'.startup = hw.startup /\ hw'.speed = hw.speed
        /\ hw'.clock = hw.clock /\ cache' \in CacheType /\ cache'.startup = "HS"
        /\ cache'.speed = cache.speed /\ cache'.refclk = cache.refclk
    BY <1>2, <1>4 DEF IInv, TypeOK, HwType, CacheType
  <2>2. call' \in CallType /\ call'.op = "first" /\ call'.startup = call.startup
        /\ call'.speed = call.speed /\ call'.timing = call.timing /\ call'.stop = call.stop
        /\ call'.carried = call.carried /\ call'.step = "dcmd5"
    BY <1>2, <1>4 DEF IInv, TypeOK, CallType, Steps, LinkSteps
  <2>3. TypeOK' /\ PackageInv'
    BY <1>1, <1>2, <1>4, <2>1, <2>2 DEF IInv, TypeOK, PackageInv, Running
  <2>4. CallInv'
    BY <1>1, <1>2, <2>1, <2>2, FirstSpeeds DEF IInv, CallInv, LinkSteps, Timings
  <2>5. DescriptorInv'
    BY <2>2 DEF DescriptorInv
  <2>6. SettledInv'
    BY <1>1, <1>2, <2>2 DEF IInv, SettledInv, LinkSteps
  <2>7. CommandInv' /\ StartupInv'
    BY <1>1, <1>4 DEF IInv, CommandInv, StartupInv
  <2>8. Open("speed")' = Open("speed") /\ Open("clock")' = Open("clock")
    BY <1>1 DEF Open
  <2>9. CacheInv'
    BY <1>1, <1>4, <2>1, <2>8 DEF IInv, CacheInv, SpeedFollows, ClockFollows, Last
  <2>10. LegalInv'
    BY <1>1, <2>1 DEF IInv, LegalInv, Legal, OpenBefore, Open, Last, Fits
  <2> QED BY <2>3, <2>4, <2>5, <2>6, <2>7, <2>9, <2>10 DEF IInv
<1>5. CASE /\ hw' = [hw EXCEPT !.setting = call.startup] /\ UNCHANGED cache /\ call' = NoCall
           /\ doubt' = doubt \cup {"startup"} \cup (IF cache.startup # call.startup THEN {"mode"} ELSE {})
  <2>1. /\ hw' \in HwType /\ hw'.setting = "HS" /\ hw'.startup = hw.startup /\ hw'.speed = hw.speed
        /\ hw'.clock = hw.clock
    BY <1>2, <1>5 DEF IInv, TypeOK, HwType
  <2>2. /\ doubt \subseteq doubt' /\ doubt' \subseteq doubt \cup {"startup", "mode"}
        /\ "startup" \in doubt'
        /\ "mode" \notin doubt' => cache.startup = "HS"
    BY <1>2, <1>5
  <2>3. TypeOK' /\ PackageInv'
    BY <1>1, <1>2, <1>5, <2>1, <2>2, NoCallTyped DEF IInv, TypeOK, PackageInv, Running
  <2>4. CallInv' /\ DescriptorInv' /\ SettledInv'
    BY <1>5, NoCallTyped DEF CallInv, DescriptorInv, SettledInv, LinkSteps
  <2>5. CommandInv' /\ StartupInv'
    <3>1. CommandInv'
      BY <1>1 DEF IInv, CommandInv
    <3>2. StartupInv'
      BY <2>2 DEF StartupInv
    <3> QED BY <3>1, <3>2
  <2>6. Open("speed")' = Open("speed") /\ Open("clock")' = Open("clock")
    BY <1>1 DEF Open
  <2>7. ("speed" \notin doubt' => SpeedFollows') /\ ("clock" \notin doubt' => ClockFollows')
    BY <1>1, <1>5, <2>1, <2>2, <2>6, SpeedKept, ClockKept DEF IInv, CacheInv
  <2>8. CacheInv'
    BY <1>5, <2>1, <2>2, <2>7 DEF CacheInv
  <2>9. LegalInv'
    BY <1>1, <2>1 DEF IInv, LegalInv, Legal, OpenBefore, Open, Last, Fits
  <2> QED BY <2>3, <2>4, <2>5, <2>8, <2>9 DEF IInv
<1> QED BY <1>3, <1>4, <1>5 DEF SetLinkStartupModeAndCheck, Raise

LEMMA Dcmd5SucceedsKeeps == ASSUME IInv, Dcmd5Succeeds PROVE IInv'
<1>1. /\ call.step = "dcmd5" /\ ~(ChangesSpeed(call.timing) /\ hw.setting = "HS" /\ Slow(call.speed))
      /\ hw' = Initialised /\ cache' = UpdateCache /\ cmds' = (IF sent THEN cmds ELSE Blinded)
      /\ doubt' = Unperformed \cup (IF sent THEN {} ELSE Touched) \cup (doubt \cap {"mode"})
      /\ UNCHANGED <<known, sent, executed>>
  BY DEF Dcmd5Succeeds
<1>2. /\ ~Running /\ call.clock \in ClockValues /\ call.speed \in SpeedType /\ call.op \in {"init", "first"}
      /\ hw.setting \in Starts /\ call.timing \in Timings
  BY <1>1 DEF Running, IInv, TypeOK, CallType, CallInv, LinkSteps, HwType
<1>3. /\ hw' \in HwType /\ hw'.setting = hw.setting /\ hw'.startup = hw.setting /\ hw'.clock = call.clock
      /\ ChangesSpeed(call.timing) => hw'.speed = call.speed
  <2>1. Linked \in HwType
    BY LinkedTyped
  <2> QED BY <1>1, <1>2, <2>1, LinkedTyped DEF Initialised, HwType
<1>4. cache' \in CacheType /\ cache'.speed = call.speed /\ cache'.refclk = call.clock /\ cache'.startup = cache.startup
  BY <1>1, <1>2 DEF UpdateCache, IInv, TypeOK, CacheType
<1>5. /\ cmds' \in Seq(CommandType) /\ executed' \subseteq DOMAIN cmds' /\ CommandInv'
      /\ LegalInv' /\ (sent => cmds' = <<>>) /\ (~sent => executed' = {})
      /\ DOMAIN cmds' = DOMAIN cmds /\ \A i \in DOMAIN cmds : cmds'[i].op = cmds[i].op
  BY <1>1, <1>2, <1>3, Blind
<1>6. /\ doubt' \subseteq {"speed", "clock", "mode"} /\ ("mode" \in doubt' <=> "mode" \in doubt)
      /\ "speed" \notin doubt' => hw'.speed = call.speed /\ (~sent => "speed" \notin Touched)
      /\ "clock" \notin doubt' => (~sent => "clock" \notin Touched)
  BY <1>1, <1>3, TouchedIs DEF Unperformed, IInv
<1>7. StartupInv'
  BY <1>3 DEF StartupInv
<1>8. CacheInv'
  <2>1. ASSUME NEW op \in {"speed", "clock"}, sent \/ op \notin Touched PROVE Open(op)' = {}
    <3>1. CASE sent
      BY <3>1, <1>5 DEF Open
    <3>2. CASE ~sent
      <4>1. Open(op) = {} /\ executed = {}
        BY <2>1, <3>2, TouchedIs, NothingExecuted DEF IInv
      <4> QED BY <4>1, <3>2, <1>5 DEF Open
    <3> QED BY <3>1, <3>2
  <2>2. "speed" \notin doubt' => SpeedFollows'
    BY <2>1, <1>3, <1>4, <1>6 DEF SpeedFollows, Last
  <2>3. "clock" \notin doubt' => ClockFollows'
    BY <2>1, <1>3, <1>4, <1>6 DEF ClockFollows, Last
  <2> QED BY <2>2, <2>3, <1>3, <1>4, <1>6 DEF IInv, CacheInv
<1>9. CASE call' = NoCall
  <2>1. TypeOK' /\ PackageInv'
    BY <1>1, <1>3, <1>4, <1>5, <1>6, <1>9, NoCallTyped DEF IInv, TypeOK, PackageInv, Running
  <2>2. CallInv' /\ DescriptorInv' /\ SettledInv'
    BY <1>9, NoCallTyped DEF CallInv, DescriptorInv, SettledInv, LinkSteps
  <2> QED BY <2>1, <2>2, <1>5, <1>7, <1>8 DEF IInv
<1>10. CASE call' = Remaining
  <2>1. call' \in CallType /\ call'.op = call.op /\ call'.startup = call.startup
        /\ call'.carried = call.carried /\ call'.step = "descriptors"
        /\ (call.op = "first" => call'.clock = call.clock)
    <3>1. NONE \in ClockValues
      BY DEF ClockValues
    <3> QED BY <3>1, <1>10 DEF Remaining, IInv, TypeOK, CallType, Steps, LinkSteps
  <2>2. TypeOK' /\ PackageInv'
    BY <1>1, <1>3, <1>4, <1>5, <1>6, <2>1 DEF IInv, TypeOK, PackageInv, Running
  <2>3. call.op = "first" => /\ call.startup \in Starts /\ call.speed = FirstSpeed(call.startup)
                             /\ call.timing = "AFTER_INIT" /\ hw.setting = call.startup
    <3>1. ChangesSpeed("AFTER_INIT")
      BY DEF ChangesSpeed
    <3> QED BY <3>1, <1>1, <1>2, FirstSpeeds DEF IInv, CallInv, LinkSteps, Starts
  <2>4. CallInv'
    BY <1>2, <1>3, <1>4, <2>1, <2>3 DEF CallInv, LinkSteps
  <2>5. DescriptorInv'
    BY <2>1 DEF DescriptorInv
  <2>6. SettledInv'
    <3> SUFFICES ASSUME call.op = "first", ~call.carried
                 PROVE  /\ cmds' = <<>> /\ "speed" \notin doubt' /\ "clock" \notin doubt'
                        /\ cache'.refclk = call'.clock /\ cache'.speed = FirstSpeed(call'.startup)
      BY <2>1 DEF SettledInv
    <3>1. cmds = <<>>
      BY <1>1 DEF IInv, SettledInv, LinkSteps
    <3>2. cmds' = <<>> /\ Touched = {}
      BY <3>1, <1>5 DEF Touched, Has
    <3>3. Unperformed = {}
      BY <2>3 DEF Unperformed, ChangesSpeed
    <3> QED BY <3>2, <3>3, <1>1, <1>4, <2>1, <2>3
  <2> QED BY <2>2, <2>4, <2>5, <2>6, <1>5, <1>7, <1>8 DEF IInv
<1> QED BY <1>9, <1>10 DEF Dcmd5Succeeds, Return

-----------------------------------------------------------------------------
(* Initialisation, from the descriptors on. *)

LEMMA ReadDeviceDescriptorsKeeps == ASSUME IInv, ReadDeviceDescriptors PROVE IInv'
<1>1. call.step = "descriptors" /\ UNCHANGED <<hw, cache, known, doubt>>
  BY DEF ReadDeviceDescriptors
<1>2. ~Running /\ call.op \in {"init", "first"}
  BY <1>1 DEF Running, IInv, CallInv
<1>3. CASE sent /\ call' = NoCall /\ UNCHANGED <<cmds, sent, executed>>
  <2>1. cmds = <<>> /\ executed = {}
    BY <1>2, <1>3 DEF IInv, PackageInv, TypeOK
  <2>2. Open("speed") = {} /\ Open("clock") = {}
    BY <2>1 DEF Open
  <2> QED BY <1>1, <1>3, <2>1, <2>2, Drained DEF IInv, TypeOK
<1>4. CASE EnqueueAndSend(<<GeometryRead>>, [call EXCEPT !.step = "geometry"])
  <2> DEFINE c == GeometryRead
             L == Len(cmds)
  <2>1. c \in CommandType /\ c.op = "geometry" /\ CommandOk(c)
    BY Commands DEF GeometryRead, Ops
  <2>2. ~sent /\ cmds' = cmds \o <<c>> /\ sent' = TRUE /\ executed' = {} /\ call' = [call EXCEPT !.step = "geometry"]
    BY <1>4 DEF EnqueueAndSend
  <2> HIDE DEF c
  <2>3. <<c>> \in Seq(CommandType) /\ (\A i \in DOMAIN <<c>> : CommandOk(<<c>>[i]) /\ <<c>>[i].op = "geometry")
    BY <2>1
  <2>4. executed = {}
    BY <2>2, NothingExecuted
  <2>5. CacheInv' /\ LegalInv'
    BY <1>1, <2>2, <2>3, <2>4, Harmless
  <2>6. /\ cmds' \in Seq(CommandType) /\ executed' \subseteq DOMAIN cmds' /\ CommandInv'
    BY <2>2, <2>3, Appended DEF IInv
  <2>7. call' \in CallType /\ call'.op = call.op /\ call'.startup = call.startup
        /\ call'.carried = call.carried /\ call'.clock = call.clock /\ call'.step = "geometry"
    BY <2>2 DEF IInv, TypeOK, CallType, Steps
  <2>8. TypeOK' /\ PackageInv' /\ StartupInv'
    BY <1>1, <2>2, <2>6, <2>7 DEF IInv, TypeOK, PackageInv, Running, StartupInv
  <2>9. CallInv'
    BY <1>1, <1>2, <2>7 DEF IInv, CallInv, LinkSteps
  <2>10. DescriptorInv'
    <3>1. cmds' # <<>> /\ cmds'[Len(cmds')] = c
      BY <2>1, <2>2 DEF IInv, TypeOK
    <3> QED BY <3>1, <2>1, <2>2, <2>7 DEF DescriptorInv
  <2>11. SettledInv'
    BY <1>1, <2>7 DEF IInv, SettledInv, LinkSteps
  <2> QED BY <2>5, <2>6, <2>8, <2>9, <2>10, <2>11 DEF IInv
<1> QED BY <1>3, <1>4 DEF ReadDeviceDescriptors, Raise

(* A package that is through is followed by one of commands that neither   *)
(* change speed or clock nor need a speed.                                 *)
LEMMA Followed ==
  ASSUME IInv, NEW step, Completed(step), NEW new \in Seq(CommandType),
         \A i \in DOMAIN new : CommandOk(new[i]) /\ new[i].op \notin {"speed", "clock", "attr"},
         cmds' = new, executed' = {}, UNCHANGED <<hw, cache, sent, doubt>>
  PROVE  CommandInv' /\ CacheInv' /\ LegalInv' /\ StartupInv'
<1>1. Open("speed") = {} /\ Open("clock") = {}
  BY DEF Open, Completed
<1>2. Open("speed")' = {} /\ Open("clock")' = {}
  BY DEF Open
<1>3. CacheInv'
  BY <1>1, <1>2 DEF IInv, CacheInv, SpeedFollows, ClockFollows, Last
<1>4. LegalInv'
  BY DEF LegalInv, Legal, Fits
<1>5. CommandInv' /\ StartupInv'
  BY DEF IInv, CommandInv, StartupInv
<1> QED BY <1>3, <1>4, <1>5

LEMMA ReadUnitDescriptorsKeeps == ASSUME IInv, ReadUnitDescriptors PROVE IInv'
<1> DEFINE number == hw.device.number
           new    == UnitReads(number)
<1>1. /\ Completed("geometry") /\ call.step = "geometry" /\ Running /\ call' = [call EXCEPT !.step = "units"]
      /\ executed' = {} /\ UNCHANGED <<hw, cache, sent, doubt>>
  BY DEF ReadUnitDescriptors, Completed
<1>2. cmds[Len(cmds)].answer = number
  <2>1. cmds # <<>> /\ cmds \in Seq(CommandType) /\ executed = DOMAIN cmds
    BY <1>1 DEF IInv, TypeOK, DescriptorInv, Completed
  <2>2. Len(cmds) \in executed
    BY <2>1
  <2> QED BY <2>2, <1>1 DEF IInv, DescriptorInv
<1>3. known' = [known EXCEPT !.number = number] /\ cmds' = new
  BY <1>2 DEF ReadUnitDescriptors
<1>4. number \in Nat /\ number \in 1 .. MaxLuns
  BY DeviceFacts DEF IInv
<1>5. /\ new \in Seq(CommandType) /\ Len(new) = number /\ DOMAIN new = 1 .. number
      /\ \A i \in 1 .. number : CommandOk(new[i]) /\ new[i].op = "unit" /\ new[i].lun = i - 1
  <2>1. \A i \in 1 .. number : i - 1 \in Luns
    BY <1>4, SetupAssumption DEF Luns
  <2>2. \A i \in 1 .. number : new[i] = [Command("unit") EXCEPT !.lun = i - 1, !.waits = FALSE]
    BY DEF UnitReads
  <2>3. \A i \in 1 .. number : new[i] \in CommandType /\ CommandOk(new[i]) /\ new[i].op = "unit" /\ new[i].lun = i - 1
    <3> SUFFICES ASSUME NEW i \in 1 .. number
                 PROVE  new[i] \in CommandType /\ CommandOk(new[i]) /\ new[i].op = "unit" /\ new[i].lun = i - 1
      OBVIOUS
    <3>1. i - 1 \in Luns /\ new[i] = [Command("unit") EXCEPT !.lun = i - 1, !.waits = FALSE]
      BY <2>1, <2>2
    <3> HIDE DEF new
    <3> QED BY <3>1, UnitIs
  <2>4. new \in [1 .. number -> CommandType]
    BY <2>3 DEF UnitReads
  <2> QED BY <2>3, <2>4, <1>4
<1> HIDE DEF new
<1>6. CommandInv' /\ CacheInv' /\ LegalInv' /\ StartupInv'
  BY <1>1, <1>3, <1>5, Followed
<1>7. call' \in CallType /\ call'.op = call.op /\ call'.startup = call.startup
      /\ call'.carried = call.carried /\ call'.clock = call.clock /\ call'.step = "units"
  BY <1>1 DEF IInv, TypeOK, CallType, Steps
<1>8. known' \in KnownType /\ known'.number = number
  BY <1>3, <1>4 DEF IInv, TypeOK, KnownType
<1>9. TypeOK' /\ PackageInv'
  BY <1>1, <1>3, <1>5, <1>7, <1>8 DEF IInv, TypeOK, PackageInv, Running
<1>10. CallInv' /\ SettledInv'
  BY <1>1, <1>7 DEF IInv, CallInv, SettledInv, LinkSteps
<1>11. DescriptorInv'
  BY <1>1, <1>3, <1>5, <1>7, <1>8 DEF DescriptorInv, UnitsKnown
<1> QED BY <1>6, <1>9, <1>10, <1>11 DEF IInv

LEMMA TestUnitsReadyKeeps == ASSUME IInv, TestUnitsReady PROVE IInv'
<1> DEFINE c   == Command("ready")
           new == <<c>>
<1>1. /\ Completed("units") /\ call.step = "units" /\ Running /\ cmds' = new /\ executed' = {}
      /\ known' = [known EXCEPT !.capacity = CapacitiesRead]
      /\ call' = [call EXCEPT !.step = IF call.op = "first" /\ call.startup = "LS" THEN "ready" ELSE "send"]
      /\ UNCHANGED <<hw, cache, sent, doubt>>
  BY DEF TestUnitsReady, Completed
<1>2. c \in CommandType /\ c.op = "ready" /\ CommandOk(c)
  BY Commands DEF Ops
<1> HIDE DEF c
<1>3. new \in Seq(CommandType) /\ DOMAIN new = {1} /\ (\A i \in DOMAIN new : CommandOk(new[i]) /\ new[i].op = "ready")
  BY <1>2
<1>4. CommandInv' /\ CacheInv' /\ LegalInv' /\ StartupInv'
  BY <1>1, <1>3, Followed
<1>5. /\ executed = DOMAIN cmds /\ known.number = hw.device.number /\ Len(cmds) = known.number
      /\ DOMAIN cmds = 1 .. known.number /\ UnitsKnown(executed)
  BY <1>1 DEF IInv, TypeOK, DescriptorInv, Completed
<1>6. /\ known.number \in 1 .. MaxLuns /\ hw.device.capacity \in [Luns -> Nat]
      /\ known \in KnownType
  BY <1>5, DeviceFacts DEF IInv, TypeOK
<1>7. \A lun \in Luns : /\ lun + 1 \in DOMAIN cmds => CapacitiesRead[lun] = hw.device.capacity[lun]
                        /\ CapacitiesRead[lun] \in Nat
  <2> SUFFICES ASSUME NEW lun \in Luns
               PROVE  /\ lun + 1 \in DOMAIN cmds => CapacitiesRead[lun] = hw.device.capacity[lun]
                      /\ CapacitiesRead[lun] \in Nat
    OBVIOUS
  <2>1. CapacitiesRead[lun] = IF lun + 1 \in DOMAIN cmds THEN cmds[lun + 1].answer ELSE known.capacity[lun]
    BY DEF CapacitiesRead
  <2>2. lun \in Int /\ (lun + 1) - 1 = lun
    BY DEF Luns
  <2>3. lun + 1 \in DOMAIN cmds => cmds[lun + 1].answer = hw.device.capacity[lun]
    BY <1>5, <2>2 DEF UnitsKnown
  <2> QED BY <2>1, <2>3, <1>6 DEF KnownType
<1>8. known' \in KnownType /\ known'.number = known.number /\ known'.capacity = CapacitiesRead
  <2>1. CapacitiesRead \in [Luns -> Nat]
    BY <1>7 DEF CapacitiesRead
  <2> QED BY <2>1, <1>1, <1>6 DEF KnownType
<1>9. \A lun \in 0 .. known'.number - 1 : known'.capacity[lun] = hw'.device.capacity[lun]
  <2>1. \A lun \in 0 .. known.number - 1 : lun \in Luns /\ lun + 1 \in DOMAIN cmds
    BY <1>5, <1>6, SetupAssumption DEF Luns
  <2> QED BY <2>1, <1>1, <1>7, <1>8
<1>10. call' \in CallType /\ call'.op = call.op /\ call'.startup = call.startup
       /\ call'.carried = call.carried /\ call'.clock = call.clock
       /\ call'.step = (IF call.op = "first" /\ call.startup = "LS" THEN "ready" ELSE "send")
  BY <1>1 DEF IInv, TypeOK, CallType, Steps
<1>11. TypeOK' /\ PackageInv'
  BY <1>1, <1>3, <1>8, <1>10 DEF IInv, TypeOK, PackageInv, Running
<1>12. SettledInv' /\ CallInv'
  <2>1. "ready" = call'.step => call.op = "first" /\ call.startup = "LS"
    BY <1>10
  <2>2. SettledInv'
    BY <1>1, <1>10, FirstSpeeds DEF IInv, SettledInv, LinkSteps, CallInv, Starts
  <2>3. CallInv'
    BY <1>1, <1>10 DEF IInv, LinkSteps, CallInv
  <2> QED BY <2>2, <2>3
<1>13. DescriptorInv'
  BY <1>1, <1>3, <1>5, <1>8, <1>9, <1>10 DEF DescriptorInv
<1> QED BY <1>4, <1>11, <1>12, <1>13 DEF IInv

LEMMA Prefixed ==
  ASSUME NEW T, NEW a \in T, NEW s \in Seq(T)
  PROVE  /\ <<a>> \o s \in Seq(T) /\ DOMAIN (<<a>> \o s) = 1 .. 1 + Len(s)
         /\ Len(s) \in Nat /\ DOMAIN s = 1 .. Len(s)
         /\ (<<a>> \o s)[1] = a
         /\ \A i \in 1 .. 1 + Len(s) : i # 1 => i - 1 \in 1 .. Len(s) /\ (<<a>> \o s)[i] = s[i - 1]
<1>1. <<a>> \in Seq(T) /\ Len(<<a>>) = 1 /\ <<a>>[1] = a
  OBVIOUS
<1>2. Len(s) \in Nat /\ DOMAIN s = 1 .. Len(s)
  OBVIOUS
<1>3. <<a>> \o s \in Seq(T) /\ Len(<<a>> \o s) = 1 + Len(s)
  BY <1>1, <1>2
<1>4. DOMAIN (<<a>> \o s) = 1 .. 1 + Len(s)
  BY <1>3
<1>5. \A i \in 1 .. 1 + Len(s) : (<<a>> \o s)[i] = IF i <= 1 THEN <<a>>[i] ELSE s[i - 1]
  BY <1>1, <1>2
<1>6. (<<a>> \o s)[1] = a
  BY <1>1, <1>2, <1>5
<1>7. ASSUME NEW i \in 1 .. 1 + Len(s), i # 1
      PROVE  i - 1 \in 1 .. Len(s) /\ (<<a>> \o s)[i] = s[i - 1]
  <2>1. i \in Int /\ ~(i <= 1) /\ i - 1 \in 1 .. Len(s)
    BY <1>2, <1>7
  <2> QED BY <2>1, <1>5
<1> QED BY <1>2, <1>3, <1>4, <1>6, <1>7

(* The last package of a start in low speed.                               *)
LEMMA ChangeToMaxGearKeeps == ASSUME IInv, ChangeToMaxGear PROVE IInv'
<1> DEFINE attr == AttrCommand(call.clock, Unsure)
           old  == <<attr>>
           new  == SpeedCommands(FullSpeed, Unsure)
<1>1. /\ Completed("ready") /\ call.step = "ready" /\ Running /\ cmds' = old \o new /\ executed' = {}
      /\ sent' = TRUE /\ call' = [call EXCEPT !.step = "send"]
      /\ cache' = [cache EXCEPT !.speed = FullSpeed] /\ doubt' = doubt \ {"speed"}
      /\ UNCHANGED <<hw, known>>
  BY DEF ChangeToMaxGear, Completed
<1>2. /\ call.op = "first" /\ call.startup = "LS" /\ hw.startup = "LS" /\ hw.setting = "LS"
      /\ cache.startup = "LS" /\ LsMode(cache.speed) /\ cache.speed \in SpeedType /\ executed = DOMAIN cmds
  <2>1. call.op = "first" /\ call.startup = "LS" /\ hw.startup = "LS" /\ hw.setting = "LS"
        /\ cache.speed = FirstSpeed("LS")
    BY <1>1 DEF IInv, CallInv, LinkSteps
  <2>2. cache.startup \in {"LS", "HS"} /\ cache.speed \in SpeedType /\ executed = DOMAIN cmds
    BY <1>1 DEF IInv, TypeOK, CacheType, Starts, Completed
  <2>3. cache.startup # "HS"
    BY <2>1 DEF IInv, CacheInv
  <2> QED BY <2>1, <2>2, <2>3, FirstSpeeds
<1>3. attr \in CommandType /\ attr.op = "attr" /\ attr.blind = Unsure /\ CommandOk(attr)
  <2>1. call.clock \in ClockValues /\ Unsure \in BOOLEAN
    BY DEF IInv, TypeOK, CallType, Unsure
  <2> QED BY <2>1, AttrIs
<1> HIDE DEF attr
<1>4. old \in Seq(CommandType) /\ DOMAIN old = {1} /\ old[1] = attr /\ Len(old) = 1 /\ SpeedsIn(old) = {}
  BY <1>3 DEF SpeedsIn
<1> HIDE DEF old
<1>5. new \in Seq(CommandType) /\ DOMAIN new = 1 .. Len(new)
      /\ (\A i \in DOMAIN new : CommandOk(new[i]) /\ new[i].op = "speed")
  <2>1. TypeOK /\ Unsure \in BOOLEAN
    BY DEF IInv, Unsure
  <2> QED BY <2>1, FirstSpeeds, SpeedCommandsAre
<1>6. "speed" \notin doubt => hw.speed = cache.speed
  <2>1. Open("speed") = {}
    BY <1>2 DEF Open
  <2> QED BY <2>1 DEF IInv, CacheInv, SpeedFollows
<1>7. "clock" \notin doubt => hw.clock = cache.refclk
  <2>1. Open("clock") = {}
    BY <1>2 DEF Open
  <2> QED BY <2>1 DEF IInv, CacheInv, ClockFollows
<1>8. "speed" \notin doubt => EndsAt(old, cache.speed)
  BY <1>4, <1>6 DEF EndsAt, Last
<1>9. \A i \in DOMAIN old : ~old[i].blind => LegalIn(old, i)
  <2>1. ASSUME ~Unsure PROVE LegalIn(old, 1)
    <3>1. hw.speed = cache.speed
      BY <2>1, <1>6 DEF Unsure
    <3>2. SpeedsBefore(old, 1) = {}
      BY <1>4 DEF SpeedsBefore
    <3> QED BY <3>1, <3>2, <1>2, <1>3, <1>4 DEF LegalIn, Last, Fits
  <2> QED BY <2>1, <1>3, <1>4
<1>10. cache' \in CacheType /\ cache'.speed = FullSpeed /\ cache'.startup = cache.startup
       /\ cache'.refclk = cache.refclk
  BY <1>1, FirstSpeeds DEF IInv, TypeOK, CacheType
<1>11. SpeedFollows' /\ LegalInv'
  <2>1. ~ShallNotChangeToSlow(FullSpeed)
    BY <1>2 DEF ShallNotChangeToSlow
  <2> QED BY <1>1, <1>4, <1>8, <1>9, <1>10, <2>1, FirstSpeeds, SpeedPushed DEF IInv, CacheInv
<1> HIDE DEF new
<1>12. /\ cmds' \in Seq(CommandType) /\ executed' \subseteq DOMAIN cmds'
       /\ \A i \in DOMAIN cmds' : CommandOk(cmds'[i]) /\ cmds'[i].op \in {"attr", "speed"}
  <2>1. /\ cmds' \in Seq(CommandType) /\ DOMAIN cmds' = 1 .. 1 + Len(new) /\ Len(new) \in Nat
        /\ cmds'[1] = attr
        /\ \A i \in DOMAIN cmds' : i # 1 => i - 1 \in DOMAIN new /\ cmds'[i] = new[i - 1]
    <3>1. cmds' = <<attr>> \o new /\ attr \in CommandType /\ new \in Seq(CommandType)
      BY <1>1, <1>3, <1>5 DEF old
    <3> QED BY <3>1, Prefixed
  <2> QED BY <2>1, <1>1, <1>3, <1>5
<1>13. CacheInv'
  <2>1. Open("clock")' = {}
    BY <1>12 DEF Open
  <2>2. "clock" \notin doubt' => ClockFollows'
    BY <2>1, <1>1, <1>7, <1>10 DEF ClockFollows, Last
  <2> QED BY <2>2, <1>1, <1>10, <1>11 DEF IInv, CacheInv
<1>14. call' \in CallType /\ call'.op = call.op /\ call'.startup = call.startup
       /\ call'.carried = call.carried /\ call'.clock = call.clock /\ call'.step = "send"
  BY <1>1 DEF IInv, TypeOK, CallType, Steps
<1>15. TypeOK' /\ PackageInv'
  BY <1>1, <1>10, <1>12, <1>14 DEF IInv, TypeOK, PackageInv, Running
<1>16. CommandInv' /\ StartupInv'
  BY <1>1, <1>12 DEF IInv, CommandInv, StartupInv
<1>17. CallInv'
  BY <1>1, <1>2, <1>14 DEF IInv, CallInv, LinkSteps
<1>18. SettledInv'
  BY <1>1, <1>2, <1>10, <1>14 DEF IInv, SettledInv, LinkSteps
<1>19. DescriptorInv'
  BY <1>1, <1>2, <1>12, <1>14 DEF IInv, DescriptorInv
<1> QED BY <1>11, <1>13, <1>15, <1>16, <1>17, <1>18, <1>19 DEF IInv

-----------------------------------------------------------------------------
(* The tester executes a command. *)

LEMMA EffectIs ==
  ASSUME TypeOK, NEW c \in CommandType, CommandOk(c), hw' = Effect(c)
  PROVE  /\ hw' \in HwType /\ hw'.startup = hw.startup /\ hw'.setting = hw.setting
         /\ hw'.speed = (IF c.op = "speed" THEN c.speed ELSE hw.speed)
         /\ hw'.clock = (IF c.op = "clock" THEN c.clock ELSE hw.clock)
         /\ c.op # "config" => hw'.device = hw.device
<1> hw \in HwType /\ c.op \in Ops /\ c.clock \in ClockValues
  BY DEF TypeOK, CommandType
<1>1. CASE c.op = "speed"
  BY <1>1 DEF Effect, HwType, CommandOk
<1>2. CASE c.op = "clock"
  BY <1>2 DEF Effect, HwType
<1>3. CASE c.op = "config"
  BY <1>3 DEF Effect, HwType, CommandOk
<1>4. CASE c.op \notin {"speed", "clock", "config"}
  BY <1>4 DEF Effect
<1> QED BY <1>1, <1>2, <1>3, <1>4

LEMMA AnswerIs ==
  ASSUME TypeOK, NEW c \in CommandType, CommandOk(c)
  PROVE  Answer(c) \in Nat \cup {NONE}
<1>1. CASE c.op = "geometry"
  BY <1>1, DeviceFacts DEF Answer
<1>2. CASE c.op = "unit"
  BY <1>2, DeviceFacts DEF Answer, CommandOk
<1>3. CASE c.op \notin {"geometry", "unit"}
  BY <1>3 DEF Answer
<1> QED BY <1>1, <1>2, <1>3

(* A command that waits is the first of those still to come.               *)
LEMMA WaitsForAll ==
  ASSUME TypeOK, NEW i \in DOMAIN cmds, Ready(i), cmds[i].waits
  PROVE  \A j \in DOMAIN cmds \ executed : i <= j
<1>1. DOMAIN cmds \subseteq Nat /\ (\A j \in DOMAIN cmds : j < i => j \in 1 .. i - 1)
  BY DEF TypeOK
<1> QED BY <1>1 DEF Ready

(* No command executes ahead of one before it that waits.                  *)
LEMMA WaitingFirst ==
  ASSUME TypeOK, NEW i \in DOMAIN cmds, Ready(i), NEW j \in DOMAIN cmds, j < i, cmds[j].waits
  PROVE  j \in executed
<1>1. j \in 1 .. i - 1
  BY DEF TypeOK
<1> QED BY <1>1 DEF Ready

LEMMA ExecuteFacts ==
  ASSUME IInv, NEW i \in DOMAIN cmds, Execute(i)
  PROVE  /\ Ready(i) /\ Running /\ i \notin executed /\ hw' = Effect(cmds[i])
         /\ executed' = executed \cup {i} /\ UNCHANGED <<cache, known, sent, call, doubt>>
         /\ cmds[i] \in CommandType /\ CommandOk(cmds[i])
         /\ cmds' \in Seq(CommandType) /\ DOMAIN cmds' = DOMAIN cmds /\ Len(cmds') = Len(cmds)
         /\ cmds'[i].answer = Answer(cmds[i])
         /\ \A j \in DOMAIN cmds :
              /\ cmds'[j].op = cmds[j].op /\ cmds'[j].speed = cmds[j].speed /\ cmds'[j].clock = cmds[j].clock
              /\ cmds'[j].blind = cmds[j].blind /\ cmds'[j].lun = cmds[j].lun
              /\ CommandOk(cmds'[j]) /\ (j # i => cmds'[j] = cmds[j])
         /\ \A op : Open(op)' = Open(op) \ {i}
<1>1. /\ Ready(i) /\ Running /\ i \notin executed /\ hw' = Effect(cmds[i])
      /\ cmds' = [cmds EXCEPT ![i].answer = Answer(cmds[i])]
      /\ executed' = executed \cup {i} /\ UNCHANGED <<cache, known, sent, call, doubt>>
  BY DEF Execute, Ready
<1>2. cmds \in Seq(CommandType) /\ (\A j \in DOMAIN cmds : cmds[j] \in CommandType /\ CommandOk(cmds[j]))
  BY DEF IInv, TypeOK, CommandInv
<1>3. Answer(cmds[i]) \in Nat \cup {NONE}
  BY <1>2, AnswerIs DEF IInv
<1> DEFINE c == [cmds[i] EXCEPT !.answer = Answer(cmds[i])]
<1>4. /\ c \in CommandType /\ c.op = cmds[i].op /\ c.speed = cmds[i].speed /\ c.clock = cmds[i].clock
      /\ c.blind = cmds[i].blind /\ c.lun = cmds[i].lun /\ c.answer = Answer(cmds[i]) /\ CommandOk(c)
  BY <1>2, <1>3 DEF CommandType, CommandOk
<1>a. cmds' = [cmds EXCEPT ![i] = c]
  BY <1>1
<1> HIDE DEF c
<1>b. /\ cmds' \in Seq(CommandType) /\ DOMAIN cmds' = DOMAIN cmds /\ Len(cmds') = Len(cmds)
      /\ cmds'[i] = c /\ \A j \in DOMAIN cmds : j # i => cmds'[j] = cmds[j]
  BY <1>2, <1>4, <1>a
<1>5. \A j \in DOMAIN cmds :
        /\ cmds'[j].op = cmds[j].op /\ cmds'[j].speed = cmds[j].speed /\ cmds'[j].clock = cmds[j].clock
        /\ cmds'[j].blind = cmds[j].blind /\ cmds'[j].lun = cmds[j].lun /\ CommandOk(cmds'[j])
  <2> SUFFICES ASSUME NEW j \in DOMAIN cmds
               PROVE  /\ cmds'[j].op = cmds[j].op /\ cmds'[j].speed = cmds[j].speed
                      /\ cmds'[j].clock = cmds[j].clock /\ cmds'[j].blind = cmds[j].blind
                      /\ cmds'[j].lun = cmds[j].lun /\ CommandOk(cmds'[j])
    OBVIOUS
  <2>1. CASE j = i
    BY <2>1, <1>4, <1>b
  <2>2. CASE j # i
    BY <2>2, <1>2, <1>b
  <2> QED BY <2>1, <2>2
<1>6. \A op : Open(op)' = Open(op) \ {i}
  BY <1>1, <1>5, <1>b DEF Open
<1> QED BY <1>1, <1>2, <1>4, <1>5, <1>6, <1>b

LEMMA ExecuteKeeps == ASSUME IInv, NEW i \in DOMAIN cmds, Execute(i) PROVE IInv'
<1> DEFINE c == cmds[i]
<1>1. /\ Ready(i) /\ Running /\ i \notin executed /\ hw' = Effect(c)
      /\ executed' = executed \cup {i} /\ UNCHANGED <<cache, known, sent, call, doubt>>
      /\ c \in CommandType /\ CommandOk(c)
      /\ cmds' \in Seq(CommandType) /\ DOMAIN cmds' = DOMAIN cmds /\ Len(cmds') = Len(cmds)
      /\ cmds'[i].answer = Answer(c)
  BY ExecuteFacts
<1>2. \A j \in DOMAIN cmds :
        /\ cmds'[j].op = cmds[j].op /\ cmds'[j].speed = cmds[j].speed /\ cmds'[j].clock = cmds[j].clock
        /\ cmds'[j].blind = cmds[j].blind /\ cmds'[j].lun = cmds[j].lun
        /\ CommandOk(cmds'[j]) /\ (j # i => cmds'[j] = cmds[j])
  BY ExecuteFacts
<1>3. \A op : Open(op)' = Open(op) \ {i}
  BY ExecuteFacts
<1>4. /\ hw' \in HwType /\ hw'.startup = hw.startup /\ hw'.setting = hw.setting
      /\ hw'.speed = (IF c.op = "speed" THEN c.speed ELSE hw.speed)
      /\ hw'.clock = (IF c.op = "clock" THEN c.clock ELSE hw.clock)
      /\ c.op # "config" => hw'.device = hw.device
  BY <1>1, EffectIs DEF IInv
<1> HIDE DEF c
<1>5. TypeOK' /\ CommandInv' /\ PackageInv'
  BY <1>1, <1>2, <1>4 DEF IInv, TypeOK, CommandInv, PackageInv, Running
<1>6. CallInv' /\ SettledInv' /\ StartupInv'
  <2>1. call.step \notin LinkSteps \cup {"descriptors"}
    BY <1>1 DEF Running, LinkSteps
  <2>2. CallInv'
    BY <2>1, <1>1, <1>4 DEF IInv, CallInv
  <2>3. SettledInv'
    BY <2>1, <1>1 DEF IInv, SettledInv
  <2> QED BY <2>2, <2>3, <1>1, <1>4 DEF IInv, StartupInv
(* A change of speed or clock is the first of those to come.               *)
<1>7. \A j \in DOMAIN cmds \ executed : j \in Int /\ i \in Int /\ (c.op \in {"speed", "clock"} => i <= j)
  <2>1. DOMAIN cmds \subseteq Int
    BY DEF IInv, TypeOK
  <2> QED BY <2>1, <1>1, WaitsForAll DEF IInv, CommandOk, c
<1>8. ASSUME NEW op, NEW S, S = Open(op), i \in S, c.op \in {"speed", "clock"}
      PROVE  /\ S \ {i} = {} => Last(S) = {i}
             /\ Last(S \ {i}) \subseteq Last(S)
  BY <1>7, <1>8 DEF Open, Last
<1>9. CacheInv'
  <2>1. "speed" \notin doubt => SpeedFollows'
    <3>1. CASE c.op = "speed"
      <4>1. i \in Open("speed")
        BY <3>1, <1>1 DEF Open, c
      <4>2. /\ Open("speed") \ {i} = {} => Last(Open("speed")) = {i}
            /\ Last(Open("speed") \ {i}) \subseteq Last(Open("speed"))
        BY <4>1, <3>1, <1>8
      <4>3. \A j \in Last(Open("speed")) : cmds'[j].speed = cmds[j].speed
        BY <1>2 DEF Last, Open
      <4> QED BY <4>2, <4>3, <3>1, <1>1, <1>3, <1>4 DEF IInv, CacheInv, SpeedFollows, Last, c
    <3>2. CASE c.op # "speed"
      <4>1. Open("speed")' = Open("speed")
        BY <3>2, <1>3 DEF Open, c
      <4> QED BY <4>1, <3>2, <1>1, <1>2, <1>4, SpeedKept DEF IInv, CacheInv, Open
    <3> QED BY <3>1, <3>2
  <2>2. "clock" \notin doubt => ClockFollows'
    <3>1. CASE c.op = "clock"
      <4>1. i \in Open("clock")
        BY <3>1, <1>1 DEF Open, c
      <4>2. /\ Open("clock") \ {i} = {} => Last(Open("clock")) = {i}
            /\ Last(Open("clock") \ {i}) \subseteq Last(Open("clock"))
        BY <4>1, <3>1, <1>8
      <4>3. \A j \in Last(Open("clock")) : cmds'[j].clock = cmds[j].clock
        BY <1>2 DEF Last, Open
      <4> QED BY <4>2, <4>3, <3>1, <1>1, <1>3, <1>4 DEF IInv, CacheInv, ClockFollows, Last, c
    <3>2. CASE c.op # "clock"
      <4>1. Open("clock")' = Open("clock")
        BY <3>2, <1>3 DEF Open, c
      <4> QED BY <4>1, <3>2, <1>1, <1>2, <1>4, ClockKept DEF IInv, CacheInv, Open
    <3> QED BY <3>1, <3>2
  <2> QED BY <2>1, <2>2, <1>1, <1>4 DEF IInv, CacheInv
<1>10. LegalInv'
  <2> SUFFICES ASSUME NEW k \in DOMAIN cmds \ executed, k # i, ~cmds[k].blind PROVE Legal(k)'
    BY <1>1, <1>2 DEF LegalInv
  <2>1. Legal(k) /\ cmds'[k] = cmds[k]
    BY <1>2 DEF IInv, LegalInv
  <2>2. CASE c.op = "speed"
    <3>1. i < k /\ i \in OpenBefore(k)
      BY <2>2, <1>1, <1>7 DEF OpenBefore, Open, c
    <3>2. OpenBefore(k)' = OpenBefore(k) \ {i}
      BY <1>3 DEF OpenBefore
    <3>3. \A j \in OpenBefore(k) : j \in Int /\ i \in Int /\ i <= j
      BY <2>2, <1>7 DEF OpenBefore, Open
    <3>4. /\ OpenBefore(k) \ {i} = {} => i \in Last(OpenBefore(k))
          /\ Last(OpenBefore(k) \ {i}) \subseteq Last(OpenBefore(k))
      BY <3>1, <3>3 DEF Last
    <3>5. \A j \in Last(OpenBefore(k)) : cmds'[j].speed = cmds[j].speed /\ Fits(cmds[k], cmds[j].speed)
      BY <2>1, <1>2 DEF Legal, Last, OpenBefore, Open
    <3>6. hw'.speed = cmds[i].speed /\ hw'.startup = hw.startup
      BY <2>2, <1>4 DEF c
    <3> QED BY <3>2, <3>4, <3>5, <3>6, <2>1 DEF Legal, Last, Fits
  <2>3. CASE c.op # "speed"
    <3>1. Open("speed")' = Open("speed")
      BY <2>3, <1>3 DEF Open, c
    <3> QED BY <3>1, <2>3, <1>2, <1>4, LegalKept DEF IInv, Open
  <2> QED BY <2>2, <2>3
<1>11. DescriptorInv'
  <2>1. ASSUME call.step = "geometry"
        PROVE  /\ cmds' # <<>> /\ cmds'[Len(cmds')].op = "geometry"
               /\ Len(cmds') \in executed' =>
                    executed' = DOMAIN cmds' /\ cmds'[Len(cmds')].answer = hw'.device.number
    <3>1. /\ cmds # <<>> /\ Len(cmds) \in DOMAIN cmds /\ cmds[Len(cmds)].op = "geometry"
          /\ Len(cmds) \in executed => executed = DOMAIN cmds
          /\ DOMAIN cmds = 1 .. Len(cmds)
      BY <2>1 DEF IInv, DescriptorInv, TypeOK
    <3>2. Len(cmds) \notin executed
      BY <3>1, <1>1
    <3>3. i = Len(cmds) => executed' = DOMAIN cmds'
      <4>1. i = Len(cmds) => c.waits
        BY <3>1, <1>1 DEF CommandOk, c
      <4>2. i = Len(cmds) => \A j \in DOMAIN cmds \ executed : j = i
        BY <3>1, <4>1, <1>1, WaitsForAll DEF IInv, c
      <4> QED BY <4>2, <1>1, <1>5 DEF TypeOK, IInv
    <3>4. i = Len(cmds) => cmds'[i].answer = hw'.device.number
      BY <3>1, <1>1, <1>4 DEF Answer, c
    <3> QED BY <3>1, <3>2, <3>3, <3>4, <1>1, <1>2
  <2>2. ASSUME call.step = "units"
        PROVE  /\ known'.number = hw'.device.number /\ Len(cmds') = known'.number
               /\ \A j \in DOMAIN cmds' : cmds'[j].op = "unit" /\ cmds'[j].lun = j - 1
               /\ UnitsKnown(executed)'
    <3>1. /\ known.number = hw.device.number /\ Len(cmds) = known.number
          /\ \A j \in DOMAIN cmds : cmds[j].op = "unit" /\ cmds[j].lun = j - 1
          /\ \A j \in executed : cmds[j].answer = hw.device.capacity[j - 1]
      BY <2>2 DEF IInv, DescriptorInv, UnitsKnown
    <3>2. c.op = "unit" /\ c.lun = i - 1 /\ hw'.device = hw.device
      BY <3>1, <1>4 DEF c
    <3>3. cmds'[i].answer = hw.device.capacity[i - 1]
      BY <3>2, <1>1 DEF Answer
    <3>4. \A j \in executed' : cmds'[j].answer = hw'.device.capacity[j - 1]
      <4> SUFFICES ASSUME NEW j \in executed' PROVE cmds'[j].answer = hw'.device.capacity[j - 1]
        OBVIOUS
      <4>1. j = i \/ (j \in executed /\ j # i /\ j \in DOMAIN cmds)
        BY <1>1 DEF IInv, TypeOK
      <4>2. CASE j = i
        BY <4>2, <3>2, <3>3
      <4>3. CASE j \in executed /\ j # i /\ j \in DOMAIN cmds
        <5>1. cmds'[j] = cmds[j]
          BY <4>3, <1>2
        <5> QED BY <5>1, <4>3, <3>1, <3>2
      <4> QED BY <4>1, <4>2, <4>3
    <3> QED BY <3>1, <3>2, <3>4, <1>1, <1>2 DEF UnitsKnown
  <2>3. ASSUME call.op \in {"init", "first"}, call.step \in {"ready", "send"}
        PROVE  /\ known'.number = hw'.device.number
               /\ \A lun \in 0 .. known'.number - 1 : known'.capacity[lun] = hw'.device.capacity[lun]
               /\ \A j \in DOMAIN cmds' : cmds'[j].op # "config"
    <3>1. /\ known.number = hw.device.number
          /\ \A lun \in 0 .. known.number - 1 : known.capacity[lun] = hw.device.capacity[lun]
          /\ \A j \in DOMAIN cmds : cmds[j].op # "config"
      BY <2>3 DEF IInv, DescriptorInv
    <3>2. hw'.device = hw.device
      BY <3>1, <1>4 DEF c
    <3> QED BY <3>1, <3>2, <1>1, <1>2
  <2> QED BY <2>1, <2>2, <2>3, <1>1 DEF DescriptorInv
<1> QED BY <1>5, <1>6, <1>9, <1>10, <1>11 DEF IInv

-----------------------------------------------------------------------------
(* Every step. *)

LEMMA Initially == Init => IInv
<1> SUFFICES ASSUME Init PROVE IInv
  OBVIOUS
<1> DEFINE s == Both("SLOW", 1, "A")
<1>0. s \in SpeedType
  BY BothTyped, SetupAssumption DEF Modes
<1>1. /\ hw \in HwType /\ hw.startup = "LS" /\ hw.setting = "LS"
      /\ cache \in CacheType /\ cache.startup = "LS" /\ known \in KnownType
  BY <1>0 DEF Init, HwType, CacheType, KnownType, Starts, ClockValues
<1>2. cmds = <<>> /\ executed = {} /\ sent = FALSE /\ call = NoCall /\ doubt = {"speed", "clock"}
  BY DEF Init
<1>3. TypeOK
  <2>1. cmds \in Seq(CommandType) /\ executed \subseteq DOMAIN cmds
    BY <1>2
  <2>2. sent \in BOOLEAN /\ call \in CallType /\ doubt \subseteq {"speed", "clock", "startup", "mode"}
    BY <1>2, NoCallTyped
  <2> QED BY <1>1, <2>1, <2>2 DEF TypeOK
<1>4. CommandInv /\ LegalInv /\ PackageInv
  BY <1>2, NoCallTyped DEF CommandInv, LegalInv, PackageInv, Running
<1>5. CallInv /\ DescriptorInv /\ SettledInv
  BY <1>2, NoCallTyped DEF CallInv, DescriptorInv, SettledInv, LinkSteps
<1>6. StartupInv /\ CacheInv
  BY <1>1, <1>2 DEF StartupInv, CacheInv
<1> QED BY <1>3, <1>4, <1>5, <1>6 DEF IInv

LEMMA Stutters == ASSUME IInv, UNCHANGED vars PROVE IInv'
<1>1. TypeOK' /\ CommandInv' /\ PackageInv' /\ CallInv' /\ StartupInv'
  BY DEF vars, IInv, TypeOK, CommandInv, PackageInv, Running, CallInv, StartupInv
<1>2. Open("speed")' = Open("speed") /\ Open("clock")' = Open("clock")
  BY DEF vars, Open
<1>3. CacheInv'
  BY <1>2 DEF vars, IInv, CacheInv, SpeedFollows, ClockFollows, Last
<1>4. LegalInv'
  BY DEF vars, IInv, LegalInv, Legal, OpenBefore, Open, Last, Fits
<1>5. DescriptorInv' /\ SettledInv'
  BY DEF vars, IInv, DescriptorInv, UnitsKnown, SettledInv
<1> QED BY <1>1, <1>3, <1>4, <1>5 DEF IInv

LEMMA Inductive == IInv /\ [Next]_vars => IInv'
<1> SUFFICES ASSUME IInv, [Next]_vars PROVE IInv'
  OBVIOUS
<1>1. CASE PatternNext
  BY <1>1, PushSpeedChangeKeeps, PushSwitchRefClkKeeps, PushConfigKeeps, PatternSendKeeps,
     PatternClearsKeeps DEF PatternNext
<1>2. CASE InitNext
  BY <1>2, InitTesterToUnitReadyKeeps, Dcmd5FailsKeeps, Dcmd5SucceedsKeeps,
     ReadDeviceDescriptorsKeeps, ReadUnitDescriptorsKeeps, TestUnitsReadyKeeps, FirstInitKeeps,
     LinkStartupKeeps, SetLinkStartupModeKeeps, ChangeToMaxGearKeeps DEF InitNext
<1>3. CASE QueryNext
  BY <1>3, QueryKeeps, QueryMatchesKeeps, QueryMismatchKeeps DEF QueryNext
<1>4. CASE SendNext
  BY <1>4, ExecuteKeeps, SendFailsKeeps, SendReturnsKeeps DEF SendNext
<1>5. CASE UNCHANGED vars
  BY <1>5, Stutters
<1> QED BY <1>1, <1>2, <1>3, <1>4, <1>5 DEF Next

LEMMA Invariant == Spec => []IInv
  BY Initially, Inductive, PTL DEF Spec

-----------------------------------------------------------------------------
(* Theorems. *)

(* A package that was sent and is not running holds nothing, so the        *)
(* commands that wait are those still to come.                             *)
LEMMA WaitingIsOpen ==
  ASSUME IInv
  PROVE  \A op : Waiting(op) = Open(op)
  BY DEF IInv, PackageInv, TypeOK, Waiting, Open

(* The cached speed, startup mode and clock are those the link will have   *)
(* when the package is through (power_change.py pushes, initial_device.py  *)
(* resets), but for what the library leaves wrong after a failed package or*)
(* initialisation, a cleared change, a change pending across a reset, or a *)
(* startup mode whose reading back raised (power_change.py:104).           *)
THEOREM CacheFollowsLink == Spec => []CacheIsLink
<1>1. IInv => CacheIsLink
  BY WaitingIsOpen DEF IInv, CacheInv, CacheIsLink, SpeedFollows, ClockFollows
<1> QED BY <1>1, Invariant, PTL

(* No speed or clock command pushed on a cache that is not left wrong in   *)
(* one of those ways, and not overtaken by a reset, meets a link that must *)
(* refuse it, for any requests, gears and number of pending commands.      *)
THEOREM CommandsMeetTheirLink == Spec => []CommandsAreLegal
<1>1. IInv => CommandsAreLegal
  <2> SUFFICES ASSUME IInv, NEW i \in DOMAIN cmds, Ready(i), ~cmds[i].blind
               PROVE  /\ ~Refused(cmds[i])
                      /\ cmds[i].op = "speed" /\ hw.startup = "LS" /\ cmds[i].speed.hsrate # hw.speed.hsrate =>
                           SlowGearOne(hw.speed)
    BY DEF CommandsAreLegal
  <2>1. OpenBefore(i) = {}
    BY WaitingFirst DEF IInv, CommandInv, CommandOk, OpenBefore, Open
  <2>2. Fits(cmds[i], hw.speed)
    BY <2>1 DEF IInv, LegalInv, Legal, Ready
  <2> QED BY <2>2 DEF Fits, Refused
<1> QED BY <1>1, Invariant, PTL

(* When an initialisation returns, number and capacities of the units are  *)
(* the device's, whatever configuration it carried along.                  *)
THEOREM CapacitiesFollowDevice == Spec => CapacitiesAreCached
<1>1. IInv /\ [Next]_vars =>
        [SendReturns /\ call.op \in {"init", "first"} =>
           /\ known.number = hw.device.number
           /\ \A lun \in 0 .. known.number - 1 : known.capacity[lun] = hw.device.capacity[lun]]_vars
  BY DEF IInv, DescriptorInv, SendReturns, Completed
<1> QED BY <1>1, Invariant, PTL DEF Spec, CapacitiesAreCached

(* A first initialisation that returns, and that nothing was carried into, *)
(* leaves link, clock, startup mode and cache where it was asked to.       *)
THEOREM FirstInitIsSettled == Spec => FirstInitSettles
<1>1. IInv /\ [Next]_vars =>
        [SendReturns /\ call.op = "first" /\ ~call.carried =>
           /\ hw.startup = call.startup /\ hw.setting = call.startup
           /\ hw.speed = FullSpeed /\ cache.speed = FullSpeed
           /\ hw.clock = call.clock /\ cache.refclk = call.clock]_vars
  <2> SUFFICES ASSUME IInv, SendReturns, call.op = "first", ~call.carried
               PROVE  /\ hw.startup = call.startup /\ hw.setting = call.startup
                      /\ hw.speed = FullSpeed /\ cache.speed = FullSpeed
                      /\ hw.clock = call.clock /\ cache.refclk = call.clock
    OBVIOUS
  <2>1. call.step = "send" /\ executed = DOMAIN cmds
    BY DEF SendReturns, Completed
  <2>2. hw.startup = call.startup /\ hw.setting = call.startup
    BY <2>1 DEF IInv, CallInv, LinkSteps
  <2>3. /\ "speed" \notin doubt /\ "clock" \notin doubt
        /\ cache.refclk = call.clock /\ cache.speed = FullSpeed
    BY <2>1 DEF IInv, SettledInv, LinkSteps
  <2>4. Open("speed") = {} /\ Open("clock") = {}
    BY <2>1 DEF Open
  <2> QED BY <2>2, <2>3, <2>4 DEF IInv, CacheInv, SpeedFollows, ClockFollows
<1> QED BY <1>1, Invariant, PTL DEF Spec, FirstInitSettles

(* A call that has sent something and ends leaves the package clear, but   *)
(* for a send that fails and a flag function that raises.                  *)
THEOREM ReturnsAreClear == Spec => ReturnsClear
<1> DEFINE Left ==
      Running /\ Idle' =>
        \/ cmds' = <<>> /\ ~sent'
        \/ SendFails
        \/ QueryMismatch /\ call.op = "flag"
<1>1. IInv /\ [Next]_vars => [Left]_vars
  <2> SUFFICES ASSUME IInv, Next, Running, call' = NoCall
               PROVE  Left
    BY DEF Idle
  <2>1. call.step # "idle" /\ call'.step = "idle" /\ call \in CallType
    BY NoCallTyped DEF Running, IInv, TypeOK
  <2>2. CASE PatternNext
    BY <2>1, <2>2, NoCallTyped
       DEF PatternNext, PushSpeedChange, PushSwitchRefClk, PushConfig, PatternSend, PatternClears, Idle
  <2>3. CASE InitNext
    <3>1. ~Idle /\ call.step \notin {"dcmd5", "descriptors", "link", "mode"}
      BY <2>1, NoCallTyped DEF Idle, Running
    <3>2. CASE ReadUnitDescriptors
      BY <2>1, <3>2 DEF ReadUnitDescriptors, CallType
    <3>3. CASE TestUnitsReady
      BY <2>1, <3>3 DEF TestUnitsReady, CallType
    <3>4. CASE ChangeToMaxGear
      BY <2>1, <3>4 DEF ChangeToMaxGear, CallType
    <3> QED BY <2>3, <3>1, <3>2, <3>3, <3>4
            DEF InitNext, InitTesterToUnitReady, Dcmd5Fails, Dcmd5Succeeds, ReadDeviceDescriptors,
                FirstInit, LinkStartup, SetLinkStartupModeAndCheck
  <2>4. CASE QueryNext
    <3>1. CASE \E op \in {"attribute", "flag"} : Query(op)
      BY <2>1, <3>1, NoCallTyped DEF Query, Idle
    <3>2. CASE QueryMatches
      BY <3>2 DEF QueryMatches, ClearPackage
    <3>3. CASE QueryMismatch
      <4>1. CASE call.op = "attribute"
        BY <3>3, <4>1 DEF QueryMismatch, ClearsBeforeChecks, ClearPackage
      <4>2. call.op \in {"attribute", "flag"}
        BY <3>3 DEF QueryMismatch, Completed, IInv, CallInv
      <4> QED BY <3>3, <4>1, <4>2
    <3> QED BY <2>4, <3>1, <3>2, <3>3 DEF QueryNext
  <2>5. CASE SendNext
    BY <2>1, <2>5 DEF SendNext, Execute, SendReturns, ClearPackage
  <2> QED BY <2>2, <2>3, <2>4, <2>5 DEF Next
<1> QED BY <1>1, Invariant, PTL DEF Spec, ReturnsClear
=============================================================================
