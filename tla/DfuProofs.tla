----------------------------- MODULE DfuProofs -----------------------------
(* What class DFU promises for an image of any length, any devices, any number  *)
(* of lost transfers, failures, unpluggings and killed runs.                    *)
EXTENDS Dfu, SequenceTheorems, TLAPS

\* The blocks a download has sent so far, in their order.
Prefix(k) == [i \in 1..k |-> i]

DevType == [kind : Kinds, state : DevStates, image : Seq(Nat), flash : Seq(Nat), done : BOOLEAN, present : BOOLEAN]
Places == {"idle", "check", "set", "loop", "detached", "checked", "send", "poll", "zero", "manifest", "reset", "final", "done"}
HostType == [pc : Places, st : AnyState, seen : AnyState, goal : {"dfuIDLE", "appIDLE"}, back : {"send", "done"},
             block : Nat, ret : Int, flash : SUBSET Seq(Nat), met : AnyState, began : AnyState, faults : Nat]
TypeOK == dev \in DevType /\ host \in HostType /\ faults \in Nat

Manifesting == {"dfuMANIFEST_SYNC", "dfuMANIFEST"}
Setting == {"set", "loop", "detached", "checked"}

\* Where the host is in the file, and what the device can be doing meanwhile.
InStep ==
    /\ host.pc \in {"send", "poll"} => host.block \in 1..Blocks
    /\ host.pc = "check" \/ (host.pc \in Setting /\ host.back = "send") => host.block = 1
    /\ dev.present /\ (host.pc = "zero" \/ (host.pc = "send" /\ host.block > 1)) => dev.state = "dfuDNLOAD_IDLE"
    /\ dev.present /\ host.pc = "poll" =>
           dev.state \in {"dfuDNLOAD_SYNC", "dfuDNBUSY", "dfuDNLOAD_IDLE", "dfuERROR"}

\* What the device has received since a download that began in dfuIDLE.
Received ==
    host.began = "dfuIDLE" =>
        /\ dev.state \in Manifesting => dev.image = Whole
        /\ dev.present /\ host.pc = "send" /\ host.block > 1 => dev.image = Prefix(host.block - 1)
        /\ dev.present /\ host.pc = "poll" /\ dev.state # "dfuERROR" => dev.image = Prefix(host.block)
        /\ dev.present /\ host.pc = "zero" => dev.image = Whole

Inv == TypeOK /\ InStep /\ Received

\* What a run has to tell: nothing yet before the empty block, then success or an error.
Sending == host.pc \in {"check", "send", "poll", "zero"} \/ (host.pc \in Setting /\ host.back = "send")
Ending == host.pc \in {"manifest", "reset", "final"} \/ (host.pc \in Setting /\ host.back = "done")
Results ==
    /\ Sending => host.ret = 0
    /\ Ending => host.ret \in {5, -7, OtherError}
    /\ host.pc = "idle" => host.ret \in {0, Signal}

\* Until then the firmware is what it was or what an earlier run has left to come.
Untouched == Sending \/ (host.pc = "done" /\ host.ret \in -5 .. -1) => Firmwares \subseteq host.flash

\* Without a fault the device is there for every block; and after the last the image is on
\* its way to be the firmware, until it is.
OnItsWay == dev.present /\ dev.state \in Manifesting /\ dev.image = Whole /\ ~dev.done
Lands ==
    /\ faults >= host.faults
    /\ Flawless /\ (host.pc \in {"poll", "zero"} \/ (host.pc = "send" /\ host.block > 1)) => dev.present
    /\ Flawless /\ host.began = "dfuIDLE" /\ ~dev.kind.strict /\ host.ret = 5 =>
           dev.flash = Whole \/ (host.pc = "manifest" /\ OnItsWay)

Told == Results /\ Untouched /\ Lands

-----------------------------------------------------------------------------
\* The device after a request: what Goes and Stalls make of it, and that a request leaves
\* the firmware and the plug as they are.
Stays(e) == e \in DevType /\ e.flash = dev.flash /\ e.present = dev.present /\ e.kind = dev.kind

\* A device that only changes its state.
LEMMA NewState ==
    ASSUME NEW d \in DevType, NEW s \in DevStates, NEW e, e = [d EXCEPT !.state = s]
    PROVE  /\ e \in DevType /\ e.state = s /\ e.image = d.image /\ e.flash = d.flash /\ e.present = d.present
           /\ e.kind = d.kind /\ e.done = d.done
BY DEF DevType

\* A request that is refused.
LEMMA StallsIs ==
    ASSUME NEW d \in DevType, NEW t \in Stalls(d)
    PROVE  /\ t.res = 0 /\ t.dev \in DevType /\ t.dev.state = "dfuERROR"
           /\ t.dev.image = d.image /\ t.dev.flash = d.flash /\ t.dev.present = d.present
           /\ t.dev.kind = d.kind /\ t.dev.done = d.done
<1>1. t = [dev |-> [d EXCEPT !.state = "dfuERROR"], res |-> 0]
  BY DEF Stalls
<1>2. t.dev = [d EXCEPT !.state = "dfuERROR"] /\ t.res = 0
  BY <1>1
<1>3. "dfuERROR" \in DevStates
  BY DEF DevStates
<1>4. QED BY <1>2, <1>3, NewState

\* A request that is taken.
LEMMA GoesIs ==
    ASSUME NEW d \in DevType, NEW S \in SUBSET DevStates, NEW t \in Goes(d, S)
    PROVE  /\ t.res = 1 /\ t.dev \in DevType /\ t.dev.state \in S
           /\ t.dev.image = d.image /\ t.dev.flash = d.flash /\ t.dev.present = d.present
           /\ t.dev.kind = d.kind /\ t.dev.done = d.done
<1>1. PICK s \in S : t = [dev |-> [d EXCEPT !.state = s], res |-> 1]
  BY DEF Goes
<1>2. t.dev = [d EXCEPT !.state = s] /\ t.res = 1
  BY <1>1
<1>3. QED BY <1>2, NewState

\* A block is appended or begins an image, or it is refused.
LEMMA TakesBlock ==
    ASSUME dev \in DevType, NEW b \in Nat, b > 0, NEW t \in Takes(dev, [cmd |-> "DNLOAD", block |-> b])
    PROVE  /\ Stays(t.dev)
           /\ \/ /\ t.res = 1 /\ t.dev.state = "dfuDNLOAD_SYNC"
                 /\ \/ dev.state = "dfuIDLE" /\ t.dev.image = <<b>>
                    \/ dev.state = "dfuDNLOAD_IDLE" /\ t.dev.image = Append(dev.image, b)
              \/ t.res = 0 /\ t.dev.state = "dfuERROR" /\ t.dev.image = dev.image
<1> DEFINE req == [cmd |-> "DNLOAD", block |-> b]
           img == IF dev.state = "dfuIDLE" THEN <<b>> ELSE Append(dev.image, b)
           new == [dev EXCEPT !.image = img, !.done = FALSE]
<1>1. req.cmd = "DNLOAD" /\ req.block = b
  OBVIOUS
<1>2. CASE dev.state \in {"dfuIDLE", "dfuDNLOAD_IDLE"}
  <2>1. t \in Goes(new, {"dfuDNLOAD_SYNC"})
    BY <1>1, <1>2 DEF Takes
  <2>2. img \in Seq(Nat)
    BY DEF DevType
  <2>3. (dev.state = "dfuIDLE" => img = <<b>>) /\ (dev.state # "dfuIDLE" => img = Append(dev.image, b))
    BY Zenon
  <2> HIDE DEF img
  <2>4. new \in DevType /\ new.flash = dev.flash /\ new.present = dev.present /\ new.kind = dev.kind /\ new.image = img
    BY <2>2 DEF DevType
  <2> HIDE DEF new
  <2>5. {"dfuDNLOAD_SYNC"} \in SUBSET DevStates
    BY DEF DevStates
  <2>6. /\ t.res = 1 /\ t.dev \in DevType /\ t.dev.state \in {"dfuDNLOAD_SYNC"}
        /\ t.dev.image = img /\ t.dev.flash = dev.flash /\ t.dev.present = dev.present /\ t.dev.kind = dev.kind
    BY <2>1, <2>4, <2>5, GoesIs
  <2>7. QED BY <1>2, <2>3, <2>6 DEF Stays
<1>3. CASE dev.state \notin {"dfuIDLE", "dfuDNLOAD_IDLE"}
  <2>1. t \in Stalls(dev)
    BY <1>1, <1>3 DEF Takes
  <2>2. QED BY <2>1, StallsIs DEF Stays
<1>4. QED BY <1>2, <1>3

\* The empty block begins the manifestation, or it is refused.
LEMMA TakesZero ==
    ASSUME dev \in DevType, NEW t \in Takes(dev, [cmd |-> "DNLOAD", block |-> 0])
    PROVE  /\ Stays(t.dev) /\ t.dev.image = dev.image /\ t.res \in {0, 1}
           /\ t.dev.state = "dfuERROR" \/ (dev.state = "dfuDNLOAD_IDLE" /\ t.dev.state = "dfuMANIFEST_SYNC")
<1> DEFINE req == [cmd |-> "DNLOAD", block |-> 0]
           new == [dev EXCEPT !.done = FALSE]
<1>1. req.cmd = "DNLOAD" /\ req.block = 0
  OBVIOUS
<1>2. CASE dev.state = "dfuDNLOAD_IDLE"
  <2>1. t \in Goes(new, {"dfuMANIFEST_SYNC"})
    BY <1>1, <1>2 DEF Takes
  <2>2. new \in DevType /\ new.flash = dev.flash /\ new.present = dev.present /\ new.kind = dev.kind /\ new.image = dev.image
    BY DEF DevType
  <2> HIDE DEF new
  <2>3. {"dfuMANIFEST_SYNC"} \in SUBSET DevStates
    BY DEF DevStates
  <2>4. /\ t.res = 1 /\ t.dev \in DevType /\ t.dev.state \in {"dfuMANIFEST_SYNC"}
        /\ t.dev.image = dev.image /\ t.dev.flash = dev.flash /\ t.dev.present = dev.present /\ t.dev.kind = dev.kind
    BY <2>1, <2>2, <2>3, GoesIs
  <2>5. QED BY <1>2, <2>4 DEF Stays
<1>3. CASE dev.state # "dfuDNLOAD_IDLE"
  <2>1. t \in Stalls(dev)
    BY <1>1, <1>3 DEF Takes
  <2>2. QED BY <2>1, StallsIs DEF Stays
<1>4. QED BY <1>2, <1>3

\* A poll moves the device on from the SYNC states only.
LEMMA TakesStatus ==
    ASSUME dev \in DevType, NEW t \in Takes(dev, Status)
    PROVE  /\ Stays(t.dev) /\ t.dev.image = dev.image /\ t.dev.done = dev.done /\ t.res \in {0, 1}
           /\ \/ t.dev.state \in {dev.state, "dfuERROR"}
              \/ dev.state = "dfuDNLOAD_SYNC" /\ t.dev.state \in {"dfuDNLOAD_IDLE", "dfuDNBUSY"}
              \/ dev.state = "dfuMANIFEST_SYNC" /\ t.dev.state \in {"dfuIDLE", "dfuMANIFEST"}
<1>1. Status.cmd = "GETSTATUS"
  BY DEF Status
<1>2. \/ t \in Stalls(dev)
      \/ \E S \in SUBSET DevStates :
            /\ t \in Goes(dev, S)
            /\ \/ S = {dev.state}
               \/ dev.state = "dfuDNLOAD_SYNC" /\ S \subseteq {"dfuDNLOAD_IDLE", "dfuDNBUSY"}
               \/ dev.state = "dfuMANIFEST_SYNC" /\ S \subseteq {"dfuIDLE", "dfuMANIFEST"}
  <2>1. CASE dev.state = "dfuDNLOAD_SYNC"
    <3> DEFINE S == {"dfuDNLOAD_IDLE"} \cup (IF dev.done THEN {} ELSE {"dfuDNBUSY"})
    <3>1. t \in Goes(dev, S)
      BY <1>1, <2>1 DEF Takes
    <3>2. S \in SUBSET DevStates /\ S \subseteq {"dfuDNLOAD_IDLE", "dfuDNBUSY"}
      BY DEF DevStates
    <3> HIDE DEF S
    <3>3. QED BY <2>1, <3>1, <3>2
  <2>2. CASE dev.state = "dfuMANIFEST_SYNC"
    <3> DEFINE S == {IF dev.done THEN "dfuIDLE" ELSE "dfuMANIFEST"}
    <3>1. t \in Goes(dev, S)
      BY <1>1, <2>2 DEF Takes
    <3>2. S \in SUBSET DevStates /\ S \subseteq {"dfuIDLE", "dfuMANIFEST"}
      BY DEF DevStates
    <3> HIDE DEF S
    <3>3. QED BY <2>2, <3>1, <3>2
  <2>3. CASE dev.state \notin {"dfuDNLOAD_SYNC", "dfuMANIFEST_SYNC"}
    <3>1. t \in Stalls(dev) \/ t \in Goes(dev, {dev.state})
      BY <1>1, <2>3 DEF Takes
    <3>2. {dev.state} \in SUBSET DevStates
      BY DEF DevType
    <3>3. QED BY <3>1, <3>2
  <2>4. QED BY <2>1, <2>2, <2>3
<1>3. CASE t \in Stalls(dev)
  BY <1>3, StallsIs DEF Stays
<1>4. ASSUME NEW S \in SUBSET DevStates, t \in Goes(dev, S),
             \/ S = {dev.state}
             \/ dev.state = "dfuDNLOAD_SYNC" /\ S \subseteq {"dfuDNLOAD_IDLE", "dfuDNBUSY"}
             \/ dev.state = "dfuMANIFEST_SYNC" /\ S \subseteq {"dfuIDLE", "dfuMANIFEST"}
      PROVE  /\ Stays(t.dev) /\ t.dev.image = dev.image /\ t.dev.done = dev.done /\ t.res \in {0, 1}
             /\ \/ t.dev.state \in {dev.state, "dfuERROR"}
                \/ dev.state = "dfuDNLOAD_SYNC" /\ t.dev.state \in {"dfuDNLOAD_IDLE", "dfuDNBUSY"}
                \/ dev.state = "dfuMANIFEST_SYNC" /\ t.dev.state \in {"dfuIDLE", "dfuMANIFEST"}
  <2>1. /\ t.res = 1 /\ t.dev \in DevType /\ t.dev.state \in S /\ t.dev.done = dev.done
        /\ t.dev.image = dev.image /\ t.dev.flash = dev.flash /\ t.dev.present = dev.present /\ t.dev.kind = dev.kind
    BY <1>4, GoesIs
  <2>2. QED BY <1>4, <2>1 DEF Stays
<1>5. QED BY <1>2, <1>3, <1>4

\* The requests of set_state end whatever the device was doing.
LEMMA TakesOther ==
    ASSUME dev \in DevType, NEW c \in {"ABORT", "CLRSTATUS", "DETACH"}, NEW t \in Takes(dev, [cmd |-> c])
    PROVE  Stays(t.dev) /\ t.res \in {0, 1} /\ t.dev.state \in {"dfuIDLE", "dfuERROR", "appDETACH"}
<1> DEFINE new == [dev EXCEPT !.image = <<>>]
<1>1. [cmd |-> c].cmd = c
  OBVIOUS
<1>2. t \in Stalls(dev) \/ t \in Goes(new, {"dfuIDLE"}) \/ t \in Goes(dev, {"dfuIDLE"}) \/ t \in Goes(dev, {"appDETACH"})
  <2>1. CASE c = "ABORT"
    BY <1>1, <2>1 DEF Takes
  <2>2. CASE c = "CLRSTATUS"
    BY <1>1, <2>2 DEF Takes
  <2>3. CASE c = "DETACH"
    BY <1>1, <2>3 DEF Takes
  <2>4. QED BY <2>1, <2>2, <2>3
<1>3. new \in DevType /\ new.flash = dev.flash /\ new.present = dev.present /\ new.kind = dev.kind
  <2>1. <<>> \in Seq(Nat)
    BY EmptySeq
  <2>2. QED BY <2>1 DEF DevType
<1> HIDE DEF new
<1>4. {"dfuIDLE"} \in SUBSET DevStates /\ {"appDETACH"} \in SUBSET DevStates
  BY DEF DevStates
<1>5. CASE t \in Stalls(dev)
  BY <1>5, StallsIs DEF Stays
<1>6. CASE t \in Goes(new, {"dfuIDLE"})
  <2>1. t.res = 1 /\ t.dev \in DevType /\ t.dev.state \in {"dfuIDLE"} /\ t.dev.flash = new.flash /\ t.dev.present = new.present /\ t.dev.kind = new.kind
    BY <1>3, <1>4, <1>6, GoesIs
  <2>2. QED BY <1>3, <2>1 DEF Stays
<1>7. CASE t \in Goes(dev, {"dfuIDLE"}) \/ t \in Goes(dev, {"appDETACH"})
  <2>1. /\ t.res = 1 /\ t.dev \in DevType /\ t.dev.state \in {"dfuIDLE", "appDETACH"}
        /\ t.dev.flash = dev.flash /\ t.dev.present = dev.present /\ t.dev.kind = dev.kind
    BY <1>4, <1>7, GoesIs
  <2>2. QED BY <2>1 DEF Stays
<1>8. QED BY <1>2, <1>5, <1>6, <1>7

-----------------------------------------------------------------------------
\* The outcomes of a transfer: the device is gone, or has answered, or the transfer or the
\* answer was lost, which reads as 0 bytes.
LEMMA Outcomes ==
    ASSUME NEW req, NEW o \in Send(req)
    PROVE  /\ o.cost \in {0, 1}
           /\ \/ ~dev.present /\ o.dev = dev /\ o.res = -1
              \/ dev.present /\ o.dev = dev /\ o.res = 0
              \/ dev.present /\ \E t \in Takes(dev, req) : o.dev = t.dev /\ o.res \in {0, t.res}
           /\ dev.present /\ o.cost = 0 => \E t \in Takes(dev, req) : o.dev = t.dev /\ o.res = t.res
<1>1. CASE ~dev.present
  <2>1. o = [dev |-> dev, res |-> -1, cost |-> 0]
    BY <1>1 DEF Send
  <2>2. QED BY <1>1, <2>1
<1>2. CASE dev.present
  <2>1. \/ \E t \in Takes(dev, req) : o = [dev |-> t.dev, res |-> t.res, cost |-> 0]
        \/ \E d \in {dev} \cup {t.dev : t \in Takes(dev, req)} : o = [dev |-> d, res |-> 0, cost |-> 1]
    BY <1>2 DEF Send
  <2>2. CASE \E t \in Takes(dev, req) : o = [dev |-> t.dev, res |-> t.res, cost |-> 0]
    <3>1. PICK t \in Takes(dev, req) : o = [dev |-> t.dev, res |-> t.res, cost |-> 0]
      BY <2>2
    <3>2. o.dev = t.dev /\ o.res = t.res /\ o.cost = 0
      BY <3>1
    <3>3. QED BY <1>2, <3>2
  <2>3. CASE \E d \in {dev} \cup {t.dev : t \in Takes(dev, req)} : o = [dev |-> d, res |-> 0, cost |-> 1]
    <3>1. PICK d \in {dev} \cup {t.dev : t \in Takes(dev, req)} : o = [dev |-> d, res |-> 0, cost |-> 1]
      BY <2>3
    <3>2. o.dev = d /\ o.res = 0 /\ o.cost = 1
      BY <3>1
    <3>3. QED BY <1>2, <3>1, <3>2
  <2>4. QED BY <2>1, <2>2, <2>3
<1>3. QED BY <1>1, <1>2

\* A device e that the step left without a new manifestation.
Calm(e) ==
    /\ Stays(e)
    /\ e.state \in Manifesting => dev.state \in Manifesting /\ e.image = dev.image /\ e.done = dev.done

\* A poll is calm, lost or not.
LEMMA CalmStatus ==
    ASSUME dev \in DevType, NEW o \in Send(Status)
    PROVE  Calm(o.dev) /\ o.cost \in {0, 1} /\ o.res \in {-1, 0, 1}
<1>1. Calm(dev)
  BY DEF Calm, Stays
<1>2. ASSUME NEW t \in Takes(dev, Status) PROVE Calm(t.dev) /\ t.res \in {0, 1}
  BY <1>2, TakesStatus DEF Calm, Manifesting
<1>3. QED BY <1>1, <1>2, Outcomes

\* So are the requests of set_state.
LEMMA CalmOther ==
    ASSUME dev \in DevType, NEW c \in {"ABORT", "CLRSTATUS", "DETACH"}, NEW o \in Send([cmd |-> c])
    PROVE  Calm(o.dev) /\ o.cost \in {0, 1} /\ o.res \in {-1, 0, 1}
<1>1. Calm(dev)
  BY DEF Calm, Stays
<1>2. ASSUME NEW t \in Takes(dev, [cmd |-> c]) PROVE Calm(t.dev) /\ t.res \in {0, 1}
  BY <1>2, TakesOther DEF Calm, Manifesting
<1>3. QED BY <1>1, <1>2, Outcomes

-----------------------------------------------------------------------------
\* A host h that is not in the middle of the blocks.
Quiet(h) ==
    /\ h \in HostType /\ h.began = host.began /\ h.pc \notin {"poll", "zero"}
    /\ h.pc \in {"send", "check"} \/ (h.pc \in Setting /\ h.back = "send") => h.block = 1

\* What every step must do.
Goal == Inv' /\ (dev'.flash # dev.flash /\ host.began = "dfuIDLE" => dev'.flash = Whole)

\* A step to a quiet host with a calm device meets the goal.
LEMMA QuietStep ==
    ASSUME Inv, Quiet(host'), Calm(dev'), faults' \in Nat
    PROVE  Goal
<1>1. TypeOK'
  BY DEF TypeOK, Quiet, Calm, Stays
<1>2. InStep'
  BY DfuBounds DEF InStep, Quiet
<1>3. Received'
  BY DEF Received, Quiet, Calm, Inv
<1>4. QED BY <1>1, <1>2, <1>3 DEF Goal, Inv, Calm, Stays

\* The host goes to another place.
LEMMA AtIs ==
    ASSUME NEW h \in HostType, NEW p \in Places, NEW g \in At(h, p)
    PROVE  g \in HostType /\ g.pc = p /\ g.block = h.block /\ g.back = h.back /\ g.began = h.began
<1>1. g = [h EXCEPT !.pc = p]
  BY DEF At
<1>2. QED BY <1>1 DEF HostType

\* download returns.
LEMMA DoneIs ==
    ASSUME NEW h \in HostType, NEW r \in Int, NEW g \in Done(h, r)
    PROVE  g \in HostType /\ g.pc = "done" /\ g.began = h.began
<1>1. g = [h EXCEPT !.pc = "done", !.ret = r]
  BY DEF Done
<1>2. QED BY <1>1 DEF HostType, Places

\* set_state is called.
LEMMA SetStateIs ==
    ASSUME NEW h \in HostType, NEW a \in {"dfuIDLE", "appIDLE"}, NEW b \in {"send", "done"}, NEW g \in SetState(h, a, b)
    PROVE  g \in HostType /\ g.pc = "set" /\ g.block = h.block /\ g.back = b /\ g.began = h.began
<1>1. g = [h EXCEPT !.pc = "set", !.goal = a, !.back = b]
  BY DEF SetState
<1>2. QED BY <1>1 DEF HostType, Places

\* set_state has learnt a state.
LEMMA LoopIs ==
    ASSUME NEW h \in HostType, NEW x \in AnyState, NEW g, g = [h EXCEPT !.pc = "loop", !.seen = x]
    PROVE  g \in HostType /\ g.pc = "loop" /\ g.block = h.block /\ g.back = h.back /\ g.began = h.began
BY DEF HostType, Places

\* A status is stored.
LEMMA StatusIs ==
    ASSUME NEW h \in HostType, NEW x \in AnyState, NEW g, g = [h EXCEPT !.st = x]
    PROVE  g \in HostType /\ g.pc = h.pc /\ g.block = h.block /\ g.back = h.back /\ g.began = h.began /\ g.ret = h.ret
BY DEF HostType

\* A result is stored.
LEMMA RetIs ==
    ASSUME NEW h \in HostType, NEW r \in Int, NEW g, g = [h EXCEPT !.ret = r]
    PROVE  g \in HostType /\ g.pc = h.pc /\ g.began = h.began
BY DEF HostType

\* set_state returns to a place that is quiet, and so is it itself.
LEMMA Returns ==
    ASSUME Inv, host.pc \in Setting
    PROVE  /\ \A g \in Return(host) : Quiet(g)
           /\ \A p \in {"detached", "checked"} : \A g \in At(host, p) : Quiet(g)
           /\ \A x \in AnyState : Quiet([host EXCEPT !.pc = "loop", !.seen = x])
<1>1. host \in HostType /\ host.back \in {"send", "done"} /\ (host.back = "send" => host.block = 1)
  BY DEF Inv, TypeOK, InStep, HostType
<1>2. host.back \in Places /\ {"detached", "checked"} \subseteq Places
  BY <1>1 DEF Places
<1>3. ASSUME NEW g \in Return(host) PROVE Quiet(g)
  <2>1. g \in HostType /\ g.pc = host.back /\ g.block = host.block /\ g.back = host.back /\ g.began = host.began
    BY <1>1, <1>2, AtIs DEF Return
  <2>2. QED BY <1>1, <2>1 DEF Quiet, Setting
<1>4. ASSUME NEW p \in {"detached", "checked"}, NEW g \in At(host, p) PROVE Quiet(g)
  <2>1. g \in HostType /\ g.pc = p /\ g.block = host.block /\ g.back = host.back /\ g.began = host.began
    BY <1>1, <1>2, AtIs
  <2>2. QED BY <1>1, <2>1 DEF Quiet, Setting
<1>5. ASSUME NEW x \in AnyState PROVE Quiet([host EXCEPT !.pc = "loop", !.seen = x])
  <2> DEFINE g == [host EXCEPT !.pc = "loop", !.seen = x]
  <2>1. g \in HostType /\ g.pc = "loop" /\ g.block = host.block /\ g.back = host.back /\ g.began = host.began
    BY <1>1, LoopIs
  <2> HIDE DEF g
  <2>2. Quiet(g)
    BY <1>1, <2>1 DEF Quiet, Setting
  <2>3. QED BY <2>2 DEF g
<1>6. QED BY <1>3, <1>4, <1>5

\* A USB reset.
LEMMA ResetIsCalm ==
    ASSUME dev \in DevType
    PROVE  Calm([dev EXCEPT !.state = "appIDLE"])
<1> DEFINE e == [dev EXCEPT !.state = "appIDLE"]
<1>1. "appIDLE" \in DevStates
  BY DEF DevStates
<1>2. e \in DevType /\ e.state = "appIDLE" /\ e.flash = dev.flash /\ e.present = dev.present /\ e.kind = dev.kind
  BY <1>1, NewState
<1> HIDE DEF e
<1>3. Calm(e)
  BY <1>2 DEF Calm, Stays, Manifesting
<1>4. QED BY <1>3 DEF e

\* The steps of set_state.
LEMMA SetSteps ==
    ASSUME Inv, SetEnter \/ SetLeave \/ SetDetach \/ SetDetached \/ SetReset \/ SetAbort \/ SetClear \/ SetChecked
    PROVE  Goal
<1>0. dev \in DevType /\ faults \in Nat /\ Calm(dev)
  BY DEF Inv, TypeOK, Calm, Stays
<1>1. CASE SetEnter
  <2>1. PICK o \in Send(Status) : dev' = o.dev /\ faults' = faults + o.cost /\ host' \in
            IF o.res < 0 THEN Return(host)
            ELSE {[host EXCEPT !.pc = "loop", !.seen = x] : x \in IF o.res > 0 THEN {o.dev.state} ELSE AnyState}
    BY <1>1 DEF SetEnter, Transfers
  <2>2. Calm(o.dev) /\ o.cost \in {0, 1} /\ o.res \in {-1, 0, 1}
    BY <1>0, CalmStatus
  <2>3. Quiet(host')
    <3>1. host.pc \in Setting /\ o.dev.state \in AnyState
      BY <1>1, <2>2 DEF SetEnter, Setting, Calm, Stays, DevType, AnyState
    <3>2. host' \in Return(host) \/ \E x \in AnyState : host' = [host EXCEPT !.pc = "loop", !.seen = x]
      BY <2>1, <3>1
    <3>3. CASE host' \in Return(host)
      BY <3>1, <3>3, Returns
    <3>4. ASSUME NEW x \in AnyState, host' = [host EXCEPT !.pc = "loop", !.seen = x] PROVE Quiet(host')
      BY <3>1, <3>4, Returns
    <3>5. QED BY <3>2, <3>3, <3>4
  <2>4. dev' = o.dev /\ faults' = faults + o.cost
    BY <2>1, Zenon
  <2>5. QED BY <1>0, <2>2, <2>3, <2>4, QuietStep
<1>2. CASE SetLeave
  <2>1. Quiet(host')
    BY <1>2, Returns DEF SetLeave, Setting
  <2>2. QED BY <1>0, <1>2, <2>1, QuietStep DEF SetLeave
<1>3. CASE SetDetach
  <2>1. PICK o \in Send([cmd |-> "DETACH"]) : dev' = o.dev /\ faults' = faults + o.cost /\ host' \in
            IF o.res < 0 THEN Return(host) ELSE At(host, "detached")
    BY <1>3 DEF SetDetach, Transfers
  <2>2. Calm(o.dev) /\ o.cost \in {0, 1} /\ o.res \in {-1, 0, 1}
    BY <1>0, CalmOther
  <2>3. Quiet(host')
    <3>1. host.pc \in Setting
      BY <1>3 DEF SetDetach, InLoop, Setting
    <3>2. QED BY <2>1, <3>1, Returns
  <2>4. QED BY <1>0, <2>1, <2>2, <2>3, QuietStep
<1>4. CASE SetDetached
  <2>1. PICK o \in Send(Status) : dev' = o.dev /\ faults' = faults + o.cost /\ host' \in
            IF o.res <= 0 \/ o.dev.state # "appDETACH" THEN Return(host)
            ELSE {[host EXCEPT !.pc = "loop", !.seen = o.dev.state]}
    BY <1>4 DEF SetDetached, Transfers
  <2>2. Calm(o.dev) /\ o.cost \in {0, 1} /\ o.res \in {-1, 0, 1}
    BY <1>0, CalmStatus
  <2>3. Quiet(host')
    <3>1. host.pc \in Setting /\ o.dev.state \in AnyState
      BY <1>4, <2>2 DEF SetDetached, Setting, Calm, Stays, DevType, AnyState
    <3>2. host' \in Return(host) \/ \E x \in AnyState : host' = [host EXCEPT !.pc = "loop", !.seen = x]
      BY <2>1, <3>1
    <3>3. CASE host' \in Return(host)
      BY <3>1, <3>3, Returns
    <3>4. ASSUME NEW x \in AnyState, host' = [host EXCEPT !.pc = "loop", !.seen = x] PROVE Quiet(host')
      BY <3>1, <3>4, Returns
    <3>5. QED BY <3>2, <3>3, <3>4
  <2>4. QED BY <1>0, <2>1, <2>2, <2>3, QuietStep
<1>5. CASE SetReset
  <2>1. Quiet(host')
    BY <1>5, Returns DEF SetReset, ResetsTo, InLoop, Setting
  <2>2. Calm(dev') /\ faults' \in Nat
    BY <1>0, <1>5, ResetIsCalm DEF SetReset, ResetsTo
  <2>3. QED BY <2>1, <2>2, QuietStep
<1>6. CASE SetAbort
  <2>1. PICK o \in Send([cmd |-> "ABORT"]) : dev' = o.dev /\ faults' = faults + o.cost /\ host' \in
            IF o.res < 0 THEN Return(host) ELSE At(host, "checked")
    BY <1>6 DEF SetAbort, Transfers
  <2>2. Calm(o.dev) /\ o.cost \in {0, 1} /\ o.res \in {-1, 0, 1}
    BY <1>0, CalmOther
  <2>3. Quiet(host')
    <3>1. host.pc \in Setting
      BY <1>6 DEF SetAbort, InLoop, Setting
    <3>2. QED BY <2>1, <3>1, Returns
  <2>4. QED BY <1>0, <2>1, <2>2, <2>3, QuietStep
<1>7. CASE SetClear
  <2>1. host.pc \in Setting
    BY <1>7 DEF SetClear, InLoop, Setting
  <2>2. CASE host.goal = "appIDLE"
    <3>1. Quiet(host')
      BY <1>7, <2>1, <2>2, Returns DEF SetClear, ResetsTo
    <3>2. Calm(dev') /\ faults' \in Nat
      BY <1>0, <1>7, <2>2, ResetIsCalm DEF SetClear, ResetsTo
    <3>3. QED BY <3>1, <3>2, QuietStep
  <2>3. CASE host.goal # "appIDLE"
    <3>1. PICK o \in Send([cmd |-> "CLRSTATUS"]) : dev' = o.dev /\ faults' = faults + o.cost /\ host' \in
              IF o.res < 0 THEN Return(host) ELSE At(host, "checked")
      BY <1>7, <2>3 DEF SetClear, Transfers
    <3>2. Calm(o.dev) /\ o.cost \in {0, 1}
      BY <1>0, CalmOther
    <3>3. Quiet(host')
      BY <2>1, <3>1, Returns
    <3>4. QED BY <1>0, <3>1, <3>2, <3>3, QuietStep
  <2>4. QED BY <2>2, <2>3
<1>8. CASE SetChecked
  <2>1. PICK o \in Send(Status) : dev' = o.dev /\ faults' = faults + o.cost /\ host' \in
            IF o.res <= 0 \/ o.dev.state # host.goal THEN Return(host)
            ELSE {[host EXCEPT !.pc = "loop", !.seen = o.dev.state]}
    BY <1>8 DEF SetChecked, Transfers
  <2>2. Calm(o.dev) /\ o.cost \in {0, 1} /\ o.res \in {-1, 0, 1}
    BY <1>0, CalmStatus
  <2>3. Quiet(host')
    <3>1. host.pc \in Setting /\ o.dev.state \in AnyState
      BY <1>8, <2>2 DEF SetChecked, Setting, Calm, Stays, DevType, AnyState
    <3>2. host' \in Return(host) \/ \E x \in AnyState : host' = [host EXCEPT !.pc = "loop", !.seen = x]
      BY <2>1, <3>1
    <3>3. CASE host' \in Return(host)
      BY <3>1, <3>3, Returns
    <3>4. ASSUME NEW x \in AnyState, host' = [host EXCEPT !.pc = "loop", !.seen = x] PROVE Quiet(host')
      BY <3>1, <3>4, Returns
    <3>5. QED BY <3>2, <3>3, <3>4
  <2>4. QED BY <1>0, <2>1, <2>2, <2>3, QuietStep
<1>9. QED BY <1>1, <1>2, <1>3, <1>4, <1>5, <1>6, <1>7, <1>8

\* The steps of download outside the loop over the blocks.
LEMMA CheckStep ==
    ASSUME Inv, Check
    PROVE  Goal
<1>0. dev \in DevType /\ faults \in Nat /\ host \in HostType /\ host.block = 1 /\ host.pc = "check"
  BY DEF Inv, TypeOK, InStep, Check
<1>1. PICK o \in Send(Status) : dev' = o.dev /\ faults' = faults + o.cost /\ host' \in
          IF o.res < 0 THEN Done(host, -1)
          ELSE UNION {LET h == [host EXCEPT !.st = x]
                      IN  IF x = "dfuIDLE" THEN At(h, "send") ELSE SetState(h, "dfuIDLE", "send") :
                          x \in IF o.res > 0 THEN {o.dev.state} ELSE AnyState}
  BY DEF Check, Transfers
<1>2. dev' = o.dev /\ faults' = faults + o.cost
  BY <1>1, Zenon
<1>3. Calm(o.dev) /\ o.cost \in {0, 1} /\ o.dev.state \in AnyState
  BY <1>0, CalmStatus DEF Calm, Stays, DevType, AnyState
<1>4. \/ host' \in Done(host, -1)
      \/ \E x \in AnyState : \/ host' \in At([host EXCEPT !.st = x], "send")
                             \/ host' \in SetState([host EXCEPT !.st = x], "dfuIDLE", "send")
  <2>1. CASE o.res < 0
    BY <1>1, <2>1, Zenon
  <2>2. CASE ~(o.res < 0)
    <3>1. PICK x \in (IF o.res > 0 THEN {o.dev.state} ELSE AnyState) :
              host' \in LET h == [host EXCEPT !.st = x]
                        IN  IF x = "dfuIDLE" THEN At(h, "send") ELSE SetState(h, "dfuIDLE", "send")
      BY <1>1, <2>2, Zenon
    <3>2. x \in AnyState
      BY <1>3
    <3>3. QED BY <3>1, <3>2, Zenon
  <2>3. QED BY <2>1, <2>2
<1>5. CASE host' \in Done(host, -1)
  <2>1. Quiet(host')
    BY <1>0, <1>5, DoneIs DEF Quiet, Setting
  <2>2. QED BY <1>0, <1>2, <1>3, <2>1, QuietStep
<1>6. ASSUME NEW x \in AnyState, host' \in At([host EXCEPT !.st = x], "send") \/ host' \in SetState([host EXCEPT !.st = x], "dfuIDLE", "send")
      PROVE  Goal
  <2> DEFINE h == [host EXCEPT !.st = x]
  <2>1. h \in HostType /\ h.block = 1 /\ h.began = host.began
    BY <1>0, StatusIs
  <2> HIDE DEF h
  <2>2. "send" \in Places
    BY DEF Places
  <2>3. host' \in HostType /\ host'.began = host.began /\ host'.pc \in {"send", "set"} /\ host'.block = 1
    <3>1. CASE host' \in At(h, "send")
      BY <2>1, <2>2, <3>1, AtIs
    <3>2. CASE host' \in SetState(h, "dfuIDLE", "send")
      BY <2>1, <3>2, SetStateIs
    <3>3. QED BY <1>6, <3>1, <3>2 DEF h
  <2>4. Quiet(host')
    BY <2>3 DEF Quiet
  <2>5. QED BY <1>0, <1>2, <1>3, <2>4, QuietStep
<1>7. QED BY <1>4, <1>5, <1>6

\* A host in the places after the last block is quiet.
LEMMA LateIsQuiet ==
    ASSUME NEW g \in HostType, g.began = host.began,
           g.pc \in {"manifest", "reset", "final", "done", "idle"} \/ (g.pc = "set" /\ g.back = "done")
    PROVE  Quiet(g)
BY DEF Quiet, Setting

\* The loop after the empty block.
LEMMA AwaitStep ==
    ASSUME Inv, AwaitManifest
    PROVE  Goal
<1>0. dev \in DevType /\ faults \in Nat /\ host \in HostType /\ host.pc = "manifest"
  BY DEF Inv, TypeOK, AwaitManifest
<1>1. PICK o \in Send(Status) : dev' = o.dev /\ faults' = faults + o.cost /\ host' \in
          LET h == [host EXCEPT !.st = o.dev.state] IN
            CASE o.res = 0 -> At(host, "final")
              [] o.res < 0 -> At(host, "final") \cup At([host EXCEPT !.ret = OtherError], "final")
              [] o.res > 0 /\ o.dev.state = "dfuMANIFEST_WAIT_RESET" -> At(h, "reset")
              [] o.res > 0 /\ o.dev.state = "dfuERROR" -> SetState([h EXCEPT !.ret = -7], "dfuIDLE", "done")
              [] o.res > 0 /\ o.dev.state \in {"dfuIDLE", "appIDLE"} -> At(h, "final")
              [] OTHER -> {h}
  BY DEF AwaitManifest, Transfers
<1>2. dev' = o.dev /\ faults' = faults + o.cost
  BY <1>1, Zenon
<1>3. Calm(o.dev) /\ o.cost \in {0, 1} /\ o.res \in {-1, 0, 1} /\ o.dev.state \in AnyState
  BY <1>0, CalmStatus DEF Calm, Stays, DevType, AnyState
<1> DEFINE h == [host EXCEPT !.st = o.dev.state]
           lost == [host EXCEPT !.ret = OtherError]
           bad == [h EXCEPT !.ret = -7]
<1>4. \/ host' \in At(host, "final") \/ host' \in At(lost, "final") \/ host' \in At(h, "reset")
      \/ host' \in SetState(bad, "dfuIDLE", "done") \/ host' \in At(h, "final") \/ host' = h
  BY <1>1, <1>3
<1>5. h \in HostType /\ h.began = host.began /\ h.pc = "manifest"
  BY <1>0, <1>3, StatusIs
<1> HIDE DEF h
<1>6. lost \in HostType /\ lost.began = host.began /\ bad \in HostType /\ bad.began = host.began
  <2>1. OtherError \in Int /\ -7 \in Int
    BY DEF OtherError
  <2>2. QED BY <1>0, <1>5, <2>1, RetIs
<1> HIDE DEF lost, bad
<1>7. "final" \in Places /\ "reset" \in Places
  BY DEF Places
<1>8. /\ host' \in HostType /\ host'.began = host.began
      /\ host'.pc \in {"manifest", "reset", "final"} \/ (host'.pc = "set" /\ host'.back = "done")
  <2>1. CASE host' \in At(host, "final")
    BY <1>0, <1>7, <2>1, AtIs
  <2>2. CASE host' \in At(lost, "final")
    BY <1>6, <1>7, <2>2, AtIs
  <2>3. CASE host' \in At(h, "reset") \/ host' \in At(h, "final")
    BY <1>5, <1>7, <2>3, AtIs
  <2>4. CASE host' \in SetState(bad, "dfuIDLE", "done")
    BY <1>6, <2>4, SetStateIs
  <2>5. CASE host' = h
    BY <1>5, <2>5
  <2>6. QED BY <1>4, <2>1, <2>2, <2>3, <2>4, <2>5
<1>9. Quiet(host')
  BY <1>8, LateIsQuiet
<1>10. QED BY <1>0, <1>2, <1>3, <1>9, QuietStep

\* The reset after it, and the end.
LEMMA LateSteps ==
    ASSUME Inv, ResetDevice \/ Final
    PROVE  Goal
<1>0. dev \in DevType /\ faults \in Nat /\ host \in HostType /\ Calm(dev)
  BY DEF Inv, TypeOK, Calm, Stays
<1>1. "final" \in Places /\ "done" \in Places
  BY DEF Places
<1>2. CASE ResetDevice
  <2>1. CASE ResetsTo(At(host, "final"))
    <3>1. host' \in HostType /\ host'.began = host.began /\ host'.pc = "final"
      BY <1>0, <1>1, <2>1, AtIs DEF ResetsTo
    <3>2. Calm(dev') /\ faults' \in Nat
      BY <1>0, <2>1, ResetIsCalm DEF ResetsTo
    <3>3. QED BY <3>1, <3>2, LateIsQuiet, QuietStep
  <2>2. CASE faults' = faults + 1 /\ host' = [host EXCEPT !.pc = "final", !.ret = -7] /\ UNCHANGED <<dev, bus, want, runs>>
    <3>1. host' \in HostType /\ host'.began = host.began /\ host'.pc = "final"
      <4>1. -7 \in Int
        OBVIOUS
      <4>2. QED BY <1>0, <1>1, <2>2, <4>1 DEF HostType
    <3>2. Calm(dev') /\ faults' \in Nat
      BY <1>0, <2>2
    <3>3. QED BY <3>1, <3>2, LateIsQuiet, QuietStep
  <2>3. QED BY <1>2, <2>1, <2>2 DEF ResetDevice
<1>3. CASE Final
  <2>1. host' \in SetState(host, "appIDLE", "done") \/ host' \in At(host, "done")
    BY <1>3 DEF Final
  <2>2. /\ host' \in HostType /\ host'.began = host.began
        /\ host'.pc = "done" \/ (host'.pc = "set" /\ host'.back = "done")
    BY <1>0, <1>1, <2>1, AtIs, SetStateIs
  <2>3. Calm(dev') /\ faults' \in Nat
    BY <1>0, <1>3 DEF Final
  <2>4. QED BY <2>2, <2>3, LateIsQuiet, QuietStep
<1>4. QED BY <1>2, <1>3

\* A run begins, ends or is killed.
LEMMA FreshIs ==
    ASSUME host \in HostType
    PROVE  Fresh \in HostType /\ Fresh.pc = "idle" /\ Fresh.block = 1 /\ Fresh.began = host.began
<1>1. <<>> \in Seq(Nat)
  BY EmptySeq
<1>2. NewHost \in HostType /\ NewHost.pc = "idle" /\ NewHost.block = 1
  BY <1>1 DEF NewHost, HostType, Places, AnyState
<1>3. host.began \in AnyState
  BY DEF HostType
<1>4. QED BY <1>2, <1>3 DEF Fresh, HostType

\* All three leave the device alone.
LEMMA RunSteps ==
    ASSUME Inv, Start \/ Leaves \/ Killed
    PROVE  Goal
<1>0. dev \in DevType /\ faults \in Nat /\ host \in HostType /\ Calm(dev)
  BY DEF Inv, TypeOK, Calm, Stays
<1>1. Fresh \in HostType /\ Fresh.pc = "idle" /\ Fresh.block = 1 /\ Fresh.began = host.began
  BY <1>0, FreshIs
<1>2. dev.state \in AnyState /\ Firmwares \subseteq Seq(Nat) /\ "check" \in Places /\ "done" \in Places /\ -1 \in Int /\ Signal \in Int
  BY <1>0 DEF DevType, AnyState, Places, Signal, Firmwares
<1>3. CASE Start
  <2>1. \/ host' = [Fresh EXCEPT !.pc = "check", !.met = dev.state, !.flash = Firmwares, !.faults = faults]
        \/ host' = [Fresh EXCEPT !.pc = "done", !.ret = -1, !.flash = Firmwares]
    BY <1>3, Zenon DEF Start
  <2>2. Quiet(host')
    <3>1. host' \in HostType /\ host'.began = host.began /\ host'.pc \in {"check", "done"} /\ host'.block = 1
      BY ZenonT(40), <1>0, <1>1, <1>2, <2>1 DEF HostType
    <3>2. QED BY <3>1 DEF Quiet, Setting
  <2>3. UNCHANGED <<dev, faults>>
    BY <1>3 DEF Start
  <2>4. QED BY <1>0, <2>2, <2>3, QuietStep
<1>4. CASE Leaves
  BY <1>0, <1>1, <1>4, LateIsQuiet, QuietStep DEF Leaves
<1>5. CASE Killed
  <2>1. host' \in HostType /\ host'.began = host.began /\ host'.pc = "idle"
    BY <1>1, <1>2, <1>5, RetIs DEF Killed
  <2>2. QED BY <1>0, <1>5, <2>1, LateIsQuiet, QuietStep DEF Killed
<1>6. QED BY <1>3, <1>4, <1>5

-----------------------------------------------------------------------------
\* The blocks.
LEMMA Prefixes ==
    /\ Prefix(1) = <<1>> /\ Prefix(Blocks) = Whole
    /\ \A k \in Nat : k > 1 => Append(Prefix(k - 1), k) = Prefix(k)
<1>1. Prefix(1) = <<1>>
  <2>1. Prefix(1) \in Seq(Nat) /\ Len(Prefix(1)) = 1 /\ \A i \in 1..1 : Prefix(1)[i] = i
    BY DEF Prefix
  <2>2. <<1>> \in Seq(Nat) /\ Len(<<1>>) = 1 /\ \A i \in 1..1 : <<1>>[i] = i
    OBVIOUS
  <2>3. QED BY <2>1, <2>2, SeqEqual
<1>2. ASSUME NEW k \in Nat, k > 1 PROVE Append(Prefix(k - 1), k) = Prefix(k)
  <2>1. Prefix(k - 1) \in Seq(Nat) /\ Len(Prefix(k - 1)) = k - 1 /\ \A i \in 1 .. k - 1 : Prefix(k - 1)[i] = i
    BY <1>2 DEF Prefix
  <2>2. Prefix(k) \in Seq(Nat) /\ Len(Prefix(k)) = k /\ \A i \in 1..k : Prefix(k)[i] = i
    BY DEF Prefix
  <2>3. /\ Append(Prefix(k - 1), k) \in Seq(Nat) /\ Len(Append(Prefix(k - 1), k)) = k
        /\ \A i \in 1..k : Append(Prefix(k - 1), k)[i] = i
    BY <1>2, <2>1, AppendProperties
  <2>4. QED BY <2>2, <2>3, SeqEqual
<1>3. QED BY <1>1, <1>2 DEF Prefix, Whole

\* A block is sent: it continues the image, or begins one in dfuIDLE, or the download ends.
LEMMA SendStep ==
    ASSUME Inv, SendBlock
    PROVE  Goal
<1> DEFINE b == host.block
           h == IF b = 1 THEN [host EXCEPT !.began = dev.state] ELSE host
<1>0. /\ dev \in DevType /\ faults \in Nat /\ host \in HostType /\ host.pc = "send" /\ b \in 1..Blocks /\ b \in Nat /\ b > 0
      /\ dev.present /\ b > 1 => dev.state = "dfuDNLOAD_IDLE"
  <2>1. dev \in DevType /\ faults \in Nat /\ host \in HostType /\ host.pc = "send"
    BY DEF Inv, TypeOK, SendBlock
  <2>2. b \in 1..Blocks /\ (dev.present /\ b > 1 => dev.state = "dfuDNLOAD_IDLE")
    BY <2>1 DEF Inv, InStep
  <2>3. QED BY <2>1, <2>2, DfuBounds
<1>1. PICK o \in Send([cmd |-> "DNLOAD", block |-> b]) : dev' = o.dev /\ faults' = faults + o.cost /\ host' \in
          IF o.res <= 0 THEN Done(h, -5) ELSE At(h, "poll")
  BY DEF SendBlock, Transfers
<1>2. h \in HostType /\ h.block = b /\ h.began = IF b = 1 THEN dev.state ELSE host.began
  BY <1>0 DEF HostType, DevType, AnyState
<1> HIDE DEF h
<1>3. /\ o.cost \in {0, 1}
      /\ \/ ~dev.present /\ o.dev = dev /\ o.res = -1
         \/ dev.present /\ o.dev = dev /\ o.res = 0
         \/ dev.present /\ \E t \in Takes(dev, [cmd |-> "DNLOAD", block |-> b]) : o.dev = t.dev /\ o.res \in {0, t.res}
  BY Outcomes
<1> HIDE DEF b
<1>4. /\ Stays(o.dev) /\ faults' \in Nat /\ o.res \in {-1, 0, 1}
      /\ o.dev = dev \/ o.dev.state \in {"dfuDNLOAD_SYNC", "dfuERROR"}
      /\ o.res = 1 => /\ dev.present /\ o.dev.state = "dfuDNLOAD_SYNC"
                      /\ \/ dev.state = "dfuIDLE" /\ o.dev.image = <<b>>
                         \/ dev.state = "dfuDNLOAD_IDLE" /\ o.dev.image = Append(dev.image, b)
  <2>1. Stays(dev)
    BY <1>0 DEF Stays
  <2>2. faults' \in Nat
    BY <1>0, <1>1, <1>3
  <2>3. ASSUME NEW t \in Takes(dev, [cmd |-> "DNLOAD", block |-> b])
        PROVE  /\ Stays(t.dev)
               /\ \/ /\ t.res = 1 /\ t.dev.state = "dfuDNLOAD_SYNC"
                     /\ \/ dev.state = "dfuIDLE" /\ t.dev.image = <<b>>
                        \/ dev.state = "dfuDNLOAD_IDLE" /\ t.dev.image = Append(dev.image, b)
                  \/ t.res = 0 /\ t.dev.state = "dfuERROR" /\ t.dev.image = dev.image
    BY <1>0, <2>3, TakesBlock
  <2>4. QED BY <1>3, <2>1, <2>2, <2>3
<1>5. CASE o.res <= 0
  <2>1. host' \in HostType /\ host'.pc = "done" /\ host'.began = h.began
    <3>1. -5 \in Int
      OBVIOUS
    <3>2. QED BY <1>1, <1>2, <1>5, <3>1, DoneIs
  <2>2. TypeOK'
    BY <1>1, <1>4, <2>1 DEF TypeOK, Stays
  <2>3. InStep'
    BY <2>1 DEF InStep, Setting
  <2>4. Received'
    BY <1>1, <1>2, <1>4, <2>1 DEF Received, Inv, Manifesting
  <2>5. QED BY <1>1, <1>4, <2>2, <2>3, <2>4 DEF Goal, Inv, Stays
<1>6. CASE o.res = 1
  <2>1. host' \in HostType /\ host'.pc = "poll" /\ host'.began = h.began /\ host'.block = b
    <3>1. "poll" \in Places
      BY DEF Places
    <3>2. QED BY <1>1, <1>2, <1>6, <3>1, AtIs
  <2>2. TypeOK'
    BY <1>1, <1>4, <2>1 DEF TypeOK, Stays
  <2>3. InStep'
    BY <1>0, <1>1, <1>4, <1>6, <2>1 DEF InStep, Setting
  <2>4. host'.began = "dfuIDLE" => dev'.image = Prefix(b)
    <3>1. CASE b = 1
      BY <1>1, <1>2, <1>4, <1>6, <2>1, <3>1, Prefixes
    <3>2. CASE b > 1
      <4>1. dev.state = "dfuDNLOAD_IDLE" /\ dev'.image = Append(dev.image, b)
        BY <1>0, <1>1, <1>4, <1>6, <3>2
      <4>2. host'.began = "dfuIDLE" => dev.image = Prefix(b - 1)
        BY <1>0, <1>2, <1>4, <1>6, <2>1, <3>2 DEF Inv, Received, b
      <4>3. QED BY <1>0, <3>2, <4>1, <4>2, Prefixes
    <3>3. QED BY <1>0, <3>1, <3>2
  <2>5. Received'
    BY <1>1, <1>4, <1>6, <2>1, <2>4 DEF Received, Manifesting
  <2>6. QED BY <1>1, <1>4, <2>2, <2>3, <2>5 DEF Goal, Inv, Stays
<1>7. QED BY <1>4, <1>5, <1>6

\* poll_state: the next block comes only when the device has taken the last.
LEMMA PollStep ==
    ASSUME Inv, PollState
    PROVE  Goal
<1>0. /\ dev \in DevType /\ faults \in Nat /\ host \in HostType /\ host.pc = "poll" /\ host.block \in 1..Blocks /\ Blocks \in Nat
      /\ dev.present => dev.state \in {"dfuDNLOAD_SYNC", "dfuDNBUSY", "dfuDNLOAD_IDLE", "dfuERROR"}
  BY DfuBounds DEF Inv, TypeOK, InStep, PollState
<1>1. PICK o \in Send(Status) : dev' = o.dev /\ faults' = faults + o.cost /\ host' \in
          IF o.res <= 0 \/ o.dev.state = "dfuERROR" THEN Done(host, -5)
          ELSE IF o.dev.state # "dfuDNLOAD_IDLE" THEN {host}
          ELSE {[host EXCEPT !.block = @ + 1, !.pc = IF host.block < Blocks THEN "send" ELSE "zero"]}
  BY DEF PollState, Transfers
<1>2. Calm(o.dev) /\ o.cost \in {0, 1} /\ o.res \in {-1, 0, 1}
  BY <1>0, CalmStatus
<1>3. o.res = 1 /\ o.dev.state # "dfuERROR" =>
          /\ dev.present /\ dev.state # "dfuERROR" /\ o.dev.image = dev.image
          /\ o.dev.state \in {"dfuDNLOAD_SYNC", "dfuDNBUSY", "dfuDNLOAD_IDLE"}
  <2>1. ASSUME NEW t \in Takes(dev, Status), dev.present, t.dev.state # "dfuERROR"
        PROVE  dev.state # "dfuERROR" /\ t.dev.image = dev.image /\ t.dev.state \in {"dfuDNLOAD_SYNC", "dfuDNBUSY", "dfuDNLOAD_IDLE"}
    BY <1>0, <2>1, TakesStatus
  <2>2. QED BY <2>1, Outcomes
<1>4. CASE o.res <= 0 \/ o.dev.state = "dfuERROR"
  <2>1. host' \in HostType /\ host'.pc = "done" /\ host'.began = host.began
    <3>1. -5 \in Int
      OBVIOUS
    <3>2. QED BY <1>0, <1>1, <1>4, <3>1, DoneIs
  <2>2. QED BY <1>0, <1>1, <1>2, <2>1, LateIsQuiet, QuietStep
<1>5. CASE o.res = 1 /\ o.dev.state \notin {"dfuERROR", "dfuDNLOAD_IDLE"}
  <2>1. host' = host
    BY <1>1, <1>5
  <2>2. TypeOK'
    BY <1>0, <1>1, <1>2, <2>1 DEF TypeOK, Calm, Stays
  <2>3. InStep'
    BY <1>0, <1>1, <1>3, <1>5, <2>1 DEF InStep, Setting
  <2>4. Received'
    BY <1>0, <1>1, <1>3, <1>5, <2>1 DEF Received, Inv, Manifesting
  <2>5. QED BY <1>1, <1>2, <2>2, <2>3, <2>4 DEF Goal, Inv, Calm, Stays
<1>6. CASE o.res = 1 /\ o.dev.state = "dfuDNLOAD_IDLE"
  <2>1. host' = [host EXCEPT !.block = @ + 1, !.pc = IF host.block < Blocks THEN "send" ELSE "zero"]
    BY <1>1, <1>6
  <2>2. /\ host' \in HostType /\ host'.began = host.began /\ host'.block = host.block + 1
        /\ host'.pc = IF host.block < Blocks THEN "send" ELSE "zero"
    <3> DEFINE p == IF host.block < Blocks THEN "send" ELSE "zero"
    <3>1. p \in Places /\ host.block + 1 \in Nat
      BY <1>0 DEF Places
    <3>2. host' = [host EXCEPT !.block = host.block + 1, !.pc = p]
      BY <1>0, <2>1 DEF HostType
    <3> HIDE DEF p
    <3>3. host' \in HostType /\ host'.began = host.began /\ host'.block = host.block + 1 /\ host'.pc = p
      BY <1>0, <3>1, <3>2 DEF HostType
    <3>4. QED BY <3>3 DEF p
  <2>3. TypeOK'
    BY <1>0, <1>1, <1>2, <2>2 DEF TypeOK, Calm, Stays
  <2>4. InStep'
    BY <1>0, <1>1, <1>6, <2>2 DEF InStep, Setting
  <2>5. host.began = "dfuIDLE" => dev'.image = Prefix(host.block)
    BY <1>0, <1>1, <1>3, <1>6 DEF Received, Inv
  <2>6. host.block = Blocks \/ host.block < Blocks
    BY <1>0
  <2>7. host.block + 1 - 1 = host.block
    BY <1>0
  <2>8. Received'
    <3>1. dev'.state = "dfuDNLOAD_IDLE"
      BY <1>1, <1>6
    <3>2. CASE host.block < Blocks
      <4>1. host'.pc = "send" /\ host'.block - 1 = host.block /\ host'.began = host.began
        BY <1>0, <2>2, <2>7, <3>2
      <4>2. QED BY <2>5, <3>1, <4>1 DEF Received, Manifesting
    <3>3. CASE ~(host.block < Blocks)
      <4>1. host'.pc = "zero" /\ host.block = Blocks /\ host'.began = host.began
        BY <2>2, <2>6, <3>3
      <4>2. host.began = "dfuIDLE" => dev'.image = Whole
        BY <2>5, <4>1, Prefixes
      <4>3. QED BY <3>1, <4>1, <4>2 DEF Received, Manifesting
    <3>4. QED BY <3>2, <3>3
  <2>9. QED BY <1>1, <1>2, <2>3, <2>4, <2>8 DEF Goal, Inv, Calm, Stays
<1>7. QED BY <1>2, <1>4, <1>5, <1>6

\* The empty block is sent after the last one only.
LEMMA ZeroStep ==
    ASSUME Inv, SendZero
    PROVE  Goal
<1>0. /\ dev \in DevType /\ faults \in Nat /\ host \in HostType /\ host.pc = "zero"
      /\ dev.present => dev.state = "dfuDNLOAD_IDLE"
      /\ dev.present /\ host.began = "dfuIDLE" => dev.image = Whole
  BY DEF Inv, TypeOK, InStep, Received, SendZero
<1>1. PICK o \in Send([cmd |-> "DNLOAD", block |-> 0]) : dev' = o.dev /\ faults' = faults + o.cost /\ host' \in
          IF o.res < 0 THEN Done(host, -6) ELSE {[host EXCEPT !.pc = "manifest", !.ret = 5]}
  BY DEF SendZero, Transfers
<1>2. /\ o.cost \in {0, 1} /\ Stays(o.dev) /\ o.dev.image = dev.image
  <2>1. Stays(dev)
    BY <1>0 DEF Stays
  <2>2. QED BY <1>0, <2>1, TakesZero, Outcomes
<1>3. host' \in HostType /\ host'.pc \in {"done", "manifest"} /\ host'.began = host.began
  <2>1. -6 \in Int /\ 5 \in Int /\ "manifest" \in Places
    BY DEF Places
  <2>2. CASE o.res < 0
    BY <1>0, <1>1, <2>1, <2>2, DoneIs
  <2>3. CASE ~(o.res < 0)
    <3>1. host' = [host EXCEPT !.pc = "manifest", !.ret = 5]
      BY <1>1, <2>3
    <3>2. host' \in HostType
      BY <1>0, <2>1, <3>1 DEF HostType
    <3>3. host'.pc = "manifest" /\ host'.began = host.began
      BY <1>0, <3>1 DEF HostType
    <3>4. QED BY <3>2, <3>3
  <2>4. QED BY <2>2, <2>3
<1>4. TypeOK'
  BY <1>0, <1>1, <1>2, <1>3 DEF TypeOK, Stays
<1>5. InStep'
  BY <1>3 DEF InStep, Setting
<1>6. Received'
  <2>1. CASE dev.present
    BY <1>0, <1>1, <1>2, <1>3, <2>1 DEF Received
  <2>2. CASE ~dev.present
    <3>1. o.dev = dev
      BY <2>2, Outcomes
    <3>2. QED BY <1>1, <1>3, <3>1 DEF Received, Inv
  <2>3. QED BY <2>1, <2>2
<1>7. QED BY <1>1, <1>2, <1>4, <1>5, <1>6 DEF Goal, Inv, Stays

-----------------------------------------------------------------------------
\* The device by itself.
LEMMA DeviceSteps ==
    ASSUME Inv, GetsReady \/ Manifests \/ DeviceFails \/ Replug
    PROVE  Goal
<1>0. dev \in DevType /\ faults \in Nat /\ host \in HostType /\ <<>> \in Seq(Nat)
  BY EmptySeq DEF Inv, TypeOK
<1>1. CASE GetsReady
  <2>1. UNCHANGED <<host, faults>> /\ dev.state = "dfuDNBUSY" /\ dev.present /\ dev' = [dev EXCEPT !.state = "dfuDNLOAD_SYNC", !.done = TRUE]
    BY <1>1 DEF GetsReady
  <2>2. dev' \in DevType /\ dev'.state = "dfuDNLOAD_SYNC" /\ dev'.image = dev.image /\ dev'.flash = dev.flash /\ dev'.present = dev.present
    BY <1>0, <2>1 DEF DevType, DevStates
  <2>3. TypeOK'
    BY <1>0, <2>1, <2>2 DEF TypeOK
  <2>4. InStep'
    BY <2>1, <2>2 DEF InStep, Inv
  <2>5. Received'
    BY <2>1, <2>2 DEF Received, InStep, Inv, Manifesting
  <2>6. QED BY <2>2, <2>3, <2>4, <2>5 DEF Goal, Inv
<1>2. CASE Manifests
  <2> DEFINE s == CASE dev.kind.ends = "tolerant" -> "dfuMANIFEST_SYNC"
                    [] dev.kind.ends = "waits" -> "dfuMANIFEST_WAIT_RESET"
                    [] dev.kind.ends = "drops" -> "appIDLE"
             there == dev.kind.ends # "drops"
  <2>1. /\ UNCHANGED <<host, faults>> /\ dev.state = "dfuMANIFEST" /\ dev.present
        /\ dev' = [dev EXCEPT !.flash = dev.image, !.done = TRUE, !.present = there, !.state = s]
    BY <1>2 DEF Manifests
  <2>2. dev.kind.ends \in {"tolerant", "waits", "drops"}
    BY <1>0, DfuKinds DEF DevType
  <2>3. s \in DevStates
    BY <2>2 DEF DevStates
  <2>4. there \in BOOLEAN
    OBVIOUS
  <2> HIDE DEF s, there
  <2>5. dev' \in DevType /\ dev'.image = dev.image /\ dev'.flash = dev.image
    BY <1>0, <2>1, <2>3, <2>4 DEF DevType
  <2>6. host.pc \notin {"poll", "zero"} /\ ~(host.pc = "send" /\ host.block > 1)
    BY <2>1 DEF Inv, InStep
  <2>7. host.began = "dfuIDLE" => dev.image = Whole
    BY <2>1 DEF Inv, Received, Manifesting
  <2>8. TypeOK'
    BY <1>0, <2>1, <2>5 DEF TypeOK
  <2>9. InStep'
    BY <2>1, <2>6 DEF InStep, Inv
  <2>10. Received'
    BY <2>1, <2>5, <2>6, <2>7 DEF Received
  <2>11. QED BY <2>5, <2>7, <2>8, <2>9, <2>10 DEF Goal, Inv
<1>3. CASE DeviceFails
  <2>1. UNCHANGED host /\ faults' \in Nat
    BY <1>0, <1>3 DEF DeviceFails
  <2>2. CASE Busy(dev) /\ dev' = [dev EXCEPT !.state = "dfuERROR"]
    <3>1. dev' \in DevType /\ dev'.state = "dfuERROR" /\ dev'.image = dev.image /\ dev'.flash = dev.flash /\ dev'.present = dev.present
      BY <1>0, <2>2, NewState DEF DevStates
    <3>2. dev.present /\ dev.state \in {"dfuDNBUSY", "dfuMANIFEST"}
      BY <1>3, <2>2 DEF DeviceFails, Busy
    <3>3. TypeOK'
      BY <1>0, <2>1, <3>1 DEF TypeOK
    <3>4. InStep'
      BY <2>1, <3>1, <3>2 DEF InStep, Inv
    <3>5. Received'
      BY <2>1, <3>1, <3>2 DEF Received, InStep, Inv, Manifesting
    <3>6. QED BY <3>1, <3>3, <3>4, <3>5 DEF Goal, Inv
  <2>3. CASE dev' = [dev EXCEPT !.present = FALSE, !.state = "dfuIDLE", !.image = <<>>]
    <3>1. dev' \in DevType /\ dev'.state = "dfuIDLE" /\ dev'.flash = dev.flash /\ ~dev'.present
      BY <1>0, <2>3 DEF DevType, DevStates
    <3>2. TypeOK'
      BY <1>0, <2>1, <3>1 DEF TypeOK
    <3>3. InStep'
      BY <2>1, <3>1 DEF InStep, Inv
    <3>4. Received'
      BY <2>1, <3>1 DEF Received, Manifesting
    <3>5. QED BY <3>1, <3>2, <3>3, <3>4 DEF Goal, Inv
  <2>4. QED BY <1>3, <2>2, <2>3 DEF DeviceFails
<1>4. CASE Replug
  <2>1. /\ UNCHANGED <<host, faults>> /\ host.pc = "idle"
        /\ dev' = [dev EXCEPT !.present = TRUE, !.state = "dfuIDLE", !.image = <<>>]
    BY <1>4 DEF Replug
  <2>2. dev' \in DevType /\ dev'.state = "dfuIDLE" /\ dev'.flash = dev.flash
    BY <1>0, <2>1 DEF DevType, DevStates
  <2>3. TypeOK'
    BY <1>0, <2>1, <2>2 DEF TypeOK
  <2>4. InStep'
    BY <2>1 DEF InStep, Setting
  <2>5. Received'
    BY <2>1, <2>2 DEF Received, Manifesting
  <2>6. QED BY <2>2, <2>3, <2>4, <2>5 DEF Goal, Inv
<1>5. QED BY <1>1, <1>2, <1>3, <1>4

\* Nothing happens.
LEMMA Stutter ==
    ASSUME Inv, UNCHANGED vars
    PROVE  Goal
<1>1. UNCHANGED <<dev, host, faults>>
  BY DEF vars
<1>2. QED BY <1>1 DEF Goal, Inv, TypeOK, InStep, Received

\* Inv is inductive, and every step meets the goal.
LEMMA EveryStep == Inv /\ [Next]_vars => Goal
BY SetSteps, CheckStep, AwaitStep, LateSteps, RunSteps, SendStep, PollStep, ZeroStep, DeviceSteps, Stutter DEF Next, HostSteps

\* Inv holds at the start.
LEMMA Begins == Init => Inv
<1>1. SUFFICES ASSUME Init PROVE Inv
  OBVIOUS
<1>2. PICK k \in Kinds, s \in {"appIDLE", "dfuIDLE"} :
          dev = [kind |-> k, state |-> s, image |-> <<>>, flash |-> <<>>, done |-> FALSE, present |-> TRUE]
  BY <1>1 DEF Init
<1>3. <<>> \in Seq(Nat)
  BY EmptySeq
<1>4. dev \in DevType /\ dev.state \in {"appIDLE", "dfuIDLE"}
  BY <1>2, <1>3 DEF DevType, DevStates
<1>5. host \in HostType /\ host.pc = "idle"
  BY <1>1, <1>3 DEF Init, NewHost, HostType, Places, AnyState
<1>6. TypeOK
  BY <1>1, <1>4, <1>5 DEF TypeOK, Init
<1>7. InStep /\ Received
  BY <1>4, <1>5 DEF InStep, Received, Setting, Manifesting
<1>8. QED BY <1>6, <1>7 DEF Inv

\* An image becomes the firmware only when it is whole, for images of any length, any number
\* of lost transfers, failures, unpluggings and killed runs (download gives up in poll_state,
\* and after any block that the device did not take).
THEOREM OnlyWholeImages == Spec => ManifestsWhole
<1>1. Inv /\ [Next]_vars => Inv'
  BY EveryStep DEF Goal
<1>2. Inv /\ [Next]_vars => [dev'.flash # dev.flash /\ host.began = "dfuIDLE" => dev'.flash = Whole]_vars
  BY EveryStep DEF Goal
<1>3. QED BY <1>1, <1>2, Begins, PTL DEF Spec, ManifestsWhole

-----------------------------------------------------------------------------
\* The constructor opens the target only when the file or, failing that, the command line
\* names it.
LEMMA OpensNamed ==
    ASSUME NEW devs, NEW w, Opens(devs, w), NEW f \in Found(devs, w), f.id = 1, \A d \in devs : d.id # 0
    PROVE  w.file = 1 \/ (w.arg = 1 /\ ~OnBus(devs, w.file))
<1>1. ASSUME NEW id, NEW g \in SearchWithVIDPID(devs, id, w.alt) PROVE g.id = id
  <2>1. PICK d \in devs : d.id = id /\ g \in SearchIfDFU(d, w.alt)
    BY <1>1 DEF SearchWithVIDPID
  <2>2. \E a : g = [id |-> d.id, alt |-> a]
    BY <2>1, Zenon DEF SearchIfDFU
  <2>3. QED BY <2>1, <2>2
<1>2. w.file # 0 \/ w.arg # 0
  BY DEF Opens
<1>3. CASE w.file # 0 /\ OnBus(devs, w.file)
  <2>1. f \in SearchWithVIDPID(devs, w.file, w.alt)
    BY <1>3, Zenon DEF Found
  <2>2. QED BY <1>1, <2>1
<1>4. CASE ~(w.file # 0 /\ OnBus(devs, w.file))
  <2>1. w.arg # 0 /\ f \in SearchWithVIDPID(devs, w.arg, w.alt)
    BY <1>2, <1>4, Zenon DEF Found
  <2>2. ~OnBus(devs, w.file)
    BY <1>4 DEF OnBus
  <2>3. QED BY <1>1, <2>1, <2>2
<1>5. QED BY <1>3, <1>4

\* Every step of a run leaves the choice of the device alone.
LEMMA HostStepsKeep ==
    ASSUME HostSteps
    PROVE  host.pc \notin {"idle", "done"} /\ UNCHANGED <<bus, want>>
<1>1. CASE SetEnter \/ SetLeave \/ SetDetach \/ SetDetached
  BY <1>1 DEF SetEnter, SetLeave, SetDetach, SetDetached, InLoop, Transfers
<1>2. CASE SetReset \/ SetAbort \/ SetChecked
  BY <1>2 DEF SetReset, SetAbort, SetChecked, InLoop, ResetsTo, Transfers
<1>3. CASE SetClear
  BY <1>3 DEF SetClear, InLoop, ResetsTo, Transfers
<1>4. CASE Check \/ PollState
  BY <1>4 DEF Check, PollState, Transfers
<1>5. CASE SendBlock \/ SendZero
  BY <1>5 DEF SendBlock, SendZero, Transfers
<1>6. CASE AwaitManifest
  BY <1>6 DEF AwaitManifest, Transfers
<1>7. CASE ResetDevice \/ Final
  BY <1>7 DEF ResetDevice, Final, ResetsTo
<1>8. QED BY <1>1, <1>2, <1>3, <1>4, <1>5, <1>6, <1>7 DEF HostSteps

\* Whatever else is on the bus, a run works on the device that the file names or, when that
\* is absent, the one that the command line names (constructor of class DFU).
THEOREM OnlyTheNamedDevice == Spec => []NamedDeviceOnly
<1>1. Init => NamedDeviceOnly
  BY DEF Init, NewHost, NamedDeviceOnly
<1>2. NamedDeviceOnly /\ [Next]_vars => NamedDeviceOnly'
  <2>1. SUFFICES ASSUME NamedDeviceOnly, [Next]_vars PROVE NamedDeviceOnly'
    OBVIOUS
  <2>2. CASE HostSteps
    BY <2>1, <2>2, HostStepsKeep DEF NamedDeviceOnly, OnBus
  <2>3. CASE GetsReady \/ Manifests \/ DeviceFails \/ Replug \/ UNCHANGED vars
    <3>1. UNCHANGED <<host, bus, want>>
      BY <2>3 DEF GetsReady, Manifests, DeviceFails, Replug, vars
    <3>2. QED BY <2>1, <3>1 DEF NamedDeviceOnly, OnBus
  <2>4. CASE Leaves \/ Killed
    <3>1. host'.pc = "idle"
      BY <2>4 DEF Leaves, Killed, Fresh, NewHost
    <3>2. QED BY <3>1 DEF NamedDeviceOnly
  <2>5. CASE Start
    <3>1. PICK w \in Wanted, others \in Buses :
              LET devs == others \cup (IF dev.present THEN {[id |-> 1, alts |-> dev.kind.alts]} ELSE {})
                  Target == Opens(devs, w) /\ \E f \in Found(devs, w) : f.id = 1
              IN  /\ want' = w /\ bus' = devs
                  /\ host' = IF Target THEN [Fresh EXCEPT !.pc = "check", !.met = dev.state, !.flash = Firmwares, !.faults = faults]
                             ELSE [Fresh EXCEPT !.pc = "done", !.ret = -1, !.flash = Firmwares]
      BY <2>5, Zenon DEF Start
    <3> DEFINE devs == others \cup (IF dev.present THEN {[id |-> 1, alts |-> dev.kind.alts]} ELSE {})
    <3>2. \A d \in devs : d.id # 0
      BY DfuIdentities
    <3>3. want' = w /\ bus' = devs
      BY <3>1, Zenon
    <3>4. CASE Opens(devs, w) /\ \E f \in Found(devs, w) : f.id = 1
      <4> HIDE DEF devs
      <4>1. w.file = 1 \/ (w.arg = 1 /\ ~OnBus(devs, w.file))
        BY <3>2, <3>4, OpensNamed
      <4>2. want'.file = 1 \/ (want'.arg = 1 /\ ~OnBus(bus', want'.file))
        BY <3>3, <4>1
      <4>3. QED BY <4>2 DEF NamedDeviceOnly, OnBus
    <3>5. CASE ~(Opens(devs, w) /\ \E f \in Found(devs, w) : f.id = 1)
      <4>1. host' = [Fresh EXCEPT !.pc = "done", !.ret = -1, !.flash = Firmwares]
        BY <3>1, <3>5, Zenon
      <4>2. host'.pc = "done"
        BY <4>1 DEF Fresh, NewHost
      <4>3. QED BY <4>2 DEF NamedDeviceOnly
    <3>6. QED BY <3>4, <3>5
  <2>6. QED BY <2>1, <2>2, <2>3, <2>4, <2>5 DEF Next
<1>3. QED BY <1>1, <1>2, PTL DEF Spec

-----------------------------------------------------------------------------
(* What a run reports.                                                      *)

\* Places of the host, and the types the following proofs need.
LEMMA ToldTypes ==
    ASSUME Inv
    PROVE  /\ dev \in DevType /\ host \in HostType /\ faults \in Nat /\ host.faults \in Nat
           /\ host.ret \in Int /\ host.block \in Nat /\ host.back \in {"send", "done"}
BY DEF Inv, TypeOK, HostType

\* A step of the host h2 with a calm device: it goes on with what it was at, and what it
\* reports then is no more than it was, or is lost.
Moves(h2) ==
    /\ h2.flash = host.flash /\ h2.faults = host.faults /\ h2.pc # "idle"
    /\ h2.pc \in {"check", "send", "poll", "zero"} \/ (h2.pc \in Setting /\ h2.back = "send") =>
           Sending /\ h2.ret = 0
    /\ h2.pc \in {"manifest", "reset", "final"} \/ (h2.pc \in Setting /\ h2.back = "done") =>
           h2.ret \in {5, -7, OtherError}
    /\ h2.pc = "done" /\ h2.ret \in -5 .. -1 => Sending
    /\ h2.pc \in {"poll", "zero"} \/ (h2.pc = "send" /\ h2.block > 1) => dev.present
    /\ h2.ret = 5 => host.ret = 5 /\ h2.began = host.began

\* Told is kept by such a step when the image does not get lost on its way.
LEMMA MovesKeeps ==
    ASSUME Inv, Told, Calm(dev'), Moves(host'), faults' \in Nat, faults' >= faults,
           Flawless' /\ host.began = "dfuIDLE" /\ ~dev.kind.strict /\ host.pc = "manifest"
             /\ host'.ret = 5 /\ OnItsWay /\ dev.flash # Whole =>
               host'.pc = "manifest" /\ OnItsWay'
    PROVE  Told'
<1>1. /\ dev \in DevType /\ host.faults \in Nat /\ faults \in Nat
      /\ dev'.flash = dev.flash /\ dev'.present = dev.present /\ dev'.kind = dev.kind
      /\ dev'.state \in Manifesting => dev.state \in Manifesting /\ dev'.image = dev.image
  BY ToldTypes DEF Calm, Stays
<1>2. Results'
  BY DEF Results, Moves, Sending, Ending
<1>3. Untouched'
  <2>1. Firmwares' \subseteq Firmwares
    BY <1>1 DEF Firmwares, Manifesting
  <2>2. Sending' \/ (host'.pc = "done" /\ host'.ret \in -5 .. -1) => Sending
    BY DEF Moves, Sending
  <2>3. QED BY <2>1, <2>2 DEF Untouched, Told, Moves
<1>4. faults >= host.faults /\ host'.faults = host.faults
  BY DEF Told, Lands, Moves
<1>5. faults' >= host'.faults /\ (Flawless' => Flawless)
  BY <1>1, <1>4 DEF Flawless
<1>6. ASSUME Flawless', host'.began = "dfuIDLE", ~dev'.kind.strict, host'.ret = 5
      PROVE  dev'.flash = Whole \/ (host'.pc = "manifest" /\ OnItsWay')
  <2>1. Flawless /\ host.began = "dfuIDLE" /\ ~dev.kind.strict /\ host.ret = 5
    <3>1. host.ret = 5 /\ host'.began = host.began
      BY <1>6 DEF Moves
    <3>2. ~dev.kind.strict
      BY <1>1, <1>6, Zenon
    <3>3. QED BY <3>1, <3>2, <1>5, <1>6
  <2>2. dev.flash = Whole \/ (host.pc = "manifest" /\ OnItsWay)
    BY <2>1 DEF Told, Lands
  <2>3. QED BY <1>1, <1>6, <2>1, <2>2
<1>7. Flawless' /\ (host'.pc \in {"poll", "zero"} \/ (host'.pc = "send" /\ host'.block > 1)) => dev'.present
  BY <1>1 DEF Moves
<1>8. Lands'
  BY <1>5, <1>6, <1>7, Zenon DEF Lands
<1>9. QED BY <1>2, <1>3, <1>8 DEF Told

\* Away from the loop over the manifestation nothing can get lost.
LEMMA PlainMove ==
    ASSUME Inv, Told, Calm(dev'), Moves(host'), faults' \in Nat, faults' >= faults,
           host.pc # "manifest"
    PROVE  Told'
BY MovesKeeps

\* set_state goes on, or back.
LEMMA SettingMoves ==
    ASSUME Inv, Told, host.pc \in Setting, NEW h2 \in HostType,
           h2.pc \in Setting \cup {host.back},
           h2.back = host.back, h2.ret = host.ret, h2.flash = host.flash, h2.faults = host.faults,
           h2.began = host.began, h2.block = host.block
    PROVE  Moves(h2)
<1>1. host.back \in {"send", "done"} /\ (host.back = "send" => host.block = 1)
  BY ToldTypes DEF Inv, InStep
<1>2. host.back = "send" => Sending /\ host.ret = 0
  BY <1>1 DEF Told, Results, Sending
<1>3. host.back = "done" => host.ret \in {5, -7, OtherError}
  BY DEF Told, Results, Ending
<1>4. h2.pc # "idle" /\ h2.pc \notin {"check", "poll", "zero", "manifest", "reset", "final"}
  BY <1>1 DEF Setting
<1>5. h2.pc = "send" => host.back = "send"
  BY <1>1 DEF Setting
<1>6. h2.pc = "done" => host.back = "done"
  BY <1>1 DEF Setting
<1>7. QED BY <1>1, <1>2, <1>3, <1>4, <1>5, <1>6 DEF Moves, OtherError

\* Its three ways to go on.
LEMMA SettingGoes ==
    ASSUME Inv, Told, host.pc \in Setting,
           \/ host' \in Return(host)
           \/ \E p \in {"detached", "checked"} : host' \in At(host, p)
           \/ \E x \in AnyState : host' = [host EXCEPT !.pc = "loop", !.seen = x]
    PROVE  Moves(host')
<1>1. host \in HostType /\ host.back \in {"send", "done"}
  BY ToldTypes
<1>2. {"loop", "detached", "checked"} \subseteq Setting /\ Setting \cup {host.back} \subseteq Places
  BY <1>1 DEF Setting, Places
<1>3. ASSUME NEW p \in Setting \cup {host.back}, host' = [host EXCEPT !.pc = p]
      PROVE  Moves(host')
  <2>1. /\ host' \in HostType /\ host'.pc = p /\ host'.back = host.back /\ host'.ret = host.ret
        /\ host'.flash = host.flash /\ host'.faults = host.faults
        /\ host'.began = host.began /\ host'.block = host.block
    BY <1>1, <1>2, <1>3 DEF HostType
  <2>2. QED BY <1>3, <2>1, SettingMoves
<1>4. ASSUME NEW x \in AnyState, host' = [host EXCEPT !.pc = "loop", !.seen = x]
      PROVE  Moves(host')
  <2>1. /\ host' \in HostType /\ host'.pc = "loop" /\ host'.back = host.back /\ host'.ret = host.ret
        /\ host'.flash = host.flash /\ host'.faults = host.faults
        /\ host'.began = host.began /\ host'.block = host.block
    BY <1>1, <1>2, <1>4 DEF HostType, Setting, Places
  <2>2. QED BY <1>2, <2>1, SettingMoves
<1>5. QED BY <1>2, <1>3, <1>4 DEF Return, At

\* The steps of set_state tell nothing new.
LEMMA SetTold ==
    ASSUME Inv, Told, SetEnter \/ SetLeave \/ SetDetach \/ SetDetached \/ SetReset \/ SetAbort \/ SetClear \/ SetChecked
    PROVE  Told'
<1>0. dev \in DevType /\ faults \in Nat /\ Calm(dev) /\ faults >= faults
  BY ToldTypes DEF Calm, Stays
<1>1. host.pc \in Setting /\ host.pc # "manifest"
  BY DEF SetEnter, SetLeave, SetDetach, SetDetached, SetReset, SetAbort, SetClear, SetChecked, InLoop, Setting
<1>2. ASSUME NEW req, NEW o \in Send(req), req = Status \/ \E c \in {"ABORT", "CLRSTATUS", "DETACH"} : req = [cmd |-> c],
             dev' = o.dev, faults' = faults + o.cost
      PROVE  Calm(dev') /\ faults' \in Nat /\ faults' >= faults /\ dev'.state \in AnyState
  <2>1. Calm(o.dev) /\ o.cost \in {0, 1}
    BY <1>0, <1>2, CalmStatus, CalmOther
  <2>2. o.dev.state \in AnyState
    BY <2>1 DEF Calm, Stays, DevType, AnyState
  <2>3. QED BY <1>0, <1>2, <2>1, <2>2
<1>3. ASSUME ResetsTo(Return(host)) \/ ResetsTo(At(host, "checked"))
      PROVE  Calm(dev') /\ faults' \in Nat /\ faults' >= faults
  BY <1>0, <1>3, ResetIsCalm DEF ResetsTo
<1>4. CASE SetEnter
  <2>1. PICK o \in Send(Status) : dev' = o.dev /\ faults' = faults + o.cost /\ host' \in
            IF o.res < 0 THEN Return(host)
            ELSE {[host EXCEPT !.pc = "loop", !.seen = x] : x \in IF o.res > 0 THEN {o.dev.state} ELSE AnyState}
    BY <1>4 DEF SetEnter, Transfers
  <2>2. dev' = o.dev /\ faults' = faults + o.cost
    BY <2>1, Zenon
  <2>3. Calm(dev') /\ faults' \in Nat /\ faults' >= faults /\ o.dev.state \in AnyState
    BY <1>2, <2>2
  <2>4. host' \in Return(host) \/ \E x \in AnyState : host' = [host EXCEPT !.pc = "loop", !.seen = x]
    BY <2>1, <2>3
  <2>5. QED BY <1>1, <2>3, <2>4, SettingGoes, PlainMove
<1>5. CASE SetLeave
  BY <1>0, <1>1, <1>5, SettingGoes, PlainMove DEF SetLeave
<1>6. CASE SetDetach \/ SetAbort \/ (SetClear /\ host.goal # "appIDLE")
  <2>1. \E c \in {"ABORT", "CLRSTATUS", "DETACH"} : \E o \in Send([cmd |-> c]) :
            /\ dev' = o.dev /\ faults' = faults + o.cost
            /\ host' \in Return(host) \/ \E p \in {"detached", "checked"} : host' \in At(host, p)
    <3>1. CASE SetDetach
      <4>1. PICK o \in Send([cmd |-> "DETACH"]) : dev' = o.dev /\ faults' = faults + o.cost /\ host' \in
                IF o.res < 0 THEN Return(host) ELSE At(host, "detached")
        BY <3>1 DEF SetDetach, Transfers
      <4>2. QED BY <4>1
    <3>2. CASE SetAbort
      <4>1. PICK o \in Send([cmd |-> "ABORT"]) : dev' = o.dev /\ faults' = faults + o.cost /\ host' \in
                IF o.res < 0 THEN Return(host) ELSE At(host, "checked")
        BY <3>2 DEF SetAbort, Transfers
      <4>2. QED BY <4>1
    <3>3. CASE SetClear /\ host.goal # "appIDLE"
      <4>1. PICK o \in Send([cmd |-> "CLRSTATUS"]) : dev' = o.dev /\ faults' = faults + o.cost /\ host' \in
                IF o.res < 0 THEN Return(host) ELSE At(host, "checked")
        BY <3>3 DEF SetClear, Transfers
      <4>2. QED BY <4>1
    <3>4. QED BY <1>6, <3>1, <3>2, <3>3
  <2>2. PICK c \in {"ABORT", "CLRSTATUS", "DETACH"} : \E o \in Send([cmd |-> c]) :
            /\ dev' = o.dev /\ faults' = faults + o.cost
            /\ host' \in Return(host) \/ \E p \in {"detached", "checked"} : host' \in At(host, p)
    BY <2>1
  <2>3. PICK o \in Send([cmd |-> c]) :
            /\ dev' = o.dev /\ faults' = faults + o.cost
            /\ host' \in Return(host) \/ \E p \in {"detached", "checked"} : host' \in At(host, p)
    BY <2>2
  <2>4. Calm(dev') /\ faults' \in Nat /\ faults' >= faults
    BY <1>2, <2>3
  <2>5. QED BY <1>1, <2>3, <2>4, SettingGoes, PlainMove
<1>7. CASE SetDetached \/ SetChecked
  <2>1. \E o \in Send(Status) :
            /\ dev' = o.dev /\ faults' = faults + o.cost
            /\ host' \in Return(host) \/ host' = [host EXCEPT !.pc = "loop", !.seen = o.dev.state]
    <3>1. CASE SetDetached
      <4>1. PICK o \in Send(Status) : dev' = o.dev /\ faults' = faults + o.cost /\ host' \in
                IF o.res <= 0 \/ o.dev.state # "appDETACH" THEN Return(host)
                ELSE {[host EXCEPT !.pc = "loop", !.seen = o.dev.state]}
        BY <3>1 DEF SetDetached, Transfers
      <4>2. QED BY <4>1
    <3>2. CASE SetChecked
      <4>1. PICK o \in Send(Status) : dev' = o.dev /\ faults' = faults + o.cost /\ host' \in
                IF o.res <= 0 \/ o.dev.state # host.goal THEN Return(host)
                ELSE {[host EXCEPT !.pc = "loop", !.seen = o.dev.state]}
        BY <3>2 DEF SetChecked, Transfers
      <4>2. QED BY <4>1
    <3>3. QED BY <1>7, <3>1, <3>2
  <2>2. PICK o \in Send(Status) :
            /\ dev' = o.dev /\ faults' = faults + o.cost
            /\ host' \in Return(host) \/ host' = [host EXCEPT !.pc = "loop", !.seen = o.dev.state]
    BY <2>1
  <2>3. Calm(dev') /\ faults' \in Nat /\ faults' >= faults /\ o.dev.state \in AnyState
    BY <1>2, <2>2
  <2>4. QED BY <1>1, <2>2, <2>3, SettingGoes, PlainMove
<1>8. CASE SetReset \/ (SetClear /\ host.goal = "appIDLE")
  <2>1. ResetsTo(Return(host)) \/ ResetsTo(At(host, "checked"))
    BY <1>8 DEF SetReset, SetClear
  <2>2. host' \in Return(host) \/ host' \in At(host, "checked")
    BY <2>1 DEF ResetsTo
  <2>3. Calm(dev') /\ faults' \in Nat /\ faults' >= faults
    BY <1>3, <2>1
  <2>4. QED BY <1>1, <2>2, <2>3, SettingGoes, PlainMove
<1>9. QED BY <1>4, <1>5, <1>6, <1>7, <1>8

\* What At, Done and SetState leave alone.
LEMMA HostMoved ==
    ASSUME NEW h \in HostType, NEW g
    PROVE  /\ \A p : g \in At(h, p) => /\ g.pc = p /\ g.ret = h.ret /\ g.flash = h.flash /\ g.faults = h.faults
                                       /\ g.began = h.began /\ g.block = h.block /\ g.back = h.back
           /\ \A r : g \in Done(h, r) => /\ g.pc = "done" /\ g.ret = r /\ g.flash = h.flash /\ g.faults = h.faults
                                         /\ g.began = h.began
           /\ \A a, b : g \in SetState(h, a, b) => /\ g.pc = "set" /\ g.back = b /\ g.ret = h.ret /\ g.flash = h.flash
                                                   /\ g.faults = h.faults /\ g.began = h.began /\ g.block = h.block
BY DEF HostType, At, Done, SetState

\* Before the download begins.
LEMMA CheckTold ==
    ASSUME Inv, Told, Check
    PROVE  Told'
<1>0. /\ dev \in DevType /\ faults \in Nat /\ host \in HostType /\ host.block = 1 /\ host.pc = "check"
      /\ Sending /\ host.ret = 0
  BY ToldTypes DEF Inv, InStep, Check, Told, Results, Sending
<1>1. PICK o \in Send(Status) : dev' = o.dev /\ faults' = faults + o.cost /\ host' \in
          IF o.res < 0 THEN Done(host, -1)
          ELSE UNION {LET h == [host EXCEPT !.st = x]
                      IN  IF x = "dfuIDLE" THEN At(h, "send") ELSE SetState(h, "dfuIDLE", "send") :
                          x \in IF o.res > 0 THEN {o.dev.state} ELSE AnyState}
  BY DEF Check, Transfers
<1>2. dev' = o.dev /\ faults' = faults + o.cost
  BY <1>1, Zenon
<1>3. Calm(o.dev) /\ o.cost \in {0, 1} /\ o.dev.state \in AnyState
  BY <1>0, CalmStatus DEF Calm, Stays, DevType, AnyState
<1>4. Calm(dev') /\ faults' \in Nat /\ faults' >= faults
  BY <1>0, <1>2, <1>3
<1>5. \/ host' \in Done(host, -1)
      \/ \E x \in AnyState : \/ host' \in At([host EXCEPT !.st = x], "send")
                             \/ host' \in SetState([host EXCEPT !.st = x], "dfuIDLE", "send")
  <2>1. CASE o.res < 0
    BY <1>1, <2>1, Zenon
  <2>2. CASE ~(o.res < 0)
    <3>1. PICK x \in (IF o.res > 0 THEN {o.dev.state} ELSE AnyState) :
              host' \in LET h == [host EXCEPT !.st = x]
                        IN  IF x = "dfuIDLE" THEN At(h, "send") ELSE SetState(h, "dfuIDLE", "send")
      BY <1>1, <2>2, Zenon
    <3>2. x \in AnyState
      BY <1>3
    <3>3. QED BY <3>1, <3>2, Zenon
  <2>3. QED BY <2>1, <2>2
<1>6. Moves(host')
  <2>1. CASE host' \in Done(host, -1)
    BY <1>0, <2>1, HostMoved DEF Moves, Setting
  <2>2. ASSUME NEW x \in AnyState,
               host' \in At([host EXCEPT !.st = x], "send") \/ host' \in SetState([host EXCEPT !.st = x], "dfuIDLE", "send")
        PROVE  Moves(host')
    <3> DEFINE h == [host EXCEPT !.st = x]
    <3>1. /\ h \in HostType /\ h.block = 1 /\ h.began = host.began /\ h.ret = 0
          /\ h.flash = host.flash /\ h.faults = host.faults
      BY <1>0 DEF HostType
    <3> HIDE DEF h
    <3>2. /\ host'.pc = "send" \/ (host'.pc = "set" /\ host'.back = "send")
          /\ host'.block = 1 /\ host'.ret = 0 /\ host'.flash = host.flash /\ host'.faults = host.faults
      <4>1. host' \in At(h, "send") \/ host' \in SetState(h, "dfuIDLE", "send")
        BY <2>2 DEF h
      <4>2. QED BY <3>1, <4>1, HostMoved
    <3>3. QED BY <1>0, <3>2 DEF Moves, Setting
  <2>3. QED BY <1>5, <2>1, <2>2
<1>7. QED BY <1>0, <1>4, <1>6, PlainMove

\* A block is sent.
LEMMA SendTold ==
    ASSUME Inv, Told, SendBlock
    PROVE  Told'
<1> DEFINE b == host.block
           h == IF b = 1 THEN [host EXCEPT !.began = dev.state] ELSE host
<1>0. /\ dev \in DevType /\ faults \in Nat /\ host \in HostType /\ host.pc = "send" /\ b \in Nat /\ b > 0
      /\ Sending /\ host.ret = 0
  <2>1. dev \in DevType /\ faults \in Nat /\ host \in HostType /\ host.pc = "send"
    BY ToldTypes DEF SendBlock
  <2>2. b \in 1..Blocks /\ Blocks \in Nat
    BY <2>1, DfuBounds DEF Inv, InStep
  <2>3. Sending /\ host.ret = 0
    BY <2>1 DEF Told, Results, Sending
  <2>4. QED BY <2>1, <2>2, <2>3
<1>1. PICK o \in Send([cmd |-> "DNLOAD", block |-> b]) : dev' = o.dev /\ faults' = faults + o.cost /\ host' \in
          IF o.res <= 0 THEN Done(h, -5) ELSE At(h, "poll")
  BY DEF SendBlock, Transfers
<1>2. h \in HostType /\ h.flash = host.flash /\ h.faults = host.faults /\ h.ret = 0
  BY <1>0 DEF HostType, DevType, AnyState
<1> HIDE DEF h
<1>3. /\ o.cost \in {0, 1}
      /\ \/ ~dev.present /\ o.dev = dev /\ o.res = -1
         \/ dev.present /\ o.dev = dev /\ o.res = 0
         \/ dev.present /\ \E t \in Takes(dev, [cmd |-> "DNLOAD", block |-> b]) : o.dev = t.dev /\ o.res \in {0, t.res}
  BY Outcomes
<1> HIDE DEF b
<1>4. Calm(dev)
  BY <1>0 DEF Calm, Stays
<1>5. ASSUME NEW t \in Takes(dev, [cmd |-> "DNLOAD", block |-> b]) PROVE Calm(t.dev) /\ t.res \in {0, 1}
  <2>1. Stays(t.dev) /\ t.dev.state \in {"dfuDNLOAD_SYNC", "dfuERROR"} /\ t.res \in {0, 1}
    BY <1>0, <1>5, TakesBlock
  <2>2. QED BY <2>1 DEF Calm, Manifesting
<1>6. Calm(o.dev) /\ o.res \in {-1, 0, 1} /\ (o.res = 1 => dev.present)
  BY <1>3, <1>4, <1>5
<1>7. dev' = o.dev /\ faults' = faults + o.cost
  BY <1>1, Zenon
<1>8. Calm(dev') /\ faults' \in Nat /\ faults' >= faults
  BY <1>0, <1>3, <1>6, <1>7
<1>9. Moves(host')
  <2>1. CASE o.res <= 0
    <3>1. host' \in Done(h, -5)
      BY <1>1, <2>1, Zenon
    <3>2. host'.pc = "done" /\ host'.ret = -5 /\ host'.flash = host.flash /\ host'.faults = host.faults
      BY <1>2, <3>1, HostMoved
    <3>3. QED BY <1>0, <3>2 DEF Moves, Setting
  <2>2. CASE ~(o.res <= 0)
    <3>1. host' \in At(h, "poll") /\ dev.present
      BY <1>1, <1>6, <2>2
    <3>2. host'.pc = "poll" /\ host'.ret = 0 /\ host'.flash = host.flash /\ host'.faults = host.faults
      BY <1>2, <3>1, HostMoved
    <3>3. QED BY <1>0, <3>1, <3>2 DEF Moves, Setting
  <2>3. QED BY <2>1, <2>2
<1>10. QED BY <1>0, <1>8, <1>9, PlainMove

\* The device is asked whether it has it.
LEMMA PollTold ==
    ASSUME Inv, Told, PollState
    PROVE  Told'
<1>0. /\ dev \in DevType /\ faults \in Nat /\ host \in HostType /\ host.pc = "poll"
      /\ Sending /\ host.ret = 0
  BY ToldTypes DEF PollState, Told, Results, Sending
<1>1. PICK o \in Send(Status) : dev' = o.dev /\ faults' = faults + o.cost /\ host' \in
          IF o.res <= 0 \/ o.dev.state = "dfuERROR" THEN Done(host, -5)
          ELSE IF o.dev.state # "dfuDNLOAD_IDLE" THEN {host}
          ELSE {[host EXCEPT !.block = @ + 1, !.pc = IF host.block < Blocks THEN "send" ELSE "zero"]}
  BY DEF PollState, Transfers
<1>2. Calm(o.dev) /\ o.cost \in {0, 1} /\ o.res \in {-1, 0, 1} /\ (o.res = 1 => dev.present)
  <2>1. o.res = 1 => dev.present
    BY Outcomes
  <2>2. QED BY <1>0, <2>1, CalmStatus
<1>3. dev' = o.dev /\ faults' = faults + o.cost
  BY <1>1, Zenon
<1>4. Calm(dev') /\ faults' \in Nat /\ faults' >= faults
  BY <1>0, <1>2, <1>3
<1>5. Moves(host')
  <2>1. CASE o.res <= 0 \/ o.dev.state = "dfuERROR"
    <3>1. host' \in Done(host, -5)
      BY <1>1, <2>1, Zenon
    <3>2. QED BY <1>0, <3>1, HostMoved DEF Moves, Setting
  <2>2. CASE ~(o.res <= 0) /\ host' = host
    BY <1>0, <1>2, <2>2 DEF Moves, Setting
  <2>3. CASE ~(o.res <= 0) /\ host' = [host EXCEPT !.block = @ + 1, !.pc = IF host.block < Blocks THEN "send" ELSE "zero"]
    <3> DEFINE p == IF host.block < Blocks THEN "send" ELSE "zero"
    <3>1. p \in {"send", "zero"}
      OBVIOUS
    <3>2. host' = [host EXCEPT !.block = @ + 1, !.pc = p]
      BY <2>3
    <3> HIDE DEF p
    <3>3. /\ host'.pc = p /\ host'.ret = 0 /\ host'.flash = host.flash /\ host'.faults = host.faults
          /\ host'.began = host.began
      BY <1>0, <3>2 DEF HostType
    <3>4. QED BY <1>0, <1>2, <2>3, <3>1, <3>3 DEF Moves, Setting
  <2>4. QED BY <1>1, <2>1, <2>2, <2>3
<1>6. QED BY <1>0, <1>4, <1>5, PlainMove

\* The empty block puts the image on its way.
LEMMA ZeroTold ==
    ASSUME Inv, Told, SendZero
    PROVE  Told'
<1>0. /\ dev \in DevType /\ faults \in Nat /\ host \in HostType /\ host.pc = "zero" /\ host.faults \in Nat
      /\ dev.present => dev.state = "dfuDNLOAD_IDLE"
      /\ dev.present /\ host.began = "dfuIDLE" => dev.image = Whole
      /\ Sending /\ host.ret = 0 /\ faults >= host.faults /\ (Flawless => dev.present)
  BY ToldTypes DEF Inv, InStep, Received, SendZero, Told, Results, Lands, Sending
<1>1. PICK o \in Send([cmd |-> "DNLOAD", block |-> 0]) : dev' = o.dev /\ faults' = faults + o.cost /\ host' \in
          IF o.res < 0 THEN Done(host, -6) ELSE {[host EXCEPT !.pc = "manifest", !.ret = 5]}
  BY DEF SendZero, Transfers
<1>2. dev' = o.dev /\ faults' = faults + o.cost
  BY <1>1, Zenon
<1>3. /\ o.cost \in {0, 1}
      /\ \/ ~dev.present /\ o.dev = dev /\ o.res = -1
         \/ dev.present /\ o.dev = dev /\ o.res = 0
         \/ dev.present /\ \E t \in Takes(dev, [cmd |-> "DNLOAD", block |-> 0]) : o.dev = t.dev /\ o.res \in {0, t.res}
      /\ dev.present /\ o.cost = 0 => \E t \in Takes(dev, [cmd |-> "DNLOAD", block |-> 0]) : o.dev = t.dev /\ o.res = t.res
  BY Outcomes
<1>4. CASE o.res < 0
  <2>1. dev' = dev /\ ~dev.present
    BY <1>0, <1>2, <1>3, <1>4, TakesZero
  <2>2. Calm(dev') /\ faults' \in Nat /\ faults' >= faults
    BY <1>0, <1>2, <1>3, <2>1 DEF Calm, Stays
  <2>3. host' \in Done(host, -6)
    BY <1>1, <1>4, Zenon
  <2>4. Moves(host')
    BY <1>0, <2>3, HostMoved DEF Moves, Setting
  <2>5. QED BY <1>0, <2>2, <2>4, PlainMove
<1>5. CASE ~(o.res < 0)
  <2>1. host' = [host EXCEPT !.pc = "manifest", !.ret = 5]
    BY <1>1, <1>5
  <2>2. /\ host'.pc = "manifest" /\ host'.ret = 5 /\ host'.faults = host.faults /\ host'.began = host.began
    BY <1>0, <2>1 DEF HostType
  <2>3. Results' /\ Untouched'
    BY <2>2 DEF Results, Untouched, Sending, Ending, Setting
  <2>4. faults' >= host'.faults /\ (Flawless' => Flawless /\ o.cost = 0)
    BY <1>0, <1>2, <1>3, <2>2 DEF Flawless
  <2>5. ASSUME Flawless', host.began = "dfuIDLE" PROVE OnItsWay'
    <3>1. dev.present /\ dev.state = "dfuDNLOAD_IDLE" /\ dev.image = Whole /\ o.cost = 0
      BY <1>0, <2>4, <2>5
    <3>2. PICK t \in Takes(dev, [cmd |-> "DNLOAD", block |-> 0]) : o.dev = t.dev
      BY <1>3, <3>1
    <3> DEFINE new == [dev EXCEPT !.done = FALSE]
    <3>3. t \in Goes(new, {"dfuMANIFEST_SYNC"})
      BY <3>1 DEF Takes
    <3>4. new \in DevType /\ new.image = Whole /\ new.present /\ ~new.done
      BY <1>0, <3>1 DEF DevType
    <3> HIDE DEF new
    <3>5. {"dfuMANIFEST_SYNC"} \in SUBSET DevStates
      BY DEF DevStates
    <3>6. /\ t.dev.state \in {"dfuMANIFEST_SYNC"} /\ t.dev.image = new.image
          /\ t.dev.present = new.present /\ t.dev.done = new.done
      <4>1. new \in DevType
        BY <3>4, Zenon
      <4>2. QED BY <3>3, <3>5, <4>1, GoesIs, Zenon
    <3>7. dev'.state = "dfuMANIFEST_SYNC" /\ dev'.image = Whole
      BY <1>2, <3>2, <3>4, <3>6
    <3>8. dev'.present /\ ~dev'.done
      BY <1>2, <3>2, <3>4, <3>6, Zenon
    <3>9. QED BY <3>7, <3>8 DEF OnItsWay, Manifesting
  <2>6. Lands'
    <3>1. Flawless' /\ host'.began = "dfuIDLE" => host'.pc = "manifest" /\ OnItsWay'
      BY <2>2, <2>5
    <3>2. host'.pc \notin {"poll", "zero", "send"}
      BY <2>2
    <3>3. QED BY <2>4, <3>1, <3>2 DEF Lands
  <2>7. QED BY <2>3, <2>6 DEF Told
<1>6. QED BY <1>4, <1>5

\* A poll of a device that has the image and is asked in time.
LEMMA PollsOn ==
    ASSUME dev \in DevType, OnItsWay, ~dev.kind.strict, NEW o \in Send(Status), o.cost = 0
    PROVE  o.res = 1 /\ o.dev.state = "dfuMANIFEST" /\ o.dev.image = Whole /\ o.dev.present /\ ~o.dev.done
<1>0. /\ dev.present /\ dev.state \in Manifesting /\ dev.image = Whole /\ ~dev.done
  BY DEF OnItsWay
<1>1. PICK t \in Takes(dev, Status) : o.dev = t.dev /\ o.res = t.res
  BY <1>0, Outcomes
<1>2. Status.cmd = "GETSTATUS"
  BY DEF Status
<1>3. t \in Goes(dev, {"dfuMANIFEST"})
  BY <1>0, <1>2 DEF Takes, Manifesting
<1>4. {"dfuMANIFEST"} \in SUBSET DevStates
  BY DEF DevStates
<1>5. t.res = 1 /\ t.dev.state \in {"dfuMANIFEST"} /\ t.dev.image = dev.image
  BY <1>3, <1>4, GoesIs
<1>6. t.dev.present = dev.present /\ t.dev.done = dev.done
  <2>1. \A s \in SUBSET DevStates : \A u \in Goes(dev, s) : u.dev.present = dev.present /\ u.dev.done = dev.done
    BY GoesIs, Zenon
  <2>2. QED BY <1>3, <1>4, <2>1, Zenon
<1>7. o.res = 1 /\ o.dev.state = "dfuMANIFEST" /\ o.dev.image = Whole
  BY <1>0, <1>1, <1>5
<1>8. o.dev.present /\ ~o.dev.done
  BY <1>0, <1>1, <1>6, Zenon
<1>9. QED BY <1>7, <1>8

\* The loop after the empty block ends with success only when the image has landed, or
\* after a fault.
LEMMA AwaitTold ==
    ASSUME Inv, Told, AwaitManifest
    PROVE  Told'
<1>0. /\ dev \in DevType /\ faults \in Nat /\ host \in HostType /\ host.pc = "manifest" /\ host.faults \in Nat
      /\ host.ret \in {5, -7, OtherError} /\ faults >= host.faults
  BY ToldTypes DEF AwaitManifest, Told, Results, Lands, Ending
<1>1. PICK o \in Send(Status) : dev' = o.dev /\ faults' = faults + o.cost /\ host' \in
          LET h == [host EXCEPT !.st = o.dev.state] IN
            CASE o.res = 0 -> At(host, "final")
              [] o.res < 0 -> At(host, "final") \cup At([host EXCEPT !.ret = OtherError], "final")
              [] o.res > 0 /\ o.dev.state = "dfuMANIFEST_WAIT_RESET" -> At(h, "reset")
              [] o.res > 0 /\ o.dev.state = "dfuERROR" -> SetState([h EXCEPT !.ret = -7], "dfuIDLE", "done")
              [] o.res > 0 /\ o.dev.state \in {"dfuIDLE", "appIDLE"} -> At(h, "final")
              [] OTHER -> {h}
  BY DEF AwaitManifest, Transfers
<1>2. dev' = o.dev /\ faults' = faults + o.cost
  BY <1>1, Zenon
<1>3. Calm(o.dev) /\ o.cost \in {0, 1} /\ o.res \in {-1, 0, 1} /\ o.dev.state \in AnyState
  BY <1>0, CalmStatus DEF Calm, Stays, DevType, AnyState
<1> DEFINE h == [host EXCEPT !.st = o.dev.state]
           lost == [host EXCEPT !.ret = OtherError]
           bad == [h EXCEPT !.ret = -7]
<1>4. \/ host' \in At(host, "final") \/ host' \in At(lost, "final") \/ host' \in At(h, "reset")
      \/ host' \in SetState(bad, "dfuIDLE", "done") \/ host' \in At(h, "final") \/ host' = h
  BY <1>1, <1>3
<1>5. ASSUME o.res = 1, o.dev.state = "dfuMANIFEST" PROVE host' = h
  BY <1>1, <1>5
<1>6. /\ h \in HostType /\ h.began = host.began /\ h.pc = "manifest" /\ h.ret = host.ret
      /\ h.flash = host.flash /\ h.faults = host.faults
  BY <1>0, <1>3 DEF HostType
<1> HIDE DEF h
<1>7. /\ lost \in HostType /\ lost.began = host.began /\ lost.ret = OtherError
      /\ lost.flash = host.flash /\ lost.faults = host.faults
      /\ bad \in HostType /\ bad.began = host.began /\ bad.ret = -7
      /\ bad.flash = host.flash /\ bad.faults = host.faults
  BY <1>0, <1>6 DEF HostType, OtherError
<1> HIDE DEF lost, bad
<1>8. /\ host'.flash = host.flash /\ host'.faults = host.faults /\ host'.began = host.began
      /\ host'.pc \in {"manifest", "reset", "final"} \/ (host'.pc = "set" /\ host'.back = "done")
      /\ host'.ret \in {host.ret, -7, OtherError}
  <2>1. CASE host' \in At(host, "final")
    BY <1>0, <2>1, HostMoved
  <2>2. CASE host' \in At(lost, "final")
    BY <1>7, <2>2, HostMoved
  <2>3. CASE host' \in At(h, "reset") \/ host' \in At(h, "final")
    BY <1>6, <2>3, HostMoved
  <2>4. CASE host' \in SetState(bad, "dfuIDLE", "done")
    BY <1>7, <2>4, HostMoved
  <2>5. CASE host' = h
    BY <1>6, <2>5
  <2>6. QED BY <1>4, <2>1, <2>2, <2>3, <2>4, <2>5
<1>9. Moves(host')
  BY <1>0, <1>8 DEF Moves, Setting, OtherError
<1>10. Calm(dev') /\ faults' \in Nat /\ faults' >= faults
  BY <1>0, <1>2, <1>3
<1>11. ASSUME Flawless', ~dev.kind.strict, OnItsWay
       PROVE  host'.pc = "manifest" /\ OnItsWay'
  <2>1. o.cost = 0
    BY <1>0, <1>2, <1>3, <1>8, <1>11 DEF Flawless
  <2>2. o.res = 1 /\ o.dev.state = "dfuMANIFEST" /\ o.dev.image = Whole /\ o.dev.present /\ ~o.dev.done
    BY <1>0, <1>11, <2>1, PollsOn, Zenon
  <2>3. host'.pc = "manifest"
    BY <1>5, <1>6, <2>2
  <2>4. dev'.state = "dfuMANIFEST" /\ dev'.image = Whole
    BY <1>2, <2>2
  <2>5. dev'.present /\ ~dev'.done
    BY <1>2, <2>2, Zenon
  <2>6. QED BY <2>3, <2>4, <2>5 DEF OnItsWay, Manifesting
<1>12. QED BY <1>9, <1>10, <1>11, MovesKeeps, Zenon

\* The reset after it, and the end.
LEMMA LateTold ==
    ASSUME Inv, Told, ResetDevice \/ Final
    PROVE  Told'
<1>0. /\ dev \in DevType /\ faults \in Nat /\ host \in HostType /\ host.pc \in {"reset", "final"}
      /\ host.ret \in {5, -7, OtherError} /\ Calm(dev)
  <2>1. host.pc \in {"reset", "final"}
    BY DEF ResetDevice, Final
  <2>2. QED BY <2>1, ToldTypes DEF Told, Results, Ending, Calm, Stays
<1>1. /\ Calm(dev') /\ faults' \in Nat /\ faults' >= faults
      /\ \/ host' \in At(host, "final") \/ host' \in SetState(host, "appIDLE", "done") \/ host' \in At(host, "done")
         \/ host' = [host EXCEPT !.pc = "final", !.ret = -7]
  <2>1. CASE ResetDevice
    <3>1. CASE ResetsTo(At(host, "final"))
      BY <1>0, <3>1, ResetIsCalm DEF ResetsTo
    <3>2. CASE faults' = faults + 1 /\ host' = [host EXCEPT !.pc = "final", !.ret = -7] /\ UNCHANGED <<dev, bus, want, runs>>
      BY <1>0, <3>2
    <3>3. QED BY <2>1, <3>1, <3>2 DEF ResetDevice
  <2>2. CASE Final
    BY <1>0, <2>2 DEF Final
  <2>3. QED BY <2>1, <2>2
<1>2. /\ host'.flash = host.flash /\ host'.faults = host.faults /\ host'.began = host.began
      /\ host'.pc \in {"final", "done"} \/ (host'.pc = "set" /\ host'.back = "done")
      /\ host'.ret \in {host.ret, -7}
  <2>1. CASE host' \in At(host, "final") \/ host' \in At(host, "done")
    BY <1>0, <2>1, HostMoved
  <2>2. CASE host' \in SetState(host, "appIDLE", "done")
    BY <1>0, <2>2, HostMoved
  <2>3. CASE host' = [host EXCEPT !.pc = "final", !.ret = -7]
    BY <1>0, <2>3 DEF HostType
  <2>4. QED BY <1>1, <2>1, <2>2, <2>3
<1>3. Moves(host')
  BY <1>0, <1>2 DEF Moves, Setting, OtherError
<1>4. QED BY <1>0, <1>1, <1>3, PlainMove

\* A run begins, ends or is killed.
LEMMA RunTold ==
    ASSUME Inv, Told, Start \/ Leaves \/ Killed
    PROVE  Told'
<1>0. /\ dev \in DevType /\ faults \in Nat /\ host \in HostType /\ UNCHANGED <<dev, faults>>
      /\ Firmwares' = Firmwares
  BY ToldTypes DEF Start, Leaves, Killed, Firmwares
<1>1. /\ Fresh \in HostType /\ Fresh.pc = "idle" /\ Fresh.ret = 0 /\ Fresh.faults = 0 /\ Fresh.block = 1
  <2>1. Fresh \in HostType /\ Fresh.pc = "idle" /\ Fresh.block = 1
    BY <1>0, FreshIs
  <2>2. Fresh.ret = 0 /\ Fresh.faults = 0
    BY DEF Fresh, NewHost
  <2>3. QED BY <2>1, <2>2
<1> HIDE DEF Firmwares
<1>2. CASE host' = [Fresh EXCEPT !.pc = "check", !.met = dev.state, !.flash = Firmwares, !.faults = faults]
  <2>1. host'.pc = "check" /\ host'.ret = 0 /\ host'.flash = Firmwares /\ host'.faults = faults
    BY <1>1, <1>2 DEF HostType
  <2>2. Results' /\ Untouched' /\ Lands'
    BY <1>0, <2>1 DEF Results, Untouched, Lands, Sending, Ending, Setting
  <2>3. QED BY <2>2 DEF Told
<1>3. CASE host' = [Fresh EXCEPT !.pc = "done", !.ret = -1, !.flash = Firmwares]
  <2>1. host'.pc = "done" /\ host'.ret = -1 /\ host'.flash = Firmwares /\ host'.faults = 0
    BY <1>1, <1>3 DEF HostType
  <2>2. Results' /\ Untouched' /\ Lands'
    BY <1>0, <2>1 DEF Results, Untouched, Lands, Sending, Ending, Setting
  <2>3. QED BY <2>2 DEF Told
<1>4. CASE host' = Fresh \/ host' = [Fresh EXCEPT !.ret = Signal]
  <2>1. host'.pc = "idle" /\ host'.ret \in {0, Signal} /\ host'.faults = 0
    BY <1>1, <1>4 DEF HostType
  <2>2. Results' /\ Untouched' /\ Lands'
    BY <1>0, <2>1 DEF Results, Untouched, Lands, Sending, Ending, Setting, Signal
  <2>3. QED BY <2>2 DEF Told
<1>5. QED BY <1>2, <1>3, <1>4 DEF Start, Leaves, Killed

\* The device by itself: only it makes an image its firmware, and that is the whole one.
LEMMA DeviceTold ==
    ASSUME Inv, Told, GetsReady \/ Manifests \/ DeviceFails \/ Replug
    PROVE  Told'
<1>0. /\ dev \in DevType /\ faults \in Nat /\ host \in HostType /\ host' = host /\ host.faults \in Nat
      /\ faults >= host.faults
  BY ToldTypes DEF GetsReady, Manifests, DeviceFails, Replug, Told, Lands
<1>1. Results'
  BY <1>0 DEF Told, Results, Sending, Ending
<1>2. ASSUME Firmwares' \subseteq Firmwares PROVE Untouched'
  BY <1>0, <1>2 DEF Told, Untouched, Sending
<1>3. CASE GetsReady
  <2>1. dev.state = "dfuDNBUSY" /\ dev.present /\ dev' = [dev EXCEPT !.state = "dfuDNLOAD_SYNC", !.done = TRUE] /\ faults' = faults
    BY <1>3 DEF GetsReady
  <2>2. /\ dev'.state = "dfuDNLOAD_SYNC" /\ dev'.flash = dev.flash /\ dev'.kind = dev.kind
    BY <1>0, <2>1 DEF DevType
  <2>3. dev'.present
    BY <1>0, <2>1, Zenon DEF DevType
  <2>4. Firmwares' \subseteq Firmwares
    BY <2>2 DEF Firmwares
  <2>5. ~OnItsWay
    BY <2>1 DEF OnItsWay, Manifesting
  <2>6. Flawless' = Flawless
    BY <1>0, <2>1 DEF Flawless
  <2>7. Lands'
    BY <1>0, <2>1, <2>2, <2>3, <2>5, <2>6 DEF Told, Lands
  <2>8. QED BY <1>1, <1>2, <2>4, <2>7 DEF Told
<1>4. CASE Manifests
  <2> DEFINE s == CASE dev.kind.ends = "tolerant" -> "dfuMANIFEST_SYNC"
                    [] dev.kind.ends = "waits" -> "dfuMANIFEST_WAIT_RESET"
                    [] dev.kind.ends = "drops" -> "appIDLE"
             there == dev.kind.ends # "drops"
  <2>1. /\ dev.state = "dfuMANIFEST" /\ dev.present /\ faults' = faults
        /\ dev' = [dev EXCEPT !.flash = dev.image, !.done = TRUE, !.present = there, !.state = s]
    BY <1>4 DEF Manifests
  <2> HIDE DEF s, there
  <2>2. dev'.flash = dev.image /\ dev'.image = dev.image /\ dev'.kind = dev.kind
    BY <1>0, <2>1 DEF DevType
  <2>3. Firmwares' \subseteq Firmwares
    BY <2>1, <2>2 DEF Firmwares
  <2>4. host.began = "dfuIDLE" => dev'.flash = Whole
    BY <2>1, <2>2 DEF Inv, Received, Manifesting
  <2>5. host.pc \notin {"poll", "zero"} /\ ~(host.pc = "send" /\ host.block > 1)
    BY <2>1 DEF Inv, InStep
  <2>6. Lands'
    BY <1>0, <2>1, <2>4, <2>5 DEF Lands
  <2>7. QED BY <1>1, <1>2, <2>3, <2>6 DEF Told
<1>5. CASE DeviceFails
  <2>1. faults' = faults + 1
    BY <1>5 DEF DeviceFails
  <2>2. ~Flawless' /\ faults' >= host'.faults
    BY <1>0, <2>1 DEF Flawless
  <2>3. /\ dev'.flash = dev.flash /\ dev'.state \in {"dfuERROR", "dfuIDLE"}
    BY <1>0, <1>5 DEF DeviceFails, DevType
  <2>4. Firmwares' \subseteq Firmwares
    BY <2>3 DEF Firmwares
  <2>5. Lands'
    BY <2>2 DEF Lands
  <2>6. QED BY <1>1, <1>2, <2>4, <2>5 DEF Told
<1>6. CASE Replug
  <2>1. host.pc = "idle" /\ faults' = faults /\ dev' = [dev EXCEPT !.present = TRUE, !.state = "dfuIDLE", !.image = <<>>]
    BY <1>6 DEF Replug
  <2>2. dev'.flash = dev.flash /\ dev'.state = "dfuIDLE"
    BY <1>0, <2>1 DEF DevType
  <2>3. Firmwares' \subseteq Firmwares
    BY <2>2 DEF Firmwares
  <2>4. host.ret # 5
    BY <2>1 DEF Told, Results, Signal
  <2>5. Lands'
    BY <1>0, <2>1, <2>4 DEF Lands
  <2>6. QED BY <1>1, <1>2, <2>3, <2>5 DEF Told
<1>7. QED BY <1>3, <1>4, <1>5, <1>6

\* Told is kept by every step.
LEMMA EveryStepTells == Inv /\ Told /\ [Next]_vars => Told'
<1>1. SUFFICES ASSUME Inv, Told, [Next]_vars PROVE Told'
  OBVIOUS
<1>2. CASE HostSteps
  BY <1>1, <1>2, SetTold, CheckTold, SendTold, PollTold, ZeroTold, AwaitTold, LateTold, Zenon DEF HostSteps
<1>3. CASE GetsReady \/ Manifests \/ DeviceFails \/ Replug
  BY <1>1, <1>3, DeviceTold
<1>4. CASE Start \/ Leaves \/ Killed
  BY <1>1, <1>4, RunTold
<1>5. CASE UNCHANGED vars
  <2>1. UNCHANGED <<dev, host, faults>>
    BY <1>5 DEF vars
  <2>2. QED BY <1>1, <2>1, Zenon DEF Told, Results, Untouched, Lands, Sending, Ending, Firmwares, OnItsWay, Flawless
<1>6. QED BY <1>1, <1>2, <1>3, <1>4, <1>5, Zenon DEF Next

\* A run that gives up before the end of the image leaves the firmware that was there, or the
\* one that an earlier run had sent to its end; and one that reports success without a
\* fault has written the image, in a device that takes early polls: for images of any length, any
\* faults and any number of runs (the results of download, and the loop over the
\* manifestation).
THEOREM OutcomeIsReported == Spec => []OutcomeIsTrue
<1>1. Inv /\ [Next]_vars => Inv'
  BY EveryStep DEF Goal
<1>2. Init => Told
  <2>1. SUFFICES ASSUME Init PROVE Told
    OBVIOUS
  <2>2. host.pc = "idle" /\ host.ret = 0 /\ host.faults = 0 /\ faults = 0
    BY <2>1 DEF Init, NewHost
  <2>3. QED BY <2>2 DEF Told, Results, Untouched, Lands, Sending, Ending, Setting
<1>3. Told => OutcomeIsTrue
  <2>1. SUFFICES ASSUME Told, host.pc = "done" PROVE OutcomeIsTrue
    BY DEF OutcomeIsTrue
  <2>2. dev.flash \in Firmwares
    BY DEF Firmwares
  <2>3. host.ret \in -5 .. -1 => dev.flash \in host.flash
    BY <2>1, <2>2 DEF Told, Untouched
  <2>4. host.ret = 5 /\ Flawless /\ host.began = "dfuIDLE" /\ ~dev.kind.strict => dev.flash = Whole
    BY <2>1, Zenon DEF Told, Lands
  <2>5. QED BY <2>3, <2>4 DEF OutcomeIsTrue
<1>4. QED BY <1>1, <1>2, <1>3, Begins, EveryStepTells, PTL DEF Spec
=============================================================================
