-------------------------------- MODULE Dfu --------------------------------
(* Class DFU (dfu.cpp) and its use in main.cpp: an image goes block by block   *)
(* over USB control transfers to a device that follows the state machine of    *)
(* the DFU class.  A transfer is one step of both; it may be lost before the    *)
(* device sees it or its answer may be lost.  The device is busy for as long as *)
(* it likes, the user may kill a run at any moment, and the next run meets what *)
(* it left.  A status that was never filled in has any value.                   *)
EXTENDS Integers, Sequences, FiniteSets

CONSTANTS
    Blocks,         \* transfers that make the image
    Kinds,          \* devices: how they end, and whether they take early polls
    Buses,          \* what else is on the USB bus: see Found
    Wanted,         \* identities in the file and on the command line, altsetting
    MaxFaults,      \* bound on lost transfers, device errors and unplugging
    MaxRuns         \* bound on the runs of openFPGALoader

ASSUME DfuBounds == Blocks \in Nat \ {0} /\ MaxFaults \in Nat /\ MaxRuns \in Nat
ASSUME DfuKinds == \A k \in Kinds : k.ends \in {"tolerant", "waits", "drops"}
\* An identity of 0 is none.
ASSUME DfuIdentities == \A b \in Buses : \A d \in b : d.id # 0

VARIABLES
    dev,            \* the device: state, image received, flash, on the bus or not
    host,           \* the running process
    bus, want,      \* the devices listed, and what the run asked for
    faults, runs    \* counters of what is bounded

vars == <<dev, host, bus, want, faults, runs>>

DevStates == {"appIDLE", "appDETACH", "dfuIDLE", "dfuDNLOAD_SYNC", "dfuDNBUSY", "dfuDNLOAD_IDLE",
              "dfuMANIFEST_SYNC", "dfuMANIFEST", "dfuMANIFEST_WAIT_RESET", "dfuUPLOAD_IDLE", "dfuERROR"}
AnyState == DevStates \cup {"other"}         \* the value of a status that was not filled in
Signal == -9                            \* the result of a run that was killed
OtherError == -8                        \* stands for any LIBUSB_ERROR but NO_DEVICE
Whole == [i \in 1..Blocks |-> i]

-----------------------------------------------------------------------------
\* The device: the states it may be in after a request, and whether it took it (1) or
\* not (0); a request that its state does not allow is stalled and is an error.
Stalls(d) == {[dev |-> [d EXCEPT !.state = "dfuERROR"], res |-> 0]}
Goes(d, states) == {[dev |-> [d EXCEPT !.state = s], res |-> 1] : s \in states}
Busy(d) == d.state \in {"dfuDNBUSY", "dfuMANIFEST"}

Takes(d, req) ==
    CASE req.cmd = "DNLOAD" /\ req.block > 0 ->
            IF d.state \in {"dfuIDLE", "dfuDNLOAD_IDLE"}
            THEN Goes([d EXCEPT !.image = IF d.state = "dfuIDLE" THEN <<req.block>> ELSE Append(@, req.block),
                                !.done = FALSE], {"dfuDNLOAD_SYNC"})
            ELSE Stalls(d)
      [] req.cmd = "DNLOAD" /\ req.block = 0 ->
            IF d.state = "dfuDNLOAD_IDLE" THEN Goes([d EXCEPT !.done = FALSE], {"dfuMANIFEST_SYNC"}) ELSE Stalls(d)
      [] req.cmd = "GETSTATUS" ->
            IF d.state = "dfuDNLOAD_SYNC" THEN Goes(d, {"dfuDNLOAD_IDLE"} \cup (IF d.done THEN {} ELSE {"dfuDNBUSY"}))
            ELSE IF d.state = "dfuMANIFEST_SYNC" THEN Goes(d, {IF d.done THEN "dfuIDLE" ELSE "dfuMANIFEST"})
            ELSE IF Busy(d) /\ d.kind.strict THEN Stalls(d)
            ELSE Goes(d, {d.state})
      [] req.cmd = "ABORT" ->
            IF d.state \in {"dfuIDLE", "dfuDNLOAD_IDLE", "dfuDNLOAD_SYNC", "dfuMANIFEST_SYNC"}
            THEN Goes([d EXCEPT !.image = <<>>], {"dfuIDLE"}) ELSE Stalls(d)
      [] req.cmd = "CLRSTATUS" -> IF d.state = "dfuERROR" THEN Goes(d, {"dfuIDLE"}) ELSE Stalls(d)
      [] req.cmd = "DETACH" -> IF d.state = "appIDLE" THEN Goes(d, {"appDETACH"}) ELSE Stalls(d)

\* What it does by itself: it gets ready; it makes the image its firmware, then waits for
\* a reset, answers again, or leaves the bus.
GetsReady ==
    /\ dev.present /\ dev.state = "dfuDNBUSY"
    /\ dev' = [dev EXCEPT !.state = "dfuDNLOAD_SYNC", !.done = TRUE]
    /\ UNCHANGED <<host, bus, want, faults, runs>>

Manifests ==
    /\ dev.present /\ dev.state = "dfuMANIFEST"
    /\ dev' = [dev EXCEPT !.flash = dev.image, !.done = TRUE, !.present = dev.kind.ends # "drops",
                          !.state = CASE dev.kind.ends = "tolerant" -> "dfuMANIFEST_SYNC"
                                      [] dev.kind.ends = "waits" -> "dfuMANIFEST_WAIT_RESET"
                                      [] dev.kind.ends = "drops" -> "appIDLE"]
    /\ UNCHANGED <<host, bus, want, faults, runs>>

\* A write or the manifestation fails; the plug is pulled.
DeviceFails ==
    /\ faults < MaxFaults /\ faults' = faults + 1
    /\ dev.present
    /\ \/ Busy(dev) /\ dev' = [dev EXCEPT !.state = "dfuERROR"]
       \/ dev' = [dev EXCEPT !.present = FALSE, !.state = "dfuIDLE", !.image = <<>>]
    /\ UNCHANGED <<host, bus, want, runs>>

\* The outcomes of a control transfer: device, result of send(), faults.  A failed
\* transfer to a device still on the bus counts as 0 bytes, which is not negative.
Send(req) ==
    IF ~dev.present THEN {[dev |-> dev, res |-> -1, cost |-> 0]}
    ELSE {[dev |-> t.dev, res |-> t.res, cost |-> 0] : t \in Takes(dev, req)}
         \cup {[dev |-> d, res |-> 0, cost |-> 1] : d \in {dev} \cup {t.dev : t \in Takes(dev, req)}}

\* A step of the host that makes a transfer and goes on by its result.
Transfers(req, Then(_, _)) ==
    \E o \in Send(req) :
        /\ faults + o.cost <= MaxFaults
        /\ dev' = o.dev /\ faults' = faults + o.cost
        /\ host' \in Then(o.res, o.dev.state)
        /\ UNCHANGED <<bus, want, runs>>

-----------------------------------------------------------------------------
\* The constructor.  A device on the bus: its identity, and for each altsetting whether it
\* is a DFU interface and whether it has a descriptor.  searchIfDFU keeps the altsettings
\* asked for, of an interface with at least one descriptor.
SearchIfDFU(d, alt) ==
    {[id |-> d.id, alt |-> a] :
        a \in {x \in DOMAIN d.alts : /\ d.alts[x].dfu /\ alt \in {-1, x}
                                     /\ \E y \in DOMAIN d.alts : d.alts[y].dfu /\ d.alts[y].desc}}

\* searchWithVIDPID: it has found a device also when no DFU interface is in it.
OnBus(devs, id) == \E d \in devs : d.id = id
SearchDFUDevices(devs, alt) == UNION {SearchIfDFU(d, alt) : d \in devs}
SearchWithVIDPID(devs, id, alt) == UNION {SearchIfDFU(d, alt) : d \in {x \in devs : x.id = id}}

Found(devs, w) ==
    IF w.file = 0 /\ w.arg = 0 THEN SearchDFUDevices(devs, w.alt)
    ELSE IF w.file # 0 /\ OnBus(devs, w.file) THEN SearchWithVIDPID(devs, w.file, w.alt)
    ELSE IF w.arg # 0 THEN SearchWithVIDPID(devs, w.arg, w.alt) ELSE {}

\* It goes on with exactly one device that has an identity, and opens it, which an
\* altsetting left out makes fail.
Opens(devs, w) ==
    /\ Cardinality(Found(devs, w)) = 1
    /\ w.file # 0 \/ w.arg # 0
    /\ w.alt # -1

NewHost == [pc |-> "idle", st |-> "other", seen |-> "other", goal |-> "dfuIDLE", back |-> "done", block |-> 1,
            ret |-> 0, flash |-> {}, met |-> "other", began |-> "other", faults |-> 0]

\* The state of the device when the last download began is remembered for the properties.
Fresh == [NewHost EXCEPT !.began = host.began]

\* Also for the properties: the firmware the device has, or makes of the image it has.
Firmwares == {dev.flash} \cup (IF dev.state \in {"dfuMANIFEST_SYNC", "dfuMANIFEST"} THEN {dev.image} ELSE {})

\* main starts a run.  The target is the device with identity 1; a run that opens
\* another one is of no interest here.
Start ==
    /\ host.pc = "idle" /\ runs < MaxRuns /\ runs' = runs + 1
    /\ \E w \in Wanted, others \in Buses :
        LET devs == others \cup (IF dev.present THEN {[id |-> 1, alts |-> dev.kind.alts]} ELSE {})
            Target == Opens(devs, w) /\ \E f \in Found(devs, w) : f.id = 1
        IN  /\ want' = w /\ bus' = devs
            /\ host' = IF Target THEN [Fresh EXCEPT !.pc = "check", !.met = dev.state, !.flash = Firmwares, !.faults = faults]
                       ELSE [Fresh EXCEPT !.pc = "done", !.ret = -1, !.flash = Firmwares]
    /\ UNCHANGED <<dev, faults>>

Done(h, ret) == {[h EXCEPT !.pc = "done", !.ret = ret]}
At(h, pc) == {[h EXCEPT !.pc = pc]}
Status == [cmd |-> "GETSTATUS"]

-----------------------------------------------------------------------------
\* set_state(goal) and the place it returns to; its result is never used.
SetState(h, goal, back) == {[h EXCEPT !.pc = "set", !.goal = goal, !.back = back]}
Return(h) == At(h, h.back)
InLoop(s) == host.pc = "loop" /\ host.seen = s /\ host.goal # s

SetEnter ==
    /\ host.pc = "set"
    /\ Transfers(Status, LAMBDA res, s :
            IF res < 0 THEN Return(host)
            ELSE {[host EXCEPT !.pc = "loop", !.seen = x] : x \in IF res > 0 THEN {s} ELSE AnyState})

SetLeave ==
    /\ host.pc = "loop" /\ host.seen = host.goal
    /\ host' \in Return(host) /\ UNCHANGED <<dev, bus, want, faults, runs>>

SetDetach == InLoop("appIDLE") /\ Transfers([cmd |-> "DETACH"], LAMBDA res, s :
    IF res < 0 THEN Return(host) ELSE At(host, "detached"))
SetDetached ==
    /\ host.pc = "detached"
    /\ Transfers(Status, LAMBDA res, s :
            IF res <= 0 \/ s # "appDETACH" THEN Return(host) ELSE {[host EXCEPT !.pc = "loop", !.seen = s]})

\* A USB reset ends DFU mode.
ResetsTo(h) ==
    \/ dev.present /\ dev' = [dev EXCEPT !.state = "appIDLE"] /\ host' \in h /\ UNCHANGED <<bus, want, faults, runs>>
    \/ ~dev.present /\ host' \in h /\ UNCHANGED <<dev, bus, want, faults, runs>>
SetReset == InLoop("dfuIDLE") /\ ResetsTo(Return(host))

SetAbort == InLoop("dfuDNLOAD_IDLE") /\ Transfers([cmd |-> "ABORT"], LAMBDA res, s :
    IF res < 0 THEN Return(host) ELSE At(host, "checked"))
SetClear == InLoop("dfuERROR") /\
    IF host.goal = "appIDLE" THEN ResetsTo(At(host, "checked"))
    ELSE Transfers([cmd |-> "CLRSTATUS"], LAMBDA res, s : IF res < 0 THEN Return(host) ELSE At(host, "checked"))
SetChecked ==
    /\ host.pc = "checked"
    /\ Transfers(Status, LAMBDA res, s :
            IF res <= 0 \/ s # host.goal THEN Return(host) ELSE {[host EXCEPT !.pc = "loop", !.seen = s]})

-----------------------------------------------------------------------------
\* download
Check ==
    /\ host.pc = "check"
    /\ Transfers(Status, LAMBDA res, s :
            IF res < 0 THEN Done(host, -1)
            ELSE UNION {LET h == [host EXCEPT !.st = x]
                        IN  IF x = "dfuIDLE" THEN At(h, "send") ELSE SetState(h, "dfuIDLE", "send") :
                            x \in IF res > 0 THEN {s} ELSE AnyState})

\* A mutant: only a negative result is a failure.
SendBlockLenient ==
    /\ host.pc = "send"
    /\ LET h == IF host.block = 1 THEN [host EXCEPT !.began = dev.state] ELSE host
       IN  Transfers([cmd |-> "DNLOAD", block |-> host.block], LAMBDA res, s :
                IF res < 0 THEN Done(h, -5) ELSE At(h, "poll"))

SendBlock ==
    /\ host.pc = "send"
    /\ LET h == IF host.block = 1 THEN [host EXCEPT !.began = dev.state] ELSE host
       IN  Transfers([cmd |-> "DNLOAD", block |-> host.block], LAMBDA res, s :
                IF res <= 0 THEN Done(h, -5) ELSE At(h, "poll"))

\* Mutants: it does not give up in dfuERROR; it ends without the last, empty block.
PollStateForEver ==
    /\ host.pc = "poll"
    /\ Transfers(Status, LAMBDA res, s :
            IF res <= 0 THEN Done(host, -5)
            ELSE IF s # "dfuDNLOAD_IDLE" THEN {host}
            ELSE {[host EXCEPT !.block = @ + 1, !.pc = IF host.block < Blocks THEN "send" ELSE "zero"]})
PollStateNoEnd ==
    /\ host.pc = "poll"
    /\ Transfers(Status, LAMBDA res, s :
            IF res <= 0 \/ s = "dfuERROR" THEN Done(host, -5)
            ELSE IF s # "dfuDNLOAD_IDLE" THEN {host}
            ELSE {[host EXCEPT !.block = @ + 1, !.pc = IF host.block < Blocks THEN "send" ELSE "final"]})
\* poll_state
PollState ==
    /\ host.pc = "poll"
    /\ Transfers(Status, LAMBDA res, s :
            IF res <= 0 \/ s = "dfuERROR" THEN Done(host, -5)
            ELSE IF s # "dfuDNLOAD_IDLE" THEN {host}
            ELSE {[host EXCEPT !.block = @ + 1, !.pc = IF host.block < Blocks THEN "send" ELSE "zero"]})

SendZero ==
    /\ host.pc = "zero"
    /\ Transfers([cmd |-> "DNLOAD", block |-> 0], LAMBDA res, s :
            IF res < 0 THEN Done(host, -6) ELSE {[host EXCEPT !.pc = "manifest", !.ret = 5]})

\* A mutant: the device that manifests is taken for done.
AwaitManifestEarly ==
    /\ host.pc = "manifest"
    /\ Transfers(Status, LAMBDA res, s :
            LET h == [host EXCEPT !.st = s] IN
            CASE res <= 0 \/ s \in {"dfuMANIFEST", "dfuIDLE", "appIDLE"} -> At(h, "final")
              [] res > 0 /\ s = "dfuMANIFEST_WAIT_RESET" -> At(h, "reset")
              [] res > 0 /\ s = "dfuERROR" -> SetState([h EXCEPT !.ret = -7], "dfuIDLE", "done")
              [] OTHER -> {h})

\* The loop after it: no answer, or NO_DEVICE, means that the device has gone and all is
\* well; the status of an earlier call is the one looked at in the end.
AwaitManifest ==
    /\ host.pc = "manifest"
    /\ Transfers(Status, LAMBDA res, s :
            LET h == [host EXCEPT !.st = s] IN
            CASE res = 0 -> At(host, "final")
              [] res < 0 -> At(host, "final") \cup At([host EXCEPT !.ret = OtherError], "final")
              [] res > 0 /\ s = "dfuMANIFEST_WAIT_RESET" -> At(h, "reset")
              [] res > 0 /\ s = "dfuERROR" -> SetState([h EXCEPT !.ret = -7], "dfuIDLE", "done")
              [] res > 0 /\ s \in {"dfuIDLE", "appIDLE"} -> At(h, "final")
              [] OTHER -> {h})

ResetDevice ==
    /\ host.pc = "reset"
    /\ \/ ResetsTo(At(host, "final"))
       \/ /\ faults < MaxFaults /\ faults' = faults + 1
          /\ host' = [host EXCEPT !.pc = "final", !.ret = -7] /\ UNCHANGED <<dev, bus, want, runs>>

Final ==
    /\ host.pc = "final"
    /\ host' \in IF host.st = "dfuIDLE" THEN SetState(host, "appIDLE", "done") ELSE At(host, "done")
    /\ UNCHANGED <<dev, bus, want, faults, runs>>

-----------------------------------------------------------------------------
\* The process ends or is killed; a device that was pulled is put back.
Leaves ==
    /\ host.pc = "done" /\ host' = Fresh
    /\ UNCHANGED <<dev, bus, want, faults, runs>>
Killed ==
    /\ host.pc \notin {"idle", "done"} /\ runs < MaxRuns
    /\ host' = [Fresh EXCEPT !.ret = Signal]
    /\ UNCHANGED <<dev, bus, want, faults, runs>>

Replug ==
    /\ ~dev.present /\ host.pc = "idle" /\ runs < MaxRuns
    /\ dev' = [dev EXCEPT !.present = TRUE, !.state = "dfuIDLE", !.image = <<>>]
    /\ UNCHANGED <<host, bus, want, faults, runs>>

Init ==
    /\ \E k \in Kinds, s \in {"appIDLE", "dfuIDLE"} :
        dev = [kind |-> k, state |-> s, image |-> <<>>, flash |-> <<>>, done |-> FALSE, present |-> TRUE]
    /\ host = NewHost /\ bus = {} /\ want = <<>> /\ faults = 0 /\ runs = 0

HostSteps == \/ SetEnter \/ SetLeave \/ SetDetach \/ SetDetached \/ SetReset \/ SetAbort \/ SetClear \/ SetChecked
             \/ Check \/ SendBlock \/ PollState \/ SendZero \/ AwaitManifest \/ ResetDevice \/ Final
Next == HostSteps \/ GetsReady \/ Manifests \/ DeviceFails \/ Start \/ Leaves \/ Killed \/ Replug

\* The process runs on, and a device gets on with what it does.
Fairness == WF_vars(HostSteps) /\ WF_vars(GetsReady) /\ WF_vars(Manifests)
Spec == Init /\ [][Next]_vars /\ Fairness

-----------------------------------------------------------------------------
\* The places where a run stays for ever: set_state in a state it has no case for, and the
\* loop after the last block when the device did not see its end.
Hung ==
    \/ host.pc = "loop" /\ host.seen \notin {host.goal, "appIDLE", "dfuIDLE", "dfuDNLOAD_IDLE", "dfuERROR"}
    \/ host.pc = "manifest" /\ dev.present /\ dev.state \notin {"dfuMANIFEST_SYNC", "dfuMANIFEST", "appIDLE",
                                            "dfuMANIFEST_WAIT_RESET", "dfuERROR", "dfuIDLE"}
Flawless == faults = host.faults

\* The device makes an image its firmware only when it is whole and in order, if the
\* download began in dfuIDLE; transfers lost, errors and runs killed included.
ManifestsWhole == [][dev'.flash # dev.flash /\ host.began = "dfuIDLE" => dev'.flash = Whole]_vars

\* A download that gives up before its end (-1 to -5) leaves the firmware as it was, or as
\* the device completes it when an earlier run was killed late, and one that met no fault
\* and succeeds has replaced it, if the device takes early polls.
OutcomeIsTrue ==
    host.pc = "done" =>
        /\ host.ret \in -5 .. -1 => dev.flash \in host.flash
        /\ host.ret = 5 /\ Flawless /\ host.began = "dfuIDLE" /\ ~dev.kind.strict => dev.flash = Whole

\* A run is for the device that the file names or, when that is not on the bus, the one
\* that the command line names.
NamedDeviceOnly ==
    host.pc \notin {"idle", "done"} => want.file = 1 \/ (want.arg = 1 /\ ~OnBus(bus, want.file))

\* Every run comes to an end, except in the places where it hangs; and one that meets no
\* fault hangs only when it found the device in a state that set_state has no way out of.
Ends ==
    LET Cause == ~Flawless \/ host.met \notin {"dfuIDLE", "dfuDNLOAD_IDLE", "dfuERROR"}
    IN  host.pc # "idle" ~> (host.pc \in {"idle", "done"} \/ (Hung /\ Cause))

\* With a device that is in DFU mode and takes early polls the image is written, unless a
\* fault comes between or the user kills the run.
Completes ==
    host.pc = "check" /\ dev.state = "dfuIDLE" /\ ~dev.kind.strict ~>
        \/ host.pc = "done" /\ dev.flash = Whole
        \/ host.pc = "idle" /\ host.ret = Signal
        \/ host.pc # "idle" /\ ~Flawless
=============================================================================
