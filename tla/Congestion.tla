------------------------------- MODULE Congestion -------------------------------
(***************************************************************************)
(* The congestion controllers of pkg/congestion, each with a sender that   *)
(* keeps to its window and a network that acknowledges or loses what was   *)
(* sent.  Sizes are in a small unit and times in ticks; a smoothed RTT is  *)
(* cut off to a whole tick.  CUBIC's clock is the value its cubic function *)
(* has by now, which never falls while an epoch lasts and starts at the    *)
(* window that the loss left; BBR's timers expire whenever they like.      *)
(***************************************************************************)
EXTENDS Integers, SequencesExt

CONSTANTS
    Algorithms,     \* a set of "reno", "cubic", "vegas", "bbr"
    PacketSize, InitialCWnd, MaxCWnd,
    DefaultSsthresh,
    Rtts,           \* the round trip times that are measured, 0 if too short
    Ticks,          \* ticks in a second
    MaxSamples,     \* how many samples BBR's estimate has
    MaxLosses,      \* a bound on the losses
    MaxDuplicates   \* a bound on the duplicate ACKs

(* What NewBaseController is given; a greatest window below two packets    *)
(* would be the only one, and DefaultSsthresh is 64 kB.                    *)
ASSUME CongestionAssumption ==
    /\ {PacketSize, Ticks} \subseteq Nat \ {0}
    /\ {InitialCWnd, MaxCWnd, DefaultSsthresh, MaxSamples} \subseteq Nat
    /\ 2 * PacketSize <= MaxCWnd /\ 2 * PacketSize <= DefaultSsthresh
    /\ Rtts \subseteq Nat /\ Rtts # {} /\ IsFiniteSet(Rtts)
    /\ Algorithms \subseteq {"reno", "cubic", "vegas", "bbr"}

VARIABLES
    algorithm,
    cwnd, ssthresh,
    rtt, minRTT,
    inFlight,       \* what the controller believes is under way
    touched,        \* the window was set since it was made
    dupAckCount,    \* Reno: 4 stands for more than 3
    target,         \* CUBIC: the value of its function
    bbr,            \* BBR: [samples, state]
    outstanding,    \* the packets under way
    losses,         \* history: how many were lost
    duplicates      \* how many duplicate ACKs there were

rttVars == <<rtt, minRTT>>
ccVars == <<algorithm, cwnd, ssthresh, rttVars, inFlight, touched, dupAckCount, target, bbr,
            outstanding, losses, duplicates>>

MinCWnd == 2 * PacketSize
Packets == Max({InitialCWnd, MaxCWnd}) \div PacketSize

CongestionTypeOK ==
    /\ algorithm \in Algorithms
    /\ {cwnd, ssthresh, target} \subseteq Nat /\ minRTT \in Rtts \cup {0} /\ rtt \in 0..Max(Rtts)
    /\ dupAckCount \in 0..4 /\ touched \in BOOLEAN
    /\ Len(bbr.samples) <= MaxSamples
    /\ bbr.state \in {"STARTUP", "DRAIN", "PROBE_BW", "PROBE_RTT"}
    /\ outstanding \in 0..Packets

CongestionInit ==
    /\ algorithm \in Algorithms
    /\ cwnd = InitialCWnd /\ ssthresh = DefaultSsthresh
    /\ rtt = 0 /\ minRTT = 0 /\ inFlight = 0 /\ touched = FALSE
    /\ dupAckCount = 0 /\ target = InitialCWnd
    /\ bbr = [samples |-> <<>>, state |-> "STARTUP"]
    /\ outstanding = 0 /\ losses = 0 /\ duplicates = 0

(* Mutant: the upper bound only.                                           *)
setCongestionWindowMax(n) == cwnd' = Min({n, MaxCWnd}) /\ touched' = TRUE
setCongestionWindow(n) == cwnd' = Min({Max({n, MinCWnd}), MaxCWnd}) /\ touched' = TRUE

(* An RTT of 0 counts as none.                                             *)
updateRTT(new) ==
    IF rtt = 0 THEN rtt' = new /\ minRTT' = new
    ELSE /\ rtt' = (7 * rtt + new) \div 8
         /\ minRTT' = IF new < minRTT THEN new ELSE minRTT

------------------------------------------------------------------------------
(* What each algorithm makes of an ACK.                                    *)
Halved == Max({cwnd \div 2, MinCWnd})

RenoDuplicate ==
    /\ dupAckCount' = IF dupAckCount < 4 THEN dupAckCount + 1 ELSE 4
    /\ IF dupAckCount = 2 THEN ssthresh' = Halved ELSE UNCHANGED ssthresh
    /\ setCongestionWindow(CASE dupAckCount < 2 -> cwnd
                             [] dupAckCount = 2 -> Halved + 3 * PacketSize
                             [] OTHER -> cwnd + PacketSize)
    /\ UNCHANGED <<target, bbr>>

Increase == IF cwnd < ssthresh THEN PacketSize ELSE (PacketSize * PacketSize) \div cwnd

(* Mutant: no increase beyond the threshold.                               *)
RenoAckStays ==
    /\ dupAckCount' = 0
    /\ setCongestionWindow(IF cwnd < ssthresh THEN cwnd + PacketSize ELSE cwnd)
    /\ UNCHANGED <<ssthresh, target, bbr>>

RenoAck ==
    /\ dupAckCount' = 0
    /\ setCongestionWindow(cwnd + Increase)
    /\ UNCHANGED <<ssthresh, target, bbr>>

CubicAck ==
    /\ IF cwnd < ssthresh THEN setCongestionWindow(cwnd + PacketSize) /\ UNCHANGED target
       ELSE \E now \in target..(MaxCWnd + PacketSize) :
              /\ target' = now
              /\ setCongestionWindow(IF now > cwnd THEN cwnd + Min({now - cwnd, PacketSize}) ELSE cwnd)
    /\ UNCHANGED <<ssthresh, dupAckCount, bbr>>

(* The rates are per second, what they are compared with is not; and it is *)
(* the RTT just measured that counts, not the smoothed one.                *)
VegasAck(size, new) ==
    LET diff == Ticks * (cwnd * new - size * minRTT') IN
    /\ IF minRTT' = 0 \/ new = 0 THEN UNCHANGED <<cwnd, touched>>
       ELSE setCongestionWindow(
              CASE diff < 3 * PacketSize * new * minRTT' -> cwnd + PacketSize
                [] diff > 6 * PacketSize * new * minRTT' -> cwnd - PacketSize
                [] OTHER -> cwnd)
    /\ UNCHANGED <<ssthresh, dupAckCount, target, bbr>>

(* A rate over an RTT of 0 is infinite, and converts to the least integer. *)
Bandwidth(size, new) == IF new = 0 THEN -1 ELSE (size * Ticks) \div new
Estimate(samples) == Max({0} \cup ToSet(samples))

updateBandwidth(bw) ==
    LET samples == Append(bbr.samples, bw)
    IN  IF Len(samples) > MaxSamples THEN Tail(samples) ELSE samples

BBRState(bw, estimate, flying) ==
    CASE bbr.state = "STARTUP" -> {IF 10 * bw < 9 * estimate THEN "DRAIN" ELSE "STARTUP"}
      [] bbr.state = "DRAIN" -> {IF flying < (estimate * minRTT') \div Ticks THEN "PROBE_BW" ELSE "DRAIN"}
      [] OTHER -> {"PROBE_BW", "PROBE_RTT"}

(* The window of PROBE_RTT is overwritten at once.                         *)
BBRAck(size, new) ==
    LET bw == Bandwidth(size, new)
        samples == updateBandwidth(bw)
        estimate == Estimate(samples)
    IN
    /\ \E state \in BBRState(bw, estimate, inFlight') : bbr' = [samples |-> samples, state |-> state]
    /\ setCongestionWindow((2 * estimate * minRTT') \div Ticks)
    /\ UNCHANGED <<ssthresh, dupAckCount, target>>

OnAckReceived(size, new) ==
    /\ inFlight' = inFlight - size
    /\ updateRTT(new)
    /\ CASE algorithm = "reno" -> IF size = 0 THEN RenoDuplicate ELSE RenoAck
         [] algorithm = "cubic" -> CubicAck
         [] algorithm = "vegas" -> VegasAck(size, new)
         [] algorithm = "bbr" -> BBRAck(size, new)

(* What each algorithm makes of a loss.                                    *)
RenoLost == ssthresh' = Halved /\ setCongestionWindow(Halved) /\ UNCHANGED target

CubicLost ==
    LET left == (7 * cwnd) \div 10
    IN  ssthresh' = left /\ setCongestionWindow(left) /\ target' = left

VegasLost == ssthresh' = cwnd \div 2 /\ setCongestionWindow(cwnd \div 2) /\ UNCHANGED target

BBRLost == setCongestionWindow((9 * cwnd) \div 10) /\ UNCHANGED <<ssthresh, target>>

OnPacketLost ==
    /\ CASE algorithm = "reno" -> RenoLost
         [] algorithm = "cubic" -> CubicLost
         [] algorithm = "vegas" -> VegasLost
         [] algorithm = "bbr" -> BBRLost
    /\ UNCHANGED <<inFlight, rttVars, dupAckCount, bbr>>

------------------------------------------------------------------------------
(* The sender and its network.                                             *)
Send ==
    /\ (outstanding + 1) * PacketSize <= cwnd
    /\ outstanding' = outstanding + 1
    /\ inFlight' = inFlight + PacketSize
    /\ UNCHANGED <<algorithm, cwnd, ssthresh, rttVars, touched, dupAckCount, target, bbr, losses, duplicates>>

Acked ==
    /\ outstanding > 0 /\ outstanding' = outstanding - 1
    /\ \E new \in Rtts : OnAckReceived(PacketSize, new)
    /\ UNCHANGED <<algorithm, losses, duplicates>>

Duplicated ==
    /\ outstanding > 0
    /\ duplicates < MaxDuplicates /\ duplicates' = duplicates + 1
    /\ \E new \in Rtts : OnAckReceived(0, new)
    /\ UNCHANGED <<algorithm, outstanding, losses>>

Lost ==
    /\ outstanding > 0 /\ losses < MaxLosses
    /\ outstanding' = outstanding - 1 /\ losses' = losses + 1
    /\ OnPacketLost
    /\ UNCHANGED <<algorithm, duplicates>>

CongestionNext == Send \/ Acked \/ Duplicated \/ Lost

(* The sender always has something to send, what it sends is acknowledged  *)
(* time and again, and CUBIC's clock goes on.                              *)
CongestionFairness == WF_ccVars(Send) /\ SF_ccVars(Acked) /\ SF_ccVars(algorithm = "cubic" /\ Acked /\ target' # target)

CongestionSpec == CongestionInit /\ [][CongestionNext]_ccVars /\ CongestionFairness

------------------------------------------------------------------------------
(* "Window protection" (README.md:314): whatever is measured and lost, the *)
(* window is within two packets and the greatest one, once it was set, and *)
(* the threshold of Reno is not below two packets either.  The initial     *)
(* window is taken as it is (controller.go:63-129).                        *)
WindowProtected ==
    /\ touched => MinCWnd <= cwnd /\ cwnd <= MaxCWnd
    /\ algorithm = "reno" => ssthresh >= MinCWnd

(* The least RTT is not above the smoothed one, although that is cut off   *)
(* at every step (controller.go:74-86).  What the controller believes to   *)
(* be in flight is what is, and everything that was ever lost: no call     *)
(* takes a lost packet off, so GetStatistics().InFlight drifts upwards     *)
(* by every loss and by nothing else (reno.go:26-76).                      *)
EstimatesHold ==
    /\ minRTT <= rtt
    /\ inFlight = PacketSize * (outstanding + losses)

(* Together: what a sender may rely on (controller.go:63-129).             *)
WindowHolds == CongestionTypeOK /\ WindowProtected /\ EstimatesHold

(* The window comes back: with Reno and CUBIC, when nothing is lost or     *)
(* repeated any more, ACKs open it until it is as wide as it may be.       *)
WindowRecovers ==
    algorithm \in {"reno", "cubic"} /\ losses = MaxLosses /\ duplicates = MaxDuplicates ~> cwnd = MaxCWnd
==============================================================================
