------------------------------ MODULE McpBounds ------------------------------
(***************************************************************************)
(* How the MCP transport divides its memory (Bounds::new, reservations and *)
(* largest_fitting in src/frontends/mcp_transport.rs): four binary         *)
(* searches in a row give the input and envelope ceilings, and what is     *)
(* left is divided into request slots.  Each step halves one interval.     *)
(***************************************************************************)
EXTENDS Integers

CONSTANTS
    LimitSets   \* the configured limits that are tried

(* Limits::validate refuses a limit that is 0. *)
BoundsAssumption ==
    LimitSets \subseteq
        [buffered_bytes : Nat, envelope_bytes : Nat, response_bound : Nat,
         draft_mime_bytes : Nat, drafts : BOOLEAN, accounts : Nat, schema_bytes : Nat,
         token_bytes : Nat, active_requests : Nat \ {0}, queued_requests : Nat \ {0}]

VARIABLES
    limits,     \* one of them
    phase,      \* "reserved_input", "reserved_envelope", "input", "envelope", "done", "refused"
    lower, upper,
    found       \* what each finished search returned

boundsVars == <<limits, phase, lower, upper, found>>

KiB == 1024
MiB == 1024 * 1024
Lesser(a, b) == IF a < b THEN a ELSE b
Greater(a, b) == IF a > b THEN a ELSE b

DraftMime == IF limits.drafts THEN limits.draft_mime_bytes ELSE 0

(* reservations *)
Structure(envelope) ==
    64 * KiB + 64 * Lesser(limits.accounts * 100, envelope \div 3)
      + 4096 * Lesser(limits.accounts, envelope \div 160)
      + 1024 * Lesser(256, envelope \div 160)
Output(input, envelope) ==
    Greater(Greater(3 * envelope + input + 1024, limits.schema_bytes + input + 1024), 32 * KiB)

(* min(m * input, n * input + extra), written so that it stays small: beyond
   20000 bytes the second is the smaller one *)
Reserve(m, n, extra, input) == n * input + Lesser((m - n) * Lesser(input, 20000), extra)
RequestInput(input) == Reserve(128, 4, 2 * MiB, input)
Control(input, envelope) ==
    LET output == Output(input, envelope)
    IN  Reserve(272, 12, 4 * MiB, input) + RequestInput(input)
          + 2 * output + 2 * Lesser(output, 2 * MiB)
PerRequest(input, envelope) ==
    RequestInput(input) + 3 * envelope + Structure(envelope) + 2 * DraftMime

Available == limits.buffered_bytes - 64 * KiB
Fits(input, envelope) == Control(input, envelope) + PerRequest(input, envelope) <= Available

InputLimit ==
    Lesser(limits.envelope_bytes,
           IF limits.drafts THEN 6 * limits.draft_mime_bytes + 256 * KiB ELSE MiB)
ResponseLimit == Lesser(limits.response_bound, limits.envelope_bytes)

(* The interval of each search *)
Lowest(p) == IF p = "envelope" THEN 0 ELSE 1024
Highest(p) ==
    CASE p = "reserved_input" ->
             IF limits.drafts THEN 1024
             ELSE Lesser(InputLimit, 6 * 32 * 4096 + 2 * limits.token_bytes + 4096)
      [] p = "reserved_envelope" ->
             Lesser(ResponseLimit, IF limits.drafts THEN 64 * KiB ELSE 4 * MiB)
      [] p = "input" -> InputLimit
      [] OTHER -> ResponseLimit

(* Mutant: the input is sized before any response is reserved. *)
CandidateUnreserved(p, candidate) ==
    CASE p \in {"reserved_input", "input"} -> Fits(candidate, 1024)
      [] p = "reserved_envelope" -> Fits(found.reserved_input, candidate)
      [] OTHER -> Fits(found.input, candidate)

(* What each search asks of a candidate *)
CandidateFits(p, candidate) ==
    CASE p = "reserved_input" -> Fits(candidate, 1024)
      [] p = "reserved_envelope" -> Fits(found.reserved_input, candidate)
      [] p = "input" -> Fits(candidate, found.reserved_envelope)
      [] OTHER -> Fits(found.input, candidate)

Follower == [reserved_input |-> "reserved_envelope", reserved_envelope |-> "input",
             input |-> "envelope", envelope |-> "done"]

BoundsInit ==
    /\ limits \in LimitSets
    /\ found = [reserved_input |-> 0, reserved_envelope |-> 0, input |-> 0, envelope |-> 0]
    /\ phase = IF Available >= 0 /\ Fits(1024, 1024) THEN "reserved_input" ELSE "refused"
    /\ lower = 1024
    /\ upper = Highest("reserved_input")

(* Mutant: the middle is rounded down. *)
MiddleDown == lower + (upper - lower) \div 2
Middle == lower + (upper - lower + 1) \div 2

(* largest_fitting, one turn of its loop *)
Halve ==
    /\ phase \in DOMAIN Follower
    /\ lower < upper
    /\ IF CandidateFits(phase, Middle)
       THEN lower' = Middle /\ UNCHANGED upper
       ELSE upper' = Middle - 1 /\ UNCHANGED lower
    /\ UNCHANGED <<limits, phase, found>>

(* The search is over; the next one begins, and the last may still refuse. *)
Finish ==
    /\ phase \in DOMAIN Follower
    /\ lower >= upper
    /\ found' = [found EXCEPT ![phase] = lower]
    /\ LET next == IF phase = "envelope" /\ lower < 1024 THEN "refused" ELSE Follower[phase]
       IN  /\ phase' = next
           /\ lower' = Lowest(next)
           /\ upper' = IF next \in DOMAIN Follower THEN Highest(next) ELSE 0
    /\ UNCHANGED limits

BoundsNext == Halve \/ Finish

BoundsSpec == BoundsInit /\ [][BoundsNext]_boundsVars /\ WF_boundsVars(BoundsNext)

-----------------------------------------------------------------------------
RequestSlots ==
    Lesser((Available - Control(found.input, found.envelope))
                \div PerRequest(found.input, found.envelope),
           limits.active_requests + limits.queued_requests)

(* What is promised: the control storage and every slot together stay within the
   configured bytes, and there is at least one slot. *)
WithinBudget ==
    phase = "done" =>
        /\ RequestSlots >= 1
        /\ 64 * KiB + Control(found.input, found.envelope)
             + RequestSlots * PerRequest(found.input, found.envelope) <= limits.buffered_bytes

(* The searches find the largest value although they never try the others: what
   is found fits and the next value does not, or is out of range. *)
Largest ==
    \A p \in DOMAIN Follower :
        (phase \notin {"refused", p} /\ found[p] # 0) =>
            /\ found[p] <= Highest(p) \/ found[p] = Lowest(p)
            /\ found[p] >= Highest(p) \/ ~CandidateFits(p, found[p] + 1)
            /\ CandidateFits(p, found[p])

(* "Reserve bounded input and composition storage before sizing responses": the
   later searches never take back what the earlier ones reserved. *)
ReservedIsKept ==
    phase = "done" =>
        /\ found.input >= found.reserved_input
        /\ found.envelope >= Lesser(found.reserved_envelope, ResponseLimit)

(* TransportBounds: control storage and all slots fit the configured bytes
   (WithinBudget), each search finds the largest value that fits (Largest), and
   later ones take nothing back from earlier ones (ReservedIsKept). *)
StorageBounded == WithinBudget /\ Largest /\ ReservedIsKept
=============================================================================
