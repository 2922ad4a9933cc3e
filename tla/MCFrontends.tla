---------------------------- MODULE MCFrontends ----------------------------
(* The ways in: the MCP transport and the storage it reserves, the client and the
   server of isolated operation, and what front ends tell of an operation that may
   have happened. They are independent of each other here: component says whose
   behaviour it is, and the others stay at an initial state. *)
EXTENDS McpTransport, McpBounds, IsolationSession, IsolationServer, Replies, TLC

VARIABLES
    component   \* whose behaviour this is

suiteVars == <<component, vars, sessionVars, serverVars, boundsVars, repliesVars>>

(* Two drafts and one operation that is safe to repeat. *)
CallKind == [c1 |-> "save", c2 |-> "save", c3 |-> "status"]

(* A grant whose sessions are bounded before the server is full, and one whose
   are not. *)
GrantSessions == [g1 |-> 1, g2 |-> 2]

(* Configured limits: small, default and large values of each, with and without
   drafts. *)
K == 1024
M == 1024 * 1024
ConfiguredLimits ==
    [buffered_bytes : {32 * K, 600 * K, 2 * M, 9 * M, 64 * M},
     envelope_bytes : {K, 200 * K, 16 * M},
     response_bound : {512, 64 * K, 16 * M}, draft_mime_bytes : {16 * K, M}, drafts : BOOLEAN,
     accounts : {1, 256}, schema_bytes : {20 * K, 300 * K}, token_bytes : {2 * K},
     active_requests : {1, 16}, queued_requests : {1}]

(* No definition tells one id from another. *)
IdSymmetry == Permutations(Ids)

-----------------------------------------------------------------------------
(* While another component is at work there is one reply and one set of limits. *)
OneReply == kind = "save" /\ adapter = "embedded" /\ frontend = "mcp"
OneLimit == limits = CHOOSE l \in ConfiguredLimits : l.drafts /\ l.buffered_bytes = 64 * M

SuiteInit ==
    /\ Init /\ SessionInit /\ ServerInit /\ RepliesInit /\ BoundsInit
    /\ \/ component \in {"transport", "session", "server"} /\ OneLimit /\ OneReply
       \/ component = "bounds" /\ OneReply
       \/ component = "replies" /\ OneLimit

TransportStep ==
    /\ component = "transport" /\ Next
    /\ UNCHANGED <<component, sessionVars, serverVars, boundsVars, repliesVars>>
SessionStep ==
    /\ component = "session" /\ SessionNext
    /\ UNCHANGED <<component, vars, serverVars, boundsVars, repliesVars>>
ServerStep ==
    /\ component = "server" /\ ServerNext
    /\ UNCHANGED <<component, vars, sessionVars, boundsVars, repliesVars>>
BoundsStep ==
    /\ component = "bounds" /\ BoundsNext
    /\ UNCHANGED <<component, vars, sessionVars, serverVars, repliesVars>>
RepliesStep ==
    /\ component = "replies" /\ RepliesNext
    /\ UNCHANGED <<component, vars, sessionVars, serverVars, boundsVars>>

SuiteNext == TransportStep \/ SessionStep \/ ServerStep \/ BoundsStep \/ RepliesStep
SuiteSpec == SuiteInit /\ [][SuiteNext]_suiteVars

-----------------------------------------------------------------------------
ASSUME InstanceAssumption ==
    /\ McpTransportAssumption /\ BoundsAssumption
    /\ IsolationSessionAssumption /\ IsolationServerAssumption
=============================================================================
