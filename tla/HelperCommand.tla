---------------------------- MODULE HelperCommand ----------------------------
(* Reading a secret from a helper program (credentials/command.rs): the      *)
(* resolver polls the helper's two pipes and its exit under a deadline, and  *)
(* when it returns it kills the helper's process group and reaps its leader. *)
(*                                                                           *)
(* The helper is a leader and one descendant, which inherits the pipes, may  *)
(* outlive the leader and may leave the process group.  A byte of output is  *)
(* "s" or one of the line ends "r", "n"; of stderr only the length matters.  *)
(* The leader's process ID is its own until it is reaped and no process of   *)
(* the group is left; then the kernel may give it to a stranger.             *)
EXTENDS Integers, Sequences

CONSTANTS
    SecretBytes, StderrBytes,  \* limits.secret_bytes, limits.stderr_bytes
    ReadBytes,                 \* what one read returns at most (1024)
    Bytes,                     \* the bytes of output told apart
    PipeBytes,                 \* the capacity of a pipe
    MaxWritten, MaxNoise       \* bounds: the bytes the helper writes to stdout, to stderr

VARIABLES
    running, group, holds,  \* of each helper process: alive, in the group, the pipes it has open
    exit,                   \* the leader's exit status, "none" before it exits
    pid,                    \* whose process ID the leader's is: "leader", "free", "stranger"
    out, err,               \* the bytes in the stdout pipe, and how many in the stderr pipe
    written,                \* all the helper wrote to stdout
    noise,                  \* how much it wrote to stderr
    pc, output, stderr_bytes, eof, progressed, result,
    expired,                \* the deadline has passed
    strangers_killed

(* An empty read of a pipe means that nothing is in it. *)
HelperAssumption == ReadBytes \in Nat \ {0} /\ SecretBytes \in Nat /\ StderrBytes \in Nat

helper == <<running, group, holds, exit, written, noise>>
pipes == <<out, err>>
reader == <<output, stderr_bytes, eof, progressed>>
helperVars == <<helper, pid, pipes, pc, reader, result, expired, strangers_killed>>

Processes == {"leader", "descendant"}
Pipes == {"stdout", "stderr"}
Held(pipe) == \E p \in Processes : running[p] /\ pipe \in holds[p]
--------------------------------------------------------------------------
HelperInit ==
    /\ running = [p \in Processes |-> FALSE] /\ group = {} /\ holds = [p \in Processes |-> {}]
    /\ exit = "none" /\ pid = "free" /\ out = <<>> /\ err = 0 /\ written = <<>> /\ noise = 0
    /\ pc = "inspect" /\ output = <<>> /\ stderr_bytes = 0 /\ eof = {} /\ progressed = FALSE
    /\ result = <<>> /\ expired = FALSE /\ strangers_killed = FALSE

(* Returning drops `Running`: kill, then wait. *)
Return(r) == result' = r /\ pc' = "kill"

(* inspect, spawn, and the pipes made nonblocking: an error of one of them  *)
(* ends the resolution, the last one with the helper already running.       *)
Start ==
    /\ pc = "inspect"
    /\ \/ /\ running' = [running EXCEPT !["leader"] = TRUE] /\ group' = {"leader"}
          /\ holds' = [holds EXCEPT !["leader"] = Pipes] /\ pid' = "leader"
          /\ \/ pc' = "top" /\ UNCHANGED result
             \/ Return(<<"Unavailable">>)
       \/ /\ \E e \in {"AccessDenied", "Unavailable"} : result' = <<e>>
          /\ pc' = "done" /\ UNCHANGED <<running, group, holds, pid>>
    /\ UNCHANGED <<exit, written, noise, pipes, reader, expired, strangers_killed>>

Top ==
    /\ pc = "top" /\ progressed' = FALSE
    /\ IF expired THEN Return(<<"Unavailable">>) ELSE pc' = "stdout" /\ UNCHANGED result
    /\ UNCHANGED <<helper, pid, pipes, output, stderr_bytes, eof, expired, strangers_killed>>

(* read_chunk on stdout: data, end of file, nothing yet, or an error.       *)
Least(a, b) == IF a < b THEN a ELSE b
ReadStdout ==
    /\ pc = "stdout"
    /\ LET n == Least(Len(out), ReadBytes)
       IN  \/ /\ "stdout" \notin eof /\ n > 0 /\ out' = SubSeq(out, n + 1, Len(out))
              /\ IF Len(output) + n > SecretBytes + 2
                 THEN Return(<<"InvalidSecret">>) /\ UNCHANGED <<output, progressed>>
                 ELSE /\ output' = output \o SubSeq(out, 1, n) /\ progressed' = TRUE
                      /\ pc' = "stderr" /\ UNCHANGED result
              /\ UNCHANGED eof
           \/ /\ "stdout" \notin eof => n = 0
              /\ eof' = IF Held("stdout") THEN eof ELSE eof \cup {"stdout"}
              /\ pc' = "stderr" /\ UNCHANGED <<out, output, progressed, result>>
           \/ /\ "stdout" \notin eof /\ Return(<<"Unavailable">>)
              /\ UNCHANGED <<out, output, eof, progressed>>
    /\ UNCHANGED <<helper, pid, err, stderr_bytes, expired, strangers_killed>>

ReadStderr ==
    /\ pc = "stderr"
    /\ LET n == Least(err, ReadBytes)
       IN  \/ /\ "stderr" \notin eof /\ n > 0 /\ err' = err - n /\ stderr_bytes' = stderr_bytes + n
              /\ IF stderr_bytes' > StderrBytes
                 THEN Return(<<"Unavailable">>) /\ UNCHANGED progressed
                 ELSE pc' = "wait" /\ progressed' = TRUE /\ UNCHANGED result
              /\ UNCHANGED eof
           \/ /\ "stderr" \notin eof => n = 0
              /\ eof' = IF Held("stderr") THEN eof ELSE eof \cup {"stderr"}
              /\ pc' = "wait" /\ UNCHANGED <<err, stderr_bytes, progressed, result>>
           \/ /\ "stderr" \notin eof /\ Return(<<"Unavailable">>)
              /\ UNCHANGED <<err, stderr_bytes, eof, progressed>>
    /\ UNCHANGED <<helper, pid, out, output, expired, strangers_killed>>

(* waitid with NOWAIT sees the exit and leaves the leader unreaped; it can  *)
(* fail.                                                                    *)
Released(p) == IF running["descendant"] /\ "descendant" \in group THEN p ELSE "free"
WaitReaps(p) == Released(p)
WaitKeeps(p) == p
AllClosed == eof = Pipes
Wait ==
    /\ pc = "wait"
    /\ LET again == IF progressed THEN "top" ELSE "poll"
       IN  \/ exit = "none" /\ pc' = again /\ UNCHANGED <<pid, result>>
           \/ /\ exit = "success" /\ pid' = WaitKeeps(pid)
              /\ pc' = (IF AllClosed THEN "finish" ELSE again) /\ UNCHANGED result
           \/ exit = "failure" /\ pid' = WaitKeeps(pid) /\ Return(<<"Unavailable">>)
           \/ Return(<<"Unavailable">>) /\ UNCHANGED pid
    /\ UNCHANGED <<helper, pipes, reader, expired, strangers_killed>>

(* poll: a live pipe has data or no writer, the deadline passes, or, where  *)
(* no pipe is live, ten milliseconds pass; EINTR ends it at any time.       *)
ReadyPipe == \/ "stdout" \notin eof /\ (Len(out) > 0 \/ ~Held("stdout"))
             \/ "stderr" \notin eof /\ (err > 0 \/ ~Held("stderr"))
PollsForPipes == ReadyPipe \/ eof = Pipes
PollReturns == ReadyPipe \/ expired \/ eof = Pipes
Poll ==
    /\ pc = "poll" /\ PollReturns /\ pc' = "top"
    /\ UNCHANGED <<helper, pid, pipes, reader, result, expired, strangers_killed>>
Interrupt ==
    /\ pc = "poll" /\ ~PollReturns
    /\ \/ pc' = "top" /\ UNCHANGED result
       \/ Return(<<"Unavailable">>)
    /\ UNCHANGED <<helper, pid, pipes, reader, expired, strangers_killed>>

(* One line end is taken off, and the rest must be a secret.                *)
LastIs(s, b) == s # <<>> /\ s[Len(s)] = b
DropLast(s) == SubSeq(s, 1, Len(s) - 1)
StripLineEnd(s) ==
    IF ~LastIs(s, "n") THEN s
    ELSE IF LastIs(DropLast(s), "r") THEN DropLast(DropLast(s)) ELSE DropLast(s)
Finish ==
    /\ pc = "finish"
    /\ LET secret == StripLineEnd(output)
       IN  Return(IF Len(secret) \in 1..SecretBytes THEN <<"secret", secret>> ELSE <<"InvalidSecret">>)
    /\ UNCHANGED <<helper, pid, pipes, reader, expired, strangers_killed>>

(* Running::drop: the group is killed while the leader's ID is still its    *)
(* own, then the leader is reaped.                                          *)
KilledGroup == group
Kill ==
    /\ pc = "kill" /\ pc' = "reap"
    /\ IF pid = "leader"
       THEN running' = [p \in Processes |-> running[p] /\ p \notin KilledGroup]
       ELSE UNCHANGED running
    /\ strangers_killed' = (pid = "stranger")
    /\ exit' = IF running["leader"] THEN "failure" ELSE exit
    /\ UNCHANGED <<group, holds, written, noise, pid, pipes, reader, result, expired>>
Reap ==
    /\ pc = "reap" /\ ~running["leader"] /\ pc' = "done" /\ pid' = Released(pid)
    /\ UNCHANGED <<helper, pipes, reader, result, expired, strangers_killed>>
--------------------------------------------------------------------------
(* The helper, which may do any of this at any time until the resolution is *)
(* over.                                                                    *)
Write(p) ==
    /\ running[p]
    /\ \/ /\ "stdout" \in holds[p] /\ Len(out) < PipeBytes /\ Len(written) < MaxWritten
          /\ \E b \in Bytes : out' = Append(out, b) /\ written' = Append(written, b)
          /\ UNCHANGED <<err, noise>>
       \/ /\ "stderr" \in holds[p] /\ err < PipeBytes /\ noise < MaxNoise
          /\ err' = err + 1 /\ noise' = noise + 1
          /\ UNCHANGED <<out, written>>
    /\ UNCHANGED <<running, group, holds, exit, pid, pc, reader, result, expired, strangers_killed>>
Close(p, pipe) ==
    /\ running[p] /\ pipe \in holds[p] /\ holds' = [holds EXCEPT ![p] = @ \ {pipe}]
    /\ UNCHANGED <<running, group, exit, written, noise, pid, pipes, pc, reader, result, expired,
                   strangers_killed>>
Fork ==
    /\ running["leader"] /\ ~running["descendant"] /\ holds["descendant"] = {}
    /\ "descendant" \notin group
    /\ running' = [running EXCEPT !["descendant"] = TRUE] /\ group' = group \cup {"descendant"}
    /\ holds' = [holds EXCEPT !["descendant"] = holds["leader"]]
    /\ UNCHANGED <<exit, written, noise, pid, pipes, pc, reader, result, expired, strangers_killed>>
LeaveGroup ==
    /\ running["descendant"] /\ "descendant" \in group /\ group' = group \ {"descendant"}
    /\ UNCHANGED <<running, holds, exit, written, noise, pid, pipes, pc, reader, result, expired,
                   strangers_killed>>
Exit(p) ==
    /\ running[p] /\ running' = [running EXCEPT ![p] = FALSE]
    /\ \E code \in {"success", "failure"} : exit' = IF p = "leader" THEN code ELSE exit
    /\ UNCHANGED <<group, holds, written, noise, pid, pipes, pc, reader, result, expired,
                   strangers_killed>>

(* The world: the deadline passes, a free process ID is used again.         *)
Expire ==
    /\ ~expired /\ pc \notin {"inspect", "done"} /\ expired' = TRUE
    /\ UNCHANGED <<helper, pid, pipes, pc, reader, result, strangers_killed>>
Reuse ==
    /\ pid = "free" /\ exit # "none" /\ pid' = "stranger"
    /\ UNCHANGED <<helper, pipes, pc, reader, result, expired, strangers_killed>>

Resolver == Start \/ Top \/ ReadStdout \/ ReadStderr \/ Wait \/ Poll \/ Finish \/ Kill \/ Reap
Helper ==
    /\ pc # "done"
    /\ \/ \E p \in Processes : Write(p) \/ Exit(p) \/ \E pipe \in Pipes : Close(p, pipe)
       \/ Fork \/ LeaveGroup
HelperNext == Resolver \/ Interrupt \/ Helper \/ Expire \/ Reuse
HelperSpec == HelperInit /\ [][HelperNext]_helperVars /\ WF_helperVars(Resolver)
--------------------------------------------------------------------------
(* resolve_with_limits: a secret is all that the helper, the leader and the *)
(* descendant, wrote to stdout, up to one line end, of a leader that        *)
(* succeeded, and nothing can be written any more.                          *)
SecretIsWhole ==
    result # <<>> /\ result[1] = "secret" =>
       exit = "success" /\ StripLineEnd(written) = result[2] /\ ~Held("stdout")

(* Running::drop: whatever the result, no process of the group survives.    *)
GroupGone == pc = "done" => \A p \in group : ~running[p]

(* Running::drop: the signal never goes to a group that is not the helper's. *)
NoStrangerKilled == ~strangers_killed

(* resolve_with_limits and Running::drop: all three at once. *)
HelperContained == SecretIsWhole /\ GroupGone /\ NoStrangerKilled

(* resolve_with_limits: when the deadline passes the resolution returns,    *)
(* whatever the helper does.                                                *)
ReturnsAtDeadline == expired ~> pc = "done"

(* resolve_with_limits: once the leader has exited and nobody has a pipe    *)
(* open the resolution returns, deadline or not.                            *)
ReturnsWhenHelperEnds ==
    (exit # "none" /\ ~Held("stdout") /\ ~Held("stderr")) ~> pc = "done"
=============================================================================
