-------------------------- MODULE CredentialProofs --------------------------
(***************************************************************************)
(* A helper command is contained, for any limits, pipe capacity and output:*)
(* its secret is whole, its group is gone and nobody else is signalled.    *)
(* The argument: until the resolver gives up, what it has read followed by *)
(* what is still in the pipe is all that was written, and a pipe that was  *)
(* seen at its end has no writer left and gets none; the leader keeps its  *)
(* process ID until it is reaped, which comes after the signal.            *)
(*                                                                         *)
(* Credential work is shared, for any number of callers, secrets, flights  *)
(* and workers.  The argument: a flight that takes callers in and is not   *)
(* over is the one the map has for its key, so a second one is started     *)
(* only when the first takes nobody in any more; whoever is in line has    *)
(* one place in it and no worker place besides.                            *)
(*                                                                         *)
(* The Secret Service is used consistently, for any number of operations,  *)
(* paths, daemons and items of other programs.  The argument: only the     *)
(* holder of the account's name changes items, so what set and delete      *)
(* found stays found while the daemon they asked is there; no call of      *)
(* theirs that writes a secret reaches another daemon; and an item that    *)
(* mailctl publishes was staged by the call that publishes it, with its    *)
(* secret, when the account had none.                                      *)
(***************************************************************************)
EXTENDS HelperCommand, CredentialWork, SecretStore, FiniteSetTheorems, SequenceTheorems, TLAPS

Reading == {"top", "stdout", "stderr", "wait", "poll", "finish"}

HelperTyped ==
    /\ running \in [Processes -> BOOLEAN] /\ group \subseteq Processes
    /\ holds \in [Processes -> SUBSET Pipes]
    /\ exit \in {"none", "success", "failure"} /\ pid \in {"leader", "free", "stranger"}
    /\ out \in Seq(Bytes) /\ written \in Seq(Bytes) /\ output \in Seq(Bytes)
    /\ err \in Nat /\ noise \in Nat /\ stderr_bytes \in Nat /\ eof \subseteq Pipes
    /\ pc \in Reading \cup {"inspect", "kill", "reap", "done"}
    /\ progressed \in BOOLEAN /\ expired \in BOOLEAN /\ strangers_killed \in BOOLEAN

(* Nothing exists before the helper is started. *)
NotStarted ==
    pc = "inspect" =>
        /\ \A p \in Processes : ~running[p]
        /\ group = {} /\ exit = "none" /\ eof = {} /\ written = output \o out

(* While the resolver reads it has no result, and it has lost no byte. *)
NothingLost ==
    /\ pc \in Reading \cup {"inspect"} => result = <<>>
    /\ pc \in Reading => written = output \o out

(* The end of stdout was seen only when it had come. *)
EndOfStdout == "stdout" \in eof => out = <<>> /\ ~Held("stdout")
FinishedWell == pc = "finish" => exit = "success" /\ "stdout" \in eof

(* The leader is in its group and keeps its process ID until it is reaped. *)
LeaderKept ==
    /\ exit # "none" => ~running["leader"]
    /\ pc \in Reading \cup {"kill", "reap"} => pid = "leader" /\ "leader" \in group

(* From the signal on no process of the group runs. *)
Killed == pc \in {"reap", "done"} => \A p \in group : ~running[p]

HelperInvariant ==
    /\ HelperTyped /\ NotStarted /\ NothingLost /\ EndOfStdout /\ FinishedWell
    /\ LeaderKept /\ Killed /\ SecretIsWhole /\ NoStrangerKilled

-----------------------------------------------------------------------------
(* Reading a prefix of the pipe moves bytes and loses none. *)
LEMMA ReadPrefix ==
    ASSUME NEW S, NEW s \in Seq(S), NEW t \in Seq(S), NEW n \in Nat, n <= Len(t)
    PROVE  SubSeq(t, n + 1, Len(t)) \in Seq(S) /\ s \o SubSeq(t, 1, n) \in Seq(S)
<1>1. Len(t) \in Nat /\ \A i \in 1 .. Len(t) : t[i] \in S
  BY LenProperties, ElementOfSeq
<1>2. SubSeq(t, 1, n) \in Seq(S) /\ SubSeq(t, n + 1, Len(t)) \in Seq(S)
  BY <1>1, SubSeqProperties
<1> QED BY <1>2, ConcatProperties

LEMMA PrefixLosesNothing ==
    ASSUME NEW S, NEW s \in Seq(S), NEW t \in Seq(S), NEW n \in Nat, n <= Len(t)
    PROVE  (s \o SubSeq(t, 1, n)) \o SubSeq(t, n + 1, Len(t)) = s \o t
<1>1. Len(t) \in Nat /\ \A i \in 1 .. Len(t) : t[i] \in S
  BY LenProperties, ElementOfSeq
<1>2. SubSeq(t, 1, n) \in Seq(S) /\ SubSeq(t, n + 1, Len(t)) \in Seq(S)
  BY <1>1, SubSeqProperties
<1>3. SubSeq(t, 1, n) \o SubSeq(t, n + 1, Len(t)) = t
  <2>1. 1 \in 1 .. Len(t) + 1 /\ n \in 1 - 1 .. Len(t) /\ Len(t) \in n .. Len(t)
    BY <1>1
  <2>2. SubSeq(t, 1, n) \o SubSeq(t, n + 1, Len(t)) = SubSeq(t, 1, Len(t))
    BY <2>1, ConcatAdjacentSubSeq
  <2> QED BY <2>2, SubSeqFull
<1>4. \A a, b \in Seq(S) : (s \o a) \o b = s \o (a \o b)
  BY ConcatAssociative
<1>5. PICK a \in Seq(S), b \in Seq(S) : a = SubSeq(t, 1, n) /\ b = SubSeq(t, n + 1, Len(t))
  BY <1>2
<1>6. a \o b = t /\ (s \o a) \o b = s \o (a \o b)
  BY <1>3, <1>4, <1>5
<1>7. (s \o a) \o b = s \o t
  BY <1>6, Zenon
<1> QED BY <1>5, <1>7, Zenon

(* A byte written goes to the end of the pipe. *)
LEMMA WriteByte ==
    ASSUME NEW S, NEW s \in Seq(S), NEW t \in Seq(S), NEW b \in S, NEW w, w = s \o t,
           NEW t2, t2 = Append(t, b), NEW w2, w2 = Append(w, b)
    PROVE  w2 = s \o t2
<1>1. <<b>> \in Seq(S) /\ s \o t \in Seq(S) /\ Append(t, b) \in Seq(S)
  BY ConcatProperties, AppendProperties
<1>2. w2 = w \o <<b>> /\ t2 = t \o <<b>>
  BY <1>1, AppendIsConcat
<1> QED BY <1>1, <1>2, ConcatAssociative

LEMMA LeastFacts ==
    ASSUME NEW a \in Nat, NEW b \in Nat \ {0}
    PROVE  /\ Least(a, b) \in Nat /\ Least(a, b) <= a
           /\ Least(a, b) = 0 => a = 0
BY DEF Least

(* What a result that is not a secret says. *)
LEMMA NoSecret ==
    /\ <<"Unavailable">>[1] # "secret" /\ <<"AccessDenied">>[1] # "secret"
    /\ <<"InvalidSecret">>[1] # "secret"
OBVIOUS

LEMMA HelperAtInit == HelperInit => HelperInvariant
<1> SUFFICES ASSUME HelperInit PROVE HelperInvariant
  OBVIOUS
<1>1. <<>> \in Seq(Bytes) /\ <<>> \o <<>> = <<>>
  BY EmptySeq, ConcatEmptySeq
<1>2. HelperTyped
  BY <1>1 DEF HelperInit, HelperTyped, Reading, Processes, Pipes
<1>3. NotStarted /\ NothingLost
  BY <1>1 DEF HelperInit, NotStarted, NothingLost, Reading
<1>4. EndOfStdout /\ FinishedWell /\ LeaderKept /\ Killed /\ SecretIsWhole /\ NoStrangerKilled
  BY DEF HelperInit, EndOfStdout, FinishedWell, LeaderKept, Killed, SecretIsWhole, NoStrangerKilled,
         Reading, Processes
<1> QED BY <1>2, <1>3, <1>4 DEF HelperInvariant

-----------------------------------------------------------------------------
(* The resolver's own steps.  Where they leave the helper alone, so do the    *)
(* invariants about it.                                                       *)
LEMMA StartKeeps ==
    ASSUME HelperInvariant, Start
    PROVE  HelperInvariant'
<1> USE DEF HelperInvariant
<1>1. HelperTyped'
  BY DEF HelperTyped, Start, Return, Reading, Processes, Pipes, pipes, reader
<1>2. NotStarted' /\ NothingLost'
  BY DEF HelperTyped, NotStarted, NothingLost, Start, Return, Reading, pipes, reader
<1>3. EndOfStdout' /\ FinishedWell'
  BY DEF NotStarted, EndOfStdout, FinishedWell, Start, Return, reader
<1>4. LeaderKept' /\ Killed'
  BY DEF HelperTyped, NotStarted, LeaderKept, Killed, Start, Return, Reading, Processes
<1>5. SecretIsWhole' /\ NoStrangerKilled'
  BY NoSecret DEF NothingLost, SecretIsWhole, NoStrangerKilled, Start, Return, Reading
<1> QED BY <1>1, <1>2, <1>3, <1>4, <1>5

LEMMA TopKeeps ==
    ASSUME HelperInvariant, Top
    PROVE  HelperInvariant'
<1> USE DEF HelperInvariant
<1>1. HelperTyped'
  BY DEF HelperTyped, Top, Return, Reading, helper, pipes
<1>2. NotStarted' /\ NothingLost'
  BY DEF NotStarted, NothingLost, Top, Return, Reading, helper, pipes
<1>3. EndOfStdout' /\ FinishedWell'
  BY DEF EndOfStdout, FinishedWell, Held, Top, Return, helper, pipes
<1>4. LeaderKept' /\ Killed'
  BY DEF LeaderKept, Killed, Top, Return, Reading, helper
<1>5. SecretIsWhole' /\ NoStrangerKilled'
  BY NoSecret DEF NothingLost, SecretIsWhole, NoStrangerKilled, Top, Return, Reading, Held, helper
<1> QED BY <1>1, <1>2, <1>3, <1>4, <1>5

LEMMA ReadStdoutKeeps ==
    ASSUME HelperAssumption, HelperInvariant, ReadStdout
    PROVE  HelperInvariant'
<1> USE DEF HelperInvariant
<1> PICK n : n = Least(Len(out), ReadBytes)
  OBVIOUS
<1>0. n \in Nat /\ n <= Len(out) /\ (n = 0 => out = <<>>)
  <2>1. Len(out) \in Nat /\ (Len(out) = 0 => out = <<>>)
    BY EmptySeq, LenProperties DEF HelperTyped
  <2> QED BY <2>1, LeastFacts DEF HelperAssumption
<1>t. out \in Seq(Bytes) /\ output \in Seq(Bytes)
  BY DEF HelperTyped
<1>p. /\ SubSeq(out, n + 1, Len(out)) \in Seq(Bytes)
      /\ output \o SubSeq(out, 1, n) \in Seq(Bytes)
      /\ (output \o SubSeq(out, 1, n)) \o SubSeq(out, n + 1, Len(out)) = output \o out
  <2>1. SubSeq(out, n + 1, Len(out)) \in Seq(Bytes) /\ output \o SubSeq(out, 1, n) \in Seq(Bytes)
    BY <1>0, <1>t, ReadPrefix
  <2>2. (output \o SubSeq(out, 1, n)) \o SubSeq(out, n + 1, Len(out)) = output \o out
    BY <1>0, <1>t, PrefixLosesNothing, Zenon
  <2> QED BY <2>1, <2>2, Zenon
<1>f. /\ pc = "stdout" /\ result = <<>> /\ written = output \o out
      /\ UNCHANGED <<running, group, holds, exit, written, noise, pid, err, stderr_bytes,
                     expired, strangers_killed>>
      /\ eof \subseteq Pipes
  BY DEF ReadStdout, NothingLost, Reading, helper, HelperTyped
<1>1. CASE /\ "stdout" \notin eof /\ n > 0 /\ out' = SubSeq(out, n + 1, Len(out))
           /\ Return(<<"InvalidSecret">>) /\ UNCHANGED <<output, progressed, eof>>
  <2>1. HelperTyped'
    BY <1>1, <1>p, <1>f DEF HelperTyped, Return, Reading
  <2>2. NotStarted' /\ NothingLost' /\ EndOfStdout' /\ FinishedWell' /\ LeaderKept' /\ Killed'
    BY <1>1, <1>f DEF NotStarted, NothingLost, EndOfStdout, FinishedWell, LeaderKept, Killed,
                      Return, Reading
  <2>3. SecretIsWhole' /\ NoStrangerKilled'
    BY <1>1, <1>f, NoSecret DEF SecretIsWhole, NoStrangerKilled, Return
  <2> QED BY <2>1, <2>2, <2>3
<1>2. CASE /\ "stdout" \notin eof /\ n > 0 /\ out' = SubSeq(out, n + 1, Len(out))
           /\ output' = output \o SubSeq(out, 1, n) /\ progressed' = TRUE
           /\ pc' = "stderr" /\ UNCHANGED <<result, eof>>
  <2>1. HelperTyped'
    BY <1>2, <1>p, <1>f DEF HelperTyped, Reading
  <2>2. NotStarted' /\ NothingLost'
    BY <1>2, <1>p, <1>f DEF NotStarted, NothingLost
  <2>3. EndOfStdout' /\ FinishedWell' /\ LeaderKept' /\ Killed'
    BY <1>2, <1>f DEF EndOfStdout, FinishedWell, LeaderKept, Killed, Reading
  <2>4. SecretIsWhole' /\ NoStrangerKilled'
    BY <1>2, <1>f DEF SecretIsWhole, NoStrangerKilled
  <2> QED BY <2>1, <2>2, <2>3, <2>4
<1>3. CASE /\ "stdout" \notin eof => n = 0
           /\ eof' = IF Held("stdout") THEN eof ELSE eof \cup {"stdout"}
           /\ pc' = "stderr" /\ UNCHANGED <<out, output, progressed, result>>
  <2>1. HelperTyped'
    BY <1>3, <1>f DEF HelperTyped, Reading, Pipes
  <2>2. NotStarted' /\ NothingLost'
    BY <1>3, <1>f DEF NotStarted, NothingLost
  <2>3. EndOfStdout'
    <3>1. Held("stdout")' = Held("stdout")
      BY <1>f DEF Held
    <3>2. CASE "stdout" \in eof
      BY <3>1, <3>2, <1>3 DEF EndOfStdout
    <3>3. CASE "stdout" \notin eof
      BY <3>1, <3>3, <1>3, <1>0 DEF EndOfStdout
    <3> QED BY <3>2, <3>3
  <2>4. FinishedWell' /\ LeaderKept' /\ Killed'
    BY <1>3, <1>f DEF FinishedWell, LeaderKept, Killed, Reading
  <2>5. SecretIsWhole' /\ NoStrangerKilled'
    BY <1>3, <1>f DEF SecretIsWhole, NoStrangerKilled
  <2> QED BY <2>1, <2>2, <2>3, <2>4, <2>5
<1>4. CASE Return(<<"Unavailable">>) /\ UNCHANGED <<out, output, eof, progressed>>
  <2>1. HelperTyped'
    BY <1>4, <1>f DEF HelperTyped, Return, Reading
  <2>2. NotStarted' /\ NothingLost' /\ FinishedWell' /\ LeaderKept' /\ Killed'
    BY <1>4, <1>f DEF NotStarted, NothingLost, FinishedWell, LeaderKept, Killed, Return, Reading
  <2>3. EndOfStdout'
    BY <1>4, <1>f DEF EndOfStdout, Held
  <2>4. SecretIsWhole' /\ NoStrangerKilled'
    BY <1>4, <1>f, NoSecret DEF SecretIsWhole, NoStrangerKilled, Return
  <2> QED BY <2>1, <2>2, <2>3, <2>4
<1> QED BY <1>1, <1>2, <1>3, <1>4 DEF ReadStdout

LEMMA ReadStderrKeeps ==
    ASSUME HelperAssumption, HelperInvariant, ReadStderr
    PROVE  HelperInvariant'
<1> USE DEF HelperInvariant
<1> PICK n : n = Least(err, ReadBytes)
  OBVIOUS
<1>0. n \in Nat /\ n <= err
  BY LeastFacts DEF HelperAssumption, HelperTyped
<1>f. /\ pc = "stderr" /\ pc' \in {"wait", "kill"}
      /\ UNCHANGED <<running, group, holds, exit, written, noise, pid, out, output,
                     expired, strangers_killed>>
      /\ (pc' = "wait" /\ result' = result) \/ (pc' = "kill" /\ result' = <<"Unavailable">>)
      /\ eof' = eof \/ eof' = eof \cup {"stderr"}
  BY DEF ReadStderr, Return, helper
<1>1. HelperTyped'
  <2>1. err' \in Nat /\ stderr_bytes' \in Nat
    BY <1>0 DEF ReadStderr, HelperTyped
  <2>2. progressed' \in BOOLEAN /\ eof' \subseteq Pipes
    BY <1>f DEF ReadStderr, HelperTyped, Pipes
  <2> QED BY <1>f, <2>1, <2>2 DEF HelperTyped, Reading
<1>2. NotStarted' /\ NothingLost' /\ FinishedWell' /\ LeaderKept' /\ Killed'
  BY <1>f DEF NotStarted, NothingLost, FinishedWell, LeaderKept, Killed, Reading
<1>3. EndOfStdout'
  BY <1>f DEF EndOfStdout, Held
<1>4. SecretIsWhole' /\ NoStrangerKilled'
  BY <1>f, NoSecret DEF SecretIsWhole, NoStrangerKilled, NothingLost, Reading
<1> QED BY <1>1, <1>2, <1>3, <1>4

(* Steps that leave the helper, the pipes and what was read alone. *)
LEMMA Quiet ==
    ASSUME HelperInvariant, UNCHANGED <<helper, pid, pipes, reader, strangers_killed>>,
           expired' \in BOOLEAN, pc # "inspect",
           \/ pc' = pc /\ result' = result
           \/ pc \in Reading /\ pc' \in Reading \ {"finish"} /\ result' = result
           \/ pc \in Reading /\ pc' = "kill" /\ (result' = <<"Unavailable">> \/ result' = <<"InvalidSecret">>)
    PROVE  HelperInvariant'
<1> USE DEF HelperInvariant
<1>f. UNCHANGED <<running, group, holds, exit, written, noise, pid, out, err, output,
                  stderr_bytes, eof, progressed, strangers_killed>>
  BY DEF helper, pipes, reader
<1>1. HelperTyped'
  BY <1>f DEF HelperTyped, Reading
<1>2. NotStarted' /\ NothingLost' /\ FinishedWell' /\ LeaderKept' /\ Killed'
  BY <1>f DEF NotStarted, NothingLost, FinishedWell, LeaderKept, Killed, Reading
<1>3. EndOfStdout'
  BY <1>f DEF EndOfStdout, Held
<1>4. SecretIsWhole' /\ NoStrangerKilled'
  BY <1>f, NoSecret DEF SecretIsWhole, NoStrangerKilled, NothingLost, Held, Reading
<1> QED BY <1>1, <1>2, <1>3, <1>4

LEMMA WaitKeepsInvariant ==
    ASSUME HelperInvariant, Wait
    PROVE  HelperInvariant'
<1>0. expired' \in BOOLEAN /\ pc = "wait" /\ pc \in Reading
  BY DEF HelperInvariant, HelperTyped, Wait, Reading
<1>1. CASE pc' # "finish"
  <2>1. UNCHANGED <<helper, pid, pipes, reader, strangers_killed>>
    BY DEF Wait, WaitKeeps
  <2>2. \/ pc' \in Reading \ {"finish"} /\ result' = result
        \/ pc' = "kill" /\ result' = <<"Unavailable">>
    BY <1>1 DEF Wait, Return, Reading
  <2> QED BY <1>0, <2>1, <2>2, Quiet
<1>2. CASE pc' = "finish"
  <2>1. /\ exit = "success" /\ eof = Pipes /\ result' = result /\ expired' = expired
        /\ UNCHANGED <<running, group, holds, exit, written, noise, pid, out, err, output,
                       stderr_bytes, eof, progressed, strangers_killed>>
    BY <1>2 DEF Wait, WaitKeeps, Return, AllClosed, helper, pipes, reader
  <2>2. HelperTyped'
    BY <1>2, <2>1 DEF HelperInvariant, HelperTyped, Reading
  <2>3. NotStarted' /\ NothingLost' /\ FinishedWell' /\ LeaderKept' /\ Killed'
    BY <1>0, <1>2, <2>1 DEF HelperInvariant, NotStarted, NothingLost, FinishedWell, LeaderKept,
                            Killed, Reading, Pipes
  <2>4. EndOfStdout' /\ SecretIsWhole' /\ NoStrangerKilled'
    BY <2>1 DEF HelperInvariant, EndOfStdout, SecretIsWhole, NoStrangerKilled, Held
  <2> QED BY <2>2, <2>3, <2>4 DEF HelperInvariant
<1> QED BY <1>1, <1>2

LEMMA PollKeeps ==
    ASSUME HelperInvariant, Poll \/ Interrupt
    PROVE  HelperInvariant'
<1>1. UNCHANGED <<helper, pid, pipes, reader, strangers_killed>> /\ expired' \in BOOLEAN
  BY DEF Poll, Interrupt, HelperInvariant, HelperTyped
<1>2. /\ pc \in Reading /\ pc # "inspect"
      /\ \/ pc' \in Reading \ {"finish"} /\ result' = result
         \/ pc' = "kill" /\ result' = <<"Unavailable">>
  BY DEF Poll, Interrupt, Return, Reading
<1> QED BY <1>1, <1>2, Quiet

LEMMA FinishKeeps ==
    ASSUME HelperInvariant, Finish
    PROVE  HelperInvariant'
<1>1. UNCHANGED <<helper, pid, pipes, reader, strangers_killed>> /\ expired' \in BOOLEAN
  BY DEF Finish, HelperInvariant, HelperTyped
<1>2. pc \in Reading /\ pc # "inspect" /\ pc = "finish" /\ pc' = "kill"
  BY DEF Finish, Return, Reading
<1>3. CASE result' = <<"InvalidSecret">>
  BY <1>1, <1>2, <1>3, Quiet
<1>4. CASE result' = <<"secret", StripLineEnd(output)>>
  <2>1. UNCHANGED <<running, group, holds, exit, written, noise, pid, out, err, output,
                    stderr_bytes, eof, progressed, strangers_killed>>
    BY <1>1 DEF helper, pipes, reader
  <2>2. exit = "success" /\ out = <<>> /\ ~Held("stdout") /\ written = output
    <3>1. exit = "success" /\ out = <<>> /\ ~Held("stdout") /\ written = output \o out
      BY <1>2 DEF HelperInvariant, FinishedWell, EndOfStdout, NothingLost
    <3>2. output \o <<>> = output
      BY ConcatEmptySeq DEF HelperInvariant, HelperTyped
    <3> QED BY <3>1, <3>2
  <2>3. SecretIsWhole'
    <3>1. Held("stdout")' = Held("stdout")
      BY <2>1 DEF Held
    <3>2. StripLineEnd(written)' = StripLineEnd(output)
      BY <2>1, <2>2 DEF StripLineEnd, LastIs, DropLast
    <3>3. result'[2] = StripLineEnd(output)
      BY <1>4
    <3> QED BY <2>1, <2>2, <3>1, <3>2, <3>3 DEF SecretIsWhole
  <2>4. HelperTyped'
    BY <1>1, <1>2, <2>1 DEF HelperInvariant, HelperTyped, Reading
  <2>5. NotStarted' /\ NothingLost' /\ FinishedWell' /\ LeaderKept' /\ Killed'
    BY <1>2, <2>1 DEF HelperInvariant, NotStarted, NothingLost, FinishedWell, LeaderKept, Killed,
                      Reading
  <2>6. EndOfStdout' /\ NoStrangerKilled'
    BY <2>1 DEF HelperInvariant, EndOfStdout, NoStrangerKilled, Held
  <2> QED BY <2>3, <2>4, <2>5, <2>6 DEF HelperInvariant
<1> QED BY <1>3, <1>4 DEF Finish, Return

LEMMA KillKeeps ==
    ASSUME HelperInvariant, Kill
    PROVE  HelperInvariant'
<1> USE DEF HelperInvariant
<1>f. /\ pc = "kill" /\ pc' = "reap" /\ pid = "leader" /\ "leader" \in group
      /\ running' = [p \in Processes |-> running[p] /\ p \notin group]
      /\ exit' = IF running["leader"] THEN "failure" ELSE exit
      /\ UNCHANGED <<group, holds, written, noise, pid, out, err, output, stderr_bytes, eof,
                     progressed, result, expired>>
  BY DEF Kill, KilledGroup, LeaderKept, pipes, reader
<1>r. /\ running' \in [Processes -> BOOLEAN] /\ \A p \in Processes : running'[p] => running[p]
      /\ \A p \in group : ~running'[p]
  BY <1>f, Zenon DEF HelperTyped
<1>s. strangers_killed' = FALSE
  BY <1>f DEF Kill
<1>1. HelperTyped'
  BY <1>f, <1>r, <1>s DEF HelperTyped, Reading
<1>2. NotStarted' /\ NothingLost' /\ FinishedWell'
  BY <1>f DEF NotStarted, NothingLost, FinishedWell, Reading
<1>3. LeaderKept' /\ Killed'
  BY <1>f, <1>r DEF LeaderKept, Killed, Reading
<1>h. Held("stdout")' => Held("stdout")
  BY <1>f, <1>r DEF Held
<1>4. EndOfStdout'
  BY <1>f, <1>h DEF EndOfStdout
<1>5. SecretIsWhole'
  <2>1. SUFFICES ASSUME result # <<>>, result[1] = "secret"
                 PROVE  exit' = "success" /\ StripLineEnd(written)' = result[2] /\ ~Held("stdout")'
    BY <1>f DEF SecretIsWhole
  <2>2. exit = "success" /\ StripLineEnd(written) = result[2] /\ ~Held("stdout")
    BY <2>1 DEF SecretIsWhole
  <2>3. ~running["leader"]
    BY <2>2 DEF LeaderKept
  <2>4. StripLineEnd(written)' = StripLineEnd(written)
    BY <1>f DEF StripLineEnd, LastIs, DropLast
  <2> QED BY <1>f, <1>h, <2>2, <2>3, <2>4
<1>6. NoStrangerKilled'
  BY <1>s DEF NoStrangerKilled
<1> QED BY <1>1, <1>2, <1>3, <1>4, <1>5, <1>6

LEMMA ReapKeeps ==
    ASSUME HelperInvariant, Reap
    PROVE  HelperInvariant'
<1> USE DEF HelperInvariant
<1>f. /\ pc = "reap" /\ pc' = "done" /\ pid' \in {"leader", "free"}
      /\ UNCHANGED <<running, group, holds, exit, written, noise, out, err, output,
                     stderr_bytes, eof, progressed, result, expired, strangers_killed>>
  BY DEF Reap, Released, LeaderKept, helper, pipes, reader
<1>1. HelperTyped'
  BY <1>f DEF HelperTyped, Reading
<1>2. NotStarted' /\ NothingLost' /\ FinishedWell' /\ LeaderKept' /\ Killed'
  BY <1>f DEF NotStarted, NothingLost, FinishedWell, LeaderKept, Killed, Reading
<1>3. EndOfStdout' /\ NoStrangerKilled'
  BY <1>f DEF EndOfStdout, NoStrangerKilled, Held
<1>4. SecretIsWhole'
  BY <1>f DEF SecretIsWhole, Held, StripLineEnd, LastIs, DropLast
<1> QED BY <1>1, <1>2, <1>3, <1>4

-----------------------------------------------------------------------------
(* The helper's steps: they add to stdout only while it is held, never hold it *)
(* again, and start nothing in the group once the leader is dead.              *)
LEMMA WriteKeeps ==
    ASSUME HelperInvariant, NEW p \in Processes, Write(p)
    PROVE  HelperInvariant'
<1> USE DEF HelperInvariant
<1>f. /\ running[p]
      /\ UNCHANGED <<running, group, holds, exit, pid, pc, output, stderr_bytes, eof,
                     progressed, result, expired, strangers_killed>>
  BY DEF Write, reader
<1>n. pc # "inspect"
  BY <1>f DEF NotStarted
<1>1. CASE /\ "stdout" \in holds[p]
           /\ \E b \in Bytes : out' = Append(out, b) /\ written' = Append(written, b)
           /\ UNCHANGED <<err, noise>>
  <2>1. PICK b \in Bytes : out' = Append(out, b) /\ written' = Append(written, b)
    BY <1>1
  <2>2. Held("stdout")
    BY <1>1, <1>f DEF Held
  <2>3. out' \in Seq(Bytes) /\ written' \in Seq(Bytes)
    BY <2>1, AppendProperties DEF HelperTyped
  <2>4. pc \in Reading => written' = output' \o out'
    <3> SUFFICES ASSUME pc \in Reading PROVE written' = output' \o out'
      OBVIOUS
    <3>1. output \in Seq(Bytes) /\ out \in Seq(Bytes)
      BY DEF HelperTyped
    <3>2. written = output \o out
      BY DEF NothingLost
    <3>3. written' = output \o out'
      BY <3>1, <3>2, <2>1, WriteByte
    <3> QED BY <3>3, <1>f
  <2>5. HelperTyped'
    BY <1>1, <1>f, <2>3 DEF HelperTyped
  <2>6. NotStarted' /\ NothingLost' /\ FinishedWell' /\ LeaderKept' /\ Killed'
    BY <1>f, <1>n, <2>4 DEF NotStarted, NothingLost, FinishedWell, LeaderKept, Killed
  <2>7. EndOfStdout' /\ SecretIsWhole' /\ NoStrangerKilled'
    BY <1>f, <2>2 DEF EndOfStdout, SecretIsWhole, NoStrangerKilled
  <2> QED BY <2>5, <2>6, <2>7
<1>2. CASE err' = err + 1 /\ noise' = noise + 1 /\ UNCHANGED <<out, written>>
  <2>1. HelperTyped'
    BY <1>2, <1>f DEF HelperTyped
  <2>2. NotStarted' /\ NothingLost' /\ FinishedWell' /\ LeaderKept' /\ Killed'
    BY <1>2, <1>f, <1>n DEF NotStarted, NothingLost, FinishedWell, LeaderKept, Killed
  <2>3. EndOfStdout' /\ NoStrangerKilled'
    BY <1>2, <1>f DEF EndOfStdout, NoStrangerKilled, Held
  <2>4. SecretIsWhole'
    BY <1>2, <1>f DEF SecretIsWhole, Held, StripLineEnd, LastIs, DropLast
  <2> QED BY <2>1, <2>2, <2>3, <2>4
<1> QED BY <1>1, <1>2 DEF Write

(* What the steps about processes and pipe ends have in common. *)
LEMMA ProcessesKeep ==
    ASSUME HelperInvariant, pc \notin {"inspect", "done"},
           running' \in [Processes -> BOOLEAN], group' \subseteq Processes,
           holds' \in [Processes -> SUBSET Pipes],
           "leader" \in group => "leader" \in group',
           exit' \in {"none", "success", "failure"},
           exit' # exit => running["leader"],
           exit' # "none" => ~running'["leader"],
           Held("stdout")' => Held("stdout"),
           ~running["leader"] => \A p \in group' : p \in group /\ (running'[p] => running[p]),
           UNCHANGED <<written, noise, pid, pipes, pc, reader, result, expired, strangers_killed>>
    PROVE  HelperInvariant'
<1> USE DEF HelperInvariant
<1>f. UNCHANGED <<written, noise, pid, out, err, pc, output, stderr_bytes, eof, progressed,
                  result, expired, strangers_killed>>
  BY DEF pipes, reader
<1>1. HelperTyped'
  BY <1>f DEF HelperTyped
<1>2. NotStarted' /\ NothingLost'
  BY <1>f DEF NotStarted, NothingLost
<1>3. FinishedWell'
  BY <1>f DEF FinishedWell, LeaderKept
<1>4. LeaderKept'
  BY <1>f DEF LeaderKept
<1>5. Killed'
  BY <1>f DEF Killed, LeaderKept
<1>6. EndOfStdout' /\ NoStrangerKilled'
  BY <1>f DEF EndOfStdout, NoStrangerKilled
<1>7. SecretIsWhole'
  <2>1. StripLineEnd(written)' = StripLineEnd(written)
    BY <1>f DEF StripLineEnd, LastIs, DropLast
  <2> QED BY <1>f, <2>1 DEF SecretIsWhole, LeaderKept
<1> QED BY <1>1, <1>2, <1>3, <1>4, <1>5, <1>6, <1>7

LEMMA HelperKeeps ==
    ASSUME HelperInvariant, Helper
    PROVE  HelperInvariant'
<1> USE DEF HelperInvariant
<1>0. pc # "done" /\ \A p \in Processes : running[p] => pc # "inspect"
  BY DEF Helper, NotStarted
<1>1. ASSUME NEW p \in Processes, Write(p) PROVE HelperInvariant'
  BY <1>1, WriteKeeps
<1>2. ASSUME NEW p \in Processes, NEW pipe \in Pipes, Close(p, pipe) PROVE HelperInvariant'
  <2>1. /\ running[p] /\ holds' = [holds EXCEPT ![p] = @ \ {pipe}] /\ holds' \in [Processes -> SUBSET Pipes]
        /\ UNCHANGED <<running, group, exit>>
    BY <1>2 DEF Close, HelperTyped
  <2>2. Held("stdout")' => Held("stdout")
    BY <2>1 DEF Held, HelperTyped
  <2> QED BY <1>0, <1>2, <2>1, <2>2, ProcessesKeep DEF Close, HelperTyped, LeaderKept
<1>3. ASSUME NEW p \in Processes, Exit(p) PROVE HelperInvariant'
  <2>1. /\ running[p] /\ running' = [running EXCEPT ![p] = FALSE]
        /\ UNCHANGED <<group, holds>>
    BY <1>3 DEF Exit
  <2>2. /\ running' \in [Processes -> BOOLEAN]
        /\ \A q \in Processes : running'[q] => running[q]
        /\ ~running'[p]
    BY <2>1, Zenon DEF HelperTyped
  <2>3. Held("stdout")' => Held("stdout")
    BY <2>1, <2>2 DEF Held
  <2>4. /\ exit' \in {"none", "success", "failure"}
        /\ exit' # exit => p = "leader"
        /\ p = "leader" => exit' # "none"
    BY <1>3 DEF Exit, HelperTyped
  <2>5. exit' # "none" => ~running'["leader"]
    BY <2>2, <2>4 DEF LeaderKept, Processes
  <2>6. \A q \in group' : q \in group /\ (running'[q] => running[q])
    BY <2>1, <2>2 DEF HelperTyped
  <2>7. group' \subseteq Processes /\ holds' \in [Processes -> SUBSET Pipes]
        /\ ("leader" \in group => "leader" \in group')
    BY <2>1 DEF HelperTyped
  <2>8. UNCHANGED <<written, noise, pid, pipes, pc, reader, result, expired, strangers_killed>>
    BY <1>3 DEF Exit
  <2> QED BY <1>0, <2>1, <2>2, <2>3, <2>4, <2>5, <2>6, <2>7, <2>8, ProcessesKeep
<1>4. ASSUME Fork PROVE HelperInvariant'
  <2>1. /\ running["leader"] /\ running' = [running EXCEPT !["descendant"] = TRUE]
        /\ holds' = [holds EXCEPT !["descendant"] = holds["leader"]]
        /\ group' = group \cup {"descendant"} /\ exit' = exit
    BY <1>4 DEF Fork
  <2>2. running' \in [Processes -> BOOLEAN] /\ running'["leader"]
    BY <2>1 DEF HelperTyped, Processes
  <2>3. Held("stdout")' => Held("stdout")
    BY <2>1 DEF Held, HelperTyped, Processes
  <2>4. holds' \in [Processes -> SUBSET Pipes] /\ group' \subseteq Processes
    BY <2>1 DEF HelperTyped, Processes
  <2> QED BY <1>0, <1>4, <2>1, <2>2, <2>3, <2>4, ProcessesKeep DEF Fork, HelperTyped, LeaderKept, Processes
<1>5. ASSUME LeaveGroup PROVE HelperInvariant'
  <2>1. /\ running["descendant"] /\ group' = group \ {"descendant"}
        /\ UNCHANGED <<running, holds, exit>>
    BY <1>5 DEF LeaveGroup
  <2>2. Held("stdout")' => Held("stdout")
    BY <2>1 DEF Held
  <2> QED BY <1>0, <1>5, <2>1, <2>2, ProcessesKeep DEF LeaveGroup, HelperTyped, LeaderKept, Processes
<1> QED BY <1>1, <1>2, <1>3, <1>4, <1>5 DEF Helper

-----------------------------------------------------------------------------
(* The world's steps, and no step at all. *)
LEMMA WorldKeeps ==
    ASSUME HelperInvariant, Expire \/ Reuse \/ UNCHANGED helperVars
    PROVE  HelperInvariant'
<1> USE DEF HelperInvariant
<1>1. CASE Expire
  BY <1>1, Quiet DEF Expire
<1>2. CASE Reuse
  <2>f. /\ pid = "free" /\ pid' = "stranger" /\ exit # "none"
        /\ UNCHANGED <<running, group, holds, exit, written, noise, out, err, output, pc,
                       stderr_bytes, eof, progressed, result, expired, strangers_killed>>
    BY <1>2 DEF Reuse, helper, pipes, reader
  <2>1. HelperTyped' /\ LeaderKept'
    BY <2>f DEF HelperTyped, LeaderKept
  <2>2. NotStarted' /\ NothingLost' /\ FinishedWell' /\ Killed'
    BY <2>f DEF NotStarted, NothingLost, FinishedWell, Killed
  <2>3. EndOfStdout' /\ NoStrangerKilled'
    BY <2>f DEF EndOfStdout, NoStrangerKilled, Held
  <2>4. SecretIsWhole'
    BY <2>f DEF SecretIsWhole, Held, StripLineEnd, LastIs, DropLast
  <2> QED BY <2>1, <2>2, <2>3, <2>4
<1>3. CASE UNCHANGED helperVars
  <2>f. UNCHANGED <<running, group, holds, exit, written, noise, pid, out, err, output, pc,
                    stderr_bytes, eof, progressed, result, expired, strangers_killed>>
    BY <1>3 DEF helperVars, helper, pipes, reader
  <2>1. HelperTyped' /\ LeaderKept'
    BY <2>f DEF HelperTyped, LeaderKept
  <2>2. NotStarted' /\ NothingLost' /\ FinishedWell' /\ Killed'
    BY <2>f DEF NotStarted, NothingLost, FinishedWell, Killed
  <2>3. EndOfStdout' /\ NoStrangerKilled'
    BY <2>f DEF EndOfStdout, NoStrangerKilled, Held
  <2>4. SecretIsWhole'
    BY <2>f DEF SecretIsWhole, Held, StripLineEnd, LastIs, DropLast
  <2> QED BY <2>1, <2>2, <2>3, <2>4
<1> QED BY <1>1, <1>2, <1>3

(* resolve_with_limits and Running::drop, for every limit and every helper: *)
(* a secret is all that the helper wrote, whatever the result no process of *)
(* its group is left, and no other group is ever signalled.                 *)
THEOREM HelperIsContained ==
    ASSUME HelperAssumption
    PROVE  HelperSpec => []HelperContained
<1>1. HelperInit => HelperInvariant
  BY HelperAtInit
<1>2. HelperInvariant /\ [HelperNext]_helperVars => HelperInvariant'
  BY StartKeeps, TopKeeps, ReadStdoutKeeps, ReadStderrKeeps, WaitKeepsInvariant, PollKeeps,
     FinishKeeps, KillKeeps, ReapKeeps, HelperKeeps, WorldKeeps DEF HelperNext, Resolver
<1>3. HelperInvariant => HelperContained
  BY DEF HelperInvariant, HelperContained, GroupGone, Killed
<1> QED BY <1>1, <1>2, <1>3, PTL DEF HelperSpec

-----------------------------------------------------------------------------
(* A place in line is one, and not a worker place too. *)
LineSound ==
    /\ \A i, j \in DOMAIN backlog : backlog[i] = backlog[j] => i = j
    /\ \A i \in DOMAIN backlog : backlog[i] \notin workers

(* A flight that takes callers in is the one the map has for its key. *)
OpenIsMapped ==
    \A f \in Flights :
        /\ flight[f].open /\ flight[f].task # "over" =>
               flights[flight[f].key] = f /\ ~flight[f].result
        /\ ~flight[f].open => flight[f].task \in {"leaving", "over"}
        /\ flight[f].task = "leaving" => ~flight[f].open

(* The map has no key that goes to the flight of another. *)
MapIsTrue ==
    \A k \in Keys : flights[k] # NoFlight /\ Live(flights[k]) => flight[flights[k]].key = k

WorkInvariant ==
    /\ TypeOK /\ LineSound /\ OpenIsMapped /\ MapIsTrue
    /\ WaitersCounted /\ PlacesOwned /\ UnobservedIsTold /\ AnswersAreResults

-----------------------------------------------------------------------------
(* The line and the worker places. *)
LEMMA WhoIsInLine ==
    /\ \A x : x \in Pool!InLine <=> \E i \in DOMAIN backlog : backlog[i] = x
    /\ \A x : x \in Pool!InLine' <=> \E i \in DOMAIN backlog' : backlog'[i] = x
BY DEF Pool!InLine

LEMMA Leaving ==
    ASSUME WorkAssumption, WorkInvariant, NEW f \in Flights, Pool!Leave(f)
    PROVE  /\ workers' = workers \ {f} /\ workers' \subseteq Flights /\ f \notin workers'
           /\ backlog' = backlog /\ backlog' \in Seq(Flights) /\ LineSound' /\ Pool!InLine' = Pool!InLine
           /\ f \notin Pool!InLine
BY DEF WorkInvariant, TypeOK, LineSound, Pool!Leave, Pool!InLine

LEMMA GivingUp ==
    ASSUME WorkAssumption, WorkInvariant, NEW f \in Flights, Pool!GiveUp(f)
    PROVE  /\ workers' = workers /\ f \notin workers /\ backlog' \in Seq(Flights) /\ LineSound'
           /\ Pool!InLine' = Pool!InLine \ {f}
<1>1. backlog \in Seq(Flights) /\ Len(backlog) \in Nat /\ DOMAIN backlog = 1..Len(backlog)
      /\ \A i \in 1..Len(backlog) : backlog[i] \in Flights
  BY DEF WorkInvariant, TypeOK
<1>2. PICK p \in 1..Len(backlog) : p = Pool!PlaceOf(f) /\ backlog[p] = f
  <2>1. \E i \in DOMAIN backlog : backlog[i] = f
    BY DEF Pool!GiveUp, Pool!InLine
  <2> QED BY <1>1, <2>1, Zenon DEF Pool!PlaceOf
<1>3. backlog' = [i \in 1..Len(backlog) - 1 |-> IF i < p THEN backlog[i] ELSE backlog[i + 1]]
  BY <1>2 DEF Pool!GiveUp, Pool!Without
<1>4. /\ backlog' \in Seq(Flights) /\ DOMAIN backlog' = 1..Len(backlog) - 1
      /\ \A i \in 1..Len(backlog) - 1 : backlog'[i] = IF i < p THEN backlog[i] ELSE backlog[i + 1]
  <2>1. \A i \in 1..Len(backlog) - 1 : (IF i < p THEN backlog[i] ELSE backlog[i + 1]) \in Flights
    BY <1>1
  <2>2. backlog' \in [1..Len(backlog) - 1 -> Flights]
    BY <1>3, <2>1
  <2>3. PICK n \in Nat : n = Len(backlog) - 1
    <3>1. Len(backlog) - 1 \in Nat
      BY <1>1, <1>2
    <3> QED BY <3>1
  <2>4. backlog' \in Seq(Flights)
    BY <2>2, <2>3, SeqDef
  <2> QED BY <1>3, <2>4
<1>u. /\ \A i, j \in 1..Len(backlog) : backlog[i] = backlog[j] => i = j
      /\ \A i \in 1..Len(backlog) : backlog[i] \notin workers
  BY <1>1 DEF WorkInvariant, LineSound
<1>5. LineSound'
  <2>1. ASSUME NEW i \in 1..Len(backlog) - 1, NEW j \in 1..Len(backlog) - 1, backlog'[i] = backlog'[j]
        PROVE  i = j
    <3>1. i \in 1..Len(backlog) /\ i + 1 \in 1..Len(backlog) /\ j \in 1..Len(backlog) /\ j + 1 \in 1..Len(backlog)
      BY <1>1
    <3>2. CASE i < p /\ j < p
      BY <2>1, <3>1, <3>2, <1>4, <1>u
    <3>3. CASE i >= p /\ j >= p
      BY <2>1, <3>1, <3>3, <1>4, <1>u
    <3>4. CASE i < p /\ j >= p
      BY <2>1, <3>1, <3>4, <1>4, <1>u
    <3>5. CASE i >= p /\ j < p
      BY <2>1, <3>1, <3>5, <1>4, <1>u
    <3> QED BY <3>2, <3>3, <3>4, <3>5
  <2>2. ASSUME NEW i \in 1..Len(backlog) - 1 PROVE backlog'[i] \notin workers
    BY <1>1, <1>4, <1>u
  <2> QED BY <2>1, <2>2, <1>4 DEF LineSound, Pool!GiveUp
<1>6. Pool!InLine' = Pool!InLine \ {f}
  <2>1. ASSUME NEW i \in 1..Len(backlog) - 1 PROVE backlog'[i] \in Pool!InLine \ {f}
    <3>1. i \in 1..Len(backlog) /\ i + 1 \in 1..Len(backlog)
      BY <1>1
    <3>2. i < p => backlog[i] # f
      BY <1>2, <1>u, <3>1
    <3>3. ~(i < p) => backlog[i + 1] # f
      BY <1>2, <1>u, <3>1
    <3> QED BY <1>1, <1>4, <3>1, <3>2, <3>3, WhoIsInLine
  <2>2. ASSUME NEW i \in 1..Len(backlog), backlog[i] # f
        PROVE  \E j \in 1..Len(backlog) - 1 : backlog'[j] = backlog[i]
    <3>1. CASE i < p
      BY <3>1, <1>1, <1>2, <1>4
    <3>2. CASE i > p
      <4>1. i - 1 \in 1..Len(backlog) - 1 /\ ~(i - 1 < p) /\ (i - 1) + 1 = i
        BY <3>2, <1>1, <1>2
      <4> QED BY <4>1, <1>4
    <3> QED BY <3>1, <3>2, <2>2, <1>2
  <2>3. ASSUME NEW x \in Pool!InLine' PROVE x \in Pool!InLine \ {f}
    <3>1. PICK i \in 1..Len(backlog) - 1 : backlog'[i] = x
      BY <1>4, WhoIsInLine
    <3> QED BY <3>1, <2>1
  <2>4. ASSUME NEW x \in Pool!InLine, x # f PROVE x \in Pool!InLine'
    <3>1. PICK i \in 1..Len(backlog) : backlog[i] = x
      BY <1>1, WhoIsInLine
    <3>2. PICK j \in 1..Len(backlog) - 1 : backlog'[j] = x
      BY <3>1, <2>2, <2>4
    <3> QED BY <3>2, <1>4, WhoIsInLine
  <2> QED BY <2>3, <2>4
<1>7. workers' = workers /\ f \notin workers
  BY <1>2, <1>u DEF Pool!GiveUp
<1> QED BY <1>4, <1>5, <1>6, <1>7

LEMMA Granting ==
    ASSUME WorkAssumption, WorkInvariant, NEW f \in Flights, Pool!Grant(f)
    PROVE  /\ workers' = workers \cup {f} /\ backlog' \in Seq(Flights) /\ LineSound'
           /\ Pool!InLine' = Pool!InLine \ {f}
<1>1. backlog \in Seq(Flights) /\ Len(backlog) \in Nat /\ DOMAIN backlog = 1..Len(backlog)
      /\ backlog # <<>> /\ Len(backlog) >= 1 /\ f = backlog[1]
      /\ workers' = workers \cup {f} /\ backlog' = Tail(backlog)
  BY DEF WorkInvariant, TypeOK, Pool!Grant
<1>4. /\ backlog' \in Seq(Flights) /\ DOMAIN backlog' = 1..Len(backlog) - 1
      /\ \A i \in 1..Len(backlog) - 1 : backlog'[i] = backlog[i + 1]
  BY <1>1
<1>u. /\ \A i, j \in 1..Len(backlog) : backlog[i] = backlog[j] => i = j
      /\ \A i \in 1..Len(backlog) : backlog[i] \notin workers
  BY <1>1 DEF WorkInvariant, LineSound
<1>s. \A i \in 1..Len(backlog) - 1 : i + 1 \in 1..Len(backlog) /\ i + 1 # 1
  BY <1>1
<1>5. LineSound'
  <2>1. \A i, j \in 1..Len(backlog) - 1 : backlog'[i] = backlog'[j] => i = j
    BY <1>1, <1>4, <1>u, <1>s
  <2>2. \A i \in 1..Len(backlog) - 1 : backlog'[i] \notin workers'
    BY <1>1, <1>4, <1>u, <1>s
  <2> QED BY <2>1, <2>2, <1>4 DEF LineSound
<1>6. Pool!InLine' = Pool!InLine \ {f}
  <2>1. ASSUME NEW i \in 1..Len(backlog) - 1 PROVE backlog'[i] \in Pool!InLine \ {f}
    BY <1>1, <1>4, <1>u, <1>s DEF Pool!InLine
  <2>2. ASSUME NEW i \in 1..Len(backlog), backlog[i] # f
        PROVE  \E j \in 1..Len(backlog) - 1 : backlog'[j] = backlog[i]
    <3>1. i - 1 \in 1..Len(backlog) - 1 /\ (i - 1) + 1 = i
      BY <1>1, <2>2
    <3> QED BY <3>1, <1>4
  <2>3. ASSUME NEW x \in Pool!InLine' PROVE x \in Pool!InLine \ {f}
    <3>1. PICK i \in 1..Len(backlog) - 1 : backlog'[i] = x
      BY <1>4, WhoIsInLine
    <3> QED BY <3>1, <2>1
  <2>4. ASSUME NEW x \in Pool!InLine, x # f PROVE x \in Pool!InLine'
    <3>1. PICK i \in 1..Len(backlog) : backlog[i] = x
      BY <1>1, WhoIsInLine
    <3>2. PICK j \in 1..Len(backlog) - 1 : backlog'[j] = x
      BY <3>1, <2>2, <2>4
    <3> QED BY <3>2, <1>4, WhoIsInLine
  <2> QED BY <2>3, <2>4
<1> QED BY <1>1, <1>4, <1>5, <1>6

LEMMA Entering ==
    ASSUME WorkAssumption, WorkInvariant, NEW f \in Flights, Pool!Enter(f)
    PROVE  /\ workers' \subseteq Flights /\ backlog' \in Seq(Flights) /\ LineSound'
           /\ workers' \subseteq workers \cup {f} /\ Pool!InLine' \subseteq Pool!InLine \cup {f}
<1>1. /\ backlog \in Seq(Flights) /\ Len(backlog) \in Nat /\ DOMAIN backlog = 1..Len(backlog)
      /\ f \notin workers
      /\ \A i \in 1..Len(backlog) : backlog[i] # f
  BY DEF WorkInvariant, TypeOK, Pool!Enter, Pool!Outside, Pool!InLine
<1>u. /\ \A i, j \in 1..Len(backlog) : backlog[i] = backlog[j] => i = j
      /\ \A i \in 1..Len(backlog) : backlog[i] \notin workers
  BY <1>1 DEF WorkInvariant, LineSound
<1>2. CASE workers' = workers \cup {f} /\ backlog' = backlog
  BY <1>1, <1>u, <1>2 DEF WorkInvariant, TypeOK, LineSound, Pool!InLine
<1>3. CASE backlog' = Append(backlog, f) /\ workers' = workers
  <2>1. /\ backlog' \in Seq(Flights) /\ DOMAIN backlog' = 1..Len(backlog) + 1
        /\ \A i \in 1..Len(backlog) + 1 : backlog'[i] = IF i = Len(backlog) + 1 THEN f ELSE backlog[i]
        /\ \A i \in 1..Len(backlog) + 1 : i = Len(backlog) + 1 \/ i \in 1..Len(backlog)
    BY <1>1, <1>3
  <2>2. LineSound'
    <3>1. \A i, j \in 1..Len(backlog) + 1 : backlog'[i] = backlog'[j] => i = j
      BY <1>1, <1>u, <2>1
    <3>2. \A i \in 1..Len(backlog) + 1 : backlog'[i] \notin workers'
      <4> TAKE i \in 1..Len(backlog) + 1
      <4>1. CASE i = Len(backlog) + 1
        <5>1. backlog'[i] = f
          BY <4>1, <2>1
        <5> QED BY <5>1, <1>1, <1>3
      <4>2. CASE i \in 1..Len(backlog) /\ i # Len(backlog) + 1
        BY <4>2, <1>3, <1>u, <2>1
      <4> QED BY <4>1, <4>2, <2>1
    <3> QED BY <2>1, <3>1, <3>2 DEF LineSound
  <2>3. Pool!InLine' \subseteq Pool!InLine \cup {f}
    BY <1>1, <2>1 DEF Pool!InLine
  <2> QED BY <1>3, <2>1, <2>2, <2>3 DEF WorkInvariant, TypeOK
<1> QED BY <1>2, <1>3 DEF Pool!Enter

-----------------------------------------------------------------------------
(* Flights and who waits for them. *)
LEMMA FlightFields ==
    /\ \A r \in Flight : /\ r.key \in Keys /\ r.task \in Tasks /\ r.result \in BOOLEAN
                        /\ r.open \in BOOLEAN /\ r.count \in 0..Cardinality(Callers)
                        /\ r.permit \in BOOLEAN
    /\ \A r \in Flight, t \in Tasks : [r EXCEPT !.task = t] \in Flight
BY DEF Flight

LEMMA OldFlightFacts ==
    ASSUME WorkAssumption
    PROVE  /\ OldFlight \in Flight /\ OldFlight.task = "over" /\ OldFlight.result = TRUE
           /\ OldFlight.open = FALSE
<1>1. (CHOOSE k \in Keys : TRUE) \in Keys
  BY DEF WorkAssumption
<1>2. Cardinality(Callers) \in Nat
  BY FS_CardinalityType DEF WorkAssumption
<1>3. 0 \in 0..Cardinality(Callers)
  BY <1>2
<1> QED BY <1>1, <1>3 DEF OldFlight, Flight, Tasks

LEMMA NewFlightFacts ==
    ASSUME WorkAssumption, NEW c \in Callers, NEW k \in Keys
    PROVE  /\ NewFlight(k) \in Flight /\ NewFlight(k).task = "polled" /\ NewFlight(k).key = k
           /\ NewFlight(k).result = FALSE /\ NewFlight(k).open = TRUE /\ NewFlight(k).count = 1
<1>1. Cardinality(Callers) \in Nat /\ Cardinality(Callers) # 0
  BY FS_CardinalityType, FS_EmptySet DEF WorkAssumption
<1>2. 1 \in 0..Cardinality(Callers)
  BY <1>1
<1> QED BY <1>2 DEF NewFlight, Flight, Tasks

(* One caller more or less is one more or less to count. *)
LEMMA Counting ==
    ASSUME WorkAssumption, NEW S, S \subseteq Callers
    PROVE  /\ Cardinality(S) \in 0..Cardinality(Callers)
           /\ S = {} <=> Cardinality(S) = 0
           /\ \A c \in Callers : Cardinality({c}) = 1
           /\ \A c \in Callers \ S : Cardinality(S \cup {c}) = Cardinality(S) + 1
           /\ \A c \in S : Cardinality(S \ {c}) = Cardinality(S) - 1 /\ Cardinality(S) > 0
<1>1. IsFiniteSet(Callers) /\ IsFiniteSet(S)
  BY FS_Subset DEF WorkAssumption
<1>2. Cardinality(S) \in Nat /\ Cardinality(Callers) \in Nat /\ Cardinality(S) <= Cardinality(Callers)
  BY <1>1, FS_CardinalityType, FS_Subset
<1>3. S = {} <=> Cardinality(S) = 0
  BY <1>1, FS_EmptySet
<1>4. \A c \in Callers : Cardinality({c}) = 1
  BY FS_Singleton
<1>5. \A c \in Callers \ S : Cardinality(S \cup {c}) = Cardinality(S) + 1
  BY <1>1, FS_AddElement
<1>6. \A c \in S : Cardinality(S \ {c}) = Cardinality(S) - 1
  BY <1>1, FS_RemoveElement
<1>7. \A c \in S : Cardinality(S) > 0
  BY <1>2, <1>3
<1> QED BY <1>2, <1>3, <1>4, <1>5, <1>6, <1>7

(* What a step of a flight's own task has to keep.  The step replaces the   *)
(* flight by r and leaves the map and the callers alone.                    *)
LEMMA TaskFrame ==
    ASSUME WorkInvariant, NEW f \in Flights, NEW r \in Flight,
           flight' = [flight EXCEPT ![f] = r], UNCHANGED <<flights, wait>>,
           workers' \subseteq Flights, backlog' \in Seq(Flights), LineSound', PlacesOwned',
           r.task # "over" \/ Observers(f) # {} => flight[f].task # "over" /\ r.key = flight[f].key,
           r.open /\ r.task # "over" => flight[f].open /\ ~r.result,
           ~r.open => r.task \in {"leaving", "over"} /\ Observers(f) = {},
           r.open => flight[f].open /\ r.count = flight[f].count, r.task = "leaving" => ~r.open,
           r.task = "parked" /\ r.count = 0 => r.permit,
           r.task = "over" /\ Observers(f) # {} => r.result
    PROVE  WorkInvariant'
<1> USE DEF WorkInvariant
<1>o. \A g : Observers(g)' = Observers(g)
  BY DEF Observers
<1>g. flight'[f] = r /\ \A g \in Flights : g # f => flight'[g] = flight[g]
  BY DEF TypeOK
<1>1. TypeOK'
  BY DEF TypeOK
<1>2. OpenIsMapped'
  BY <1>g DEF OpenIsMapped
<1>3. MapIsTrue'
  <2> SUFFICES ASSUME NEW k \in Keys, flights[k] # NoFlight, Live(flights[k])'
               PROVE  flight'[flights[k]].key = k
    BY DEF MapIsTrue
  <2>1. flights[k] \in Flights
    BY DEF TypeOK
  <2>2. Live(flights[k]) /\ flight'[flights[k]].key = flight[flights[k]].key
    BY <2>1, <1>o, <1>g DEF Live
  <2> QED BY <2>2 DEF MapIsTrue
<1>4. WaitersCounted'
  BY <1>g, <1>o DEF WaitersCounted
<1>5. UnobservedIsTold'
  BY <1>g DEF UnobservedIsTold, Unobserved
<1>6. AnswersAreResults'
  <2> SUFFICES ASSUME NEW c \in Callers, wait[c] # NoFlight, flight'[wait[c]].task = "over"
               PROVE  flight'[wait[c]].result
    BY DEF AnswersAreResults
  <2>1. wait[c] \in Flights /\ c \in Observers(wait[c])
    BY DEF TypeOK, Observers
  <2> QED BY <2>1, <1>g DEF AnswersAreResults
<1> QED BY <1>1, <1>2, <1>3, <1>4, <1>5, <1>6

-----------------------------------------------------------------------------
(* The task of a flight that is under way takes callers in, and its counter *)
(* is theirs.                                                               *)
LEMMA UnderWay ==
    ASSUME WorkAssumption, WorkInvariant, NEW f \in Flights
    PROVE  /\ flight[f] \in Flight
           /\ flight[f].task \notin {"leaving", "over"} =>
                  /\ flight[f].open /\ ~flight[f].result
                  /\ Unobserved(f) <=> Observers(f) = {}
           /\ ~flight[f].open => Observers(f) = {}
<1>1. flight[f] \in Flight /\ Observers(f) \subseteq Callers
  BY DEF WorkInvariant, TypeOK, Observers
<1>2. flight[f].task \notin {"leaving", "over"} => flight[f].open /\ ~flight[f].result
  BY <1>1 DEF WorkInvariant, OpenIsMapped
<1>3. Observers(f) = {} <=> Cardinality(Observers(f)) = 0
  BY <1>1, Counting
<1> QED BY <1>1, <1>2, <1>3 DEF WorkInvariant, WaitersCounted, Unobserved

(* A task that moves on with the places as they are. *)
LEMMA PlacesStay ==
    ASSUME WorkInvariant, UNCHANGED <<workers, backlog>>
    PROVE  /\ workers' \subseteq Flights /\ backlog' \in Seq(Flights) /\ LineSound'
           /\ Pool!InLine' = Pool!InLine
BY DEF WorkInvariant, TypeOK, LineSound, Pool!InLine

LEMMA AbandonKeeps ==
    ASSUME WorkAssumption, WorkInvariant, NEW f \in Flights,
           flight[f].task \in {"polled", "placed"}, Unobserved(f), flight' = Abandoned(f),
           UNCHANGED <<flights, wait, workers, backlog>>
    PROVE  WorkInvariant'
<1>1. flight[f] \in Flight /\ flight[f].open /\ Observers(f) = {}
  BY UnderWay
<1>2. PICK r : r = [flight[f] EXCEPT !.task = "leaving", !.open = FALSE]
  OBVIOUS
<1>3. r \in Flight /\ r.task = "leaving" /\ r.key = flight[f].key /\ r.open = FALSE
  BY <1>1, <1>2 DEF Flight, Tasks
<1>4. flight' = [flight EXCEPT ![f] = r]
  BY <1>2 DEF Abandoned, WorkInvariant, TypeOK
<1>5. PlacesOwned'
  BY <1>3, <1>4, PlacesStay DEF WorkInvariant, TypeOK, PlacesOwned
<1> QED BY <1>1, <1>3, <1>4, <1>5, PlacesStay, TaskFrame

LEMMA GoesKeeps ==
    ASSUME WorkAssumption, WorkInvariant, NEW f \in Flights, NEW t \in Tasks \ {"leaving", "over"},
           flight[f].task \notin {"leaving", "over"}, Goes(f, t),
           t = "parked" => ~Unobserved(f),
           UNCHANGED <<flights, wait>>, workers' \subseteq Flights, backlog' \in Seq(Flights), LineSound',
           \A g \in Flights : g # f =>
               (g \in workers' => g \in workers) /\ (g \in Pool!InLine' => g \in Pool!InLine),
           f \in workers' => t # "resolved",
           f \in Pool!InLine' => t \in {"polled", "parked"}
    PROVE  WorkInvariant'
<1>1. flight[f] \in Flight /\ flight[f].open /\ ~flight[f].result
  BY UnderWay
<1>2. PICK r : r = [flight[f] EXCEPT !.task = t]
  OBVIOUS
<1>3. /\ r \in Flight /\ r.task = t /\ r.key = flight[f].key /\ r.open = flight[f].open
      /\ r.count = flight[f].count /\ r.result = flight[f].result
  BY <1>1, <1>2 DEF Flight
<1>4. flight' = [flight EXCEPT ![f] = r]
  BY <1>2 DEF Goes, WorkInvariant, TypeOK
<1>g. flight'[f] = r /\ \A g \in Flights : g # f => flight'[g] = flight[g]
  BY <1>4 DEF WorkInvariant, TypeOK
<1>5. PlacesOwned'
  <2>1. ASSUME NEW g \in Flights, g # f
        PROVE  /\ g \in workers' => flight'[g].task \in {"polled", "parked", "placed", "resolving",
                                                        "leaving"}
               /\ g \in Pool!InLine' => flight'[g].task \in {"polled", "parked", "leaving"}
    BY <2>1, <1>g DEF WorkInvariant, PlacesOwned
  <2>2. /\ f \in workers' => flight'[f].task \in {"polled", "parked", "placed", "resolving",
                                                "leaving"}
        /\ f \in Pool!InLine' => flight'[f].task \in {"polled", "parked", "leaving"}
    BY <1>g, <1>3 DEF Tasks
  <2> QED BY <2>1, <2>2 DEF PlacesOwned
<1>6. r.task = "parked" /\ r.count = 0 => r.permit
  BY <1>3 DEF Unobserved
<1> QED BY <1>1, <1>3, <1>4, <1>5, <1>6, TaskFrame

LEMMA EndsKeeps ==
    ASSUME WorkAssumption, WorkInvariant, NEW f \in Flights, NEW told \in BOOLEAN,
           flight[f].task # "over", Ends(f, told),
           told \/ Observers(f) = {},
           flight[f].task = "leaving" => Observers(f) = {},
           UNCHANGED <<flights, wait>>, workers' \subseteq Flights, backlog' \in Seq(Flights), LineSound',
           \A g \in Flights : g # f =>
               (g \in workers' => g \in workers) /\ (g \in Pool!InLine' => g \in Pool!InLine),
           f \notin workers', f \notin Pool!InLine'
    PROVE  WorkInvariant'
<1>1. flight[f] \in Flight /\ (~flight[f].open => Observers(f) = {})
  BY UnderWay
<1>2. PICK r : r = IF Observers(f) = {} THEN OldFlight
                   ELSE [flight[f] EXCEPT !.task = "over", !.result = told]
  OBVIOUS
<1>3. /\ r \in Flight /\ r.task = "over"
      /\ Observers(f) = {} => r.open = FALSE
      /\ Observers(f) # {} => /\ r.key = flight[f].key /\ r.open = flight[f].open
                              /\ r.count = flight[f].count /\ r.result = told
  BY <1>1, <1>2, OldFlightFacts DEF Flight, Tasks
<1>4. flight' = [flight EXCEPT ![f] = r]
  BY <1>2 DEF Ends, WorkInvariant, TypeOK
<1>g. flight'[f] = r /\ \A g \in Flights : g # f => flight'[g] = flight[g]
  BY <1>4 DEF WorkInvariant, TypeOK
<1>5. PlacesOwned'
  <2>1. ASSUME NEW g \in Flights, g # f
        PROVE  /\ g \in workers' => flight'[g].task \in {"polled", "parked", "placed", "resolving",
                                                        "leaving"}
               /\ g \in Pool!InLine' => flight'[g].task \in {"polled", "parked", "leaving"}
    BY <2>1, <1>g DEF WorkInvariant, PlacesOwned
  <2> QED BY <2>1 DEF PlacesOwned
<1>6. /\ ~r.open => r.task \in {"leaving", "over"} /\ Observers(f) = {}
      /\ r.open => flight[f].open /\ r.count = flight[f].count
  BY <1>1, <1>3
<1>7. r.task = "over" /\ Observers(f) # {} => r.result
  BY <1>3
<1> QED BY <1>1, <1>3, <1>4, <1>5, <1>6, <1>7, TaskFrame

LEMMA TaskKeeps ==
    ASSUME WorkAssumption, WorkInvariant, NEW f \in Flights, TaskStep(f)
    PROVE  WorkInvariant'
<1>t. {"polled", "parked", "placed", "resolving", "resolved"} \subseteq Tasks
  BY DEF Tasks
<1>o. f \in workers => flight[f].task \notin {"resolved", "over"}
  BY DEF WorkInvariant, PlacesOwned
<1>i. f \in Pool!InLine => flight[f].task \in {"polled", "parked", "leaving"}
  BY DEF WorkInvariant, PlacesOwned
<1>d. ~(f \in workers /\ f \in Pool!InLine)
  BY WhoIsInLine DEF WorkInvariant, LineSound
<1>1. CASE PollAbandoned(f)
  BY <1>1, AbandonKeeps DEF PollAbandoned
<1>2. CASE Depart(f)
  <2>1. flight[f].task = "leaving" /\ Ends(f, FALSE) /\ UNCHANGED <<flights, wait>>
    BY <1>2 DEF Depart
  <2>2. Observers(f) = {}
    <3>1. flight[f] \in Flight /\ (~flight[f].open => Observers(f) = {})
      BY UnderWay
    <3>2. flight[f].open = FALSE
      BY <2>1, <3>1 DEF WorkInvariant, OpenIsMapped
    <3> QED BY <3>1, <3>2
  <2>3. CASE Pool!GiveUp(f)
    BY <2>1, <2>2, <2>3, GivingUp, EndsKeeps DEF WorkInvariant, TypeOK
  <2>4. CASE Pool!Leave(f)
    BY <2>1, <2>2, <2>4, Leaving, EndsKeeps
  <2> QED BY <1>2, <2>3, <2>4 DEF Depart
<1>3. CASE Park(f)
  <2>1. flight[f].task = "polled" /\ ~Unobserved(f) /\ Goes(f, "parked")
        /\ UNCHANGED <<flights, wait, workers, backlog>>
    BY <1>3 DEF Park
  <2> QED BY <2>1, <1>t, PlacesStay, GoesKeeps
<1>4. CASE Notified(f)
  <2>1. flight[f] \in Flight /\ flight[f].open /\ ~flight[f].result /\ flight[f].task = "parked"
    BY <1>4, UnderWay DEF Notified
  <2>2. PICK r : r = [flight[f] EXCEPT !.task = "polled", !.permit = FALSE]
    OBVIOUS
  <2>3. /\ r \in Flight /\ r.task = "polled" /\ r.key = flight[f].key /\ r.open = flight[f].open
        /\ r.count = flight[f].count /\ r.result = flight[f].result
    BY <2>1, <2>2 DEF Flight, Tasks
  <2>4. flight' = [flight EXCEPT ![f] = r] /\ UNCHANGED <<flights, wait, workers, backlog>>
    BY <1>4, <2>2 DEF Notified, WorkInvariant, TypeOK
  <2>5. PlacesOwned'
    BY <2>3, <2>4, PlacesStay DEF WorkInvariant, TypeOK, PlacesOwned
  <2> QED BY <2>1, <2>3, <2>4, <2>5, PlacesStay, TaskFrame
<1>5. CASE Placed(f)
  <2>1. flight[f].task \in {"polled", "parked"} /\ Goes(f, "placed") /\ UNCHANGED <<flights, wait>>
    BY <1>5 DEF Placed
  <2>2. CASE f \in workers /\ UNCHANGED <<workers, backlog>>
    BY <2>1, <2>2, <1>d, <1>t, PlacesStay, GoesKeeps
  <2>3. CASE Pool!Grant(f)
    <3>1. workers' \subseteq Flights
      BY <2>3, Granting DEF WorkInvariant, TypeOK
    <3> QED BY <2>1, <2>3, <3>1, <1>t, Granting, GoesKeeps
  <2> QED BY <1>5, <2>2, <2>3 DEF Placed
<1>6. CASE QueueTimeout(f)
  <2>1. flight[f].task \in {"polled", "parked"} /\ Pool!GiveUp(f) /\ Ends(f, TRUE)
        /\ UNCHANGED <<flights, wait>>
    BY <1>6 DEF QueueTimeout
  <2>2. workers' \subseteq Flights
    BY <2>1, GivingUp DEF WorkInvariant, TypeOK
  <2> QED BY <2>1, <2>2, GivingUp, EndsKeeps
<1>7. CASE Resolve(f)
  <2>1. flight[f].task = "placed" /\ UNCHANGED <<flights, wait, workers, backlog>>
    BY <1>7 DEF Resolve
  <2>2. CASE Unobserved(f)
    BY <1>7, <2>1, <2>2, AbandonKeeps DEF Resolve
  <2>3. CASE ~Unobserved(f)
    <3>1. Goes(f, "resolving")
      BY <1>7, <2>3 DEF Resolve, Goes
    <3> QED BY <2>1, <3>1, <1>i, <1>t, PlacesStay, GoesKeeps
  <2> QED BY <2>2, <2>3
<1>8. CASE Resolved(f)
  <2>1. flight[f].task = "resolving" /\ Pool!Leave(f) /\ Goes(f, "resolved")
        /\ UNCHANGED <<flights, wait>>
    BY <1>8 DEF Resolved
  <2> QED BY <2>1, <1>t, Leaving, GoesKeeps
<1>9. CASE Publish(f)
  <2>1. flight[f].task = "resolved" /\ Ends(f, TRUE) /\ UNCHANGED <<flights, wait, workers, backlog>>
    BY <1>9 DEF Publish
  <2> QED BY <2>1, <1>o, <1>i, PlacesStay, EndsKeeps
<1> QED BY <1>1, <1>2, <1>3, <1>4, <1>5, <1>6, <1>7, <1>8, <1>9 DEF TaskStep

-----------------------------------------------------------------------------
(* Callers: one joins, one leaves. *)

(* What the map has after `retain`: the flights that live. *)
LEMMA RetainedFacts ==
    ASSUME WorkAssumption, WorkInvariant
    PROVE  /\ Retained \in [Keys -> Flights \cup {NoFlight}]
           /\ \A k \in Keys : Retained[k] # NoFlight =>
                  /\ Retained[k] = flights[k] /\ Retained[k] \in Flights /\ Live(Retained[k])
                  /\ flight[Retained[k]].key = k
           /\ \A f \in Flights : flight[f].open /\ flight[f].task # "over" =>
                  Retained[flight[f].key] = f
<1>1. /\ flights \in [Keys -> Flights \cup {NoFlight}] /\ NoFlight \notin Flights
      /\ \A f \in Flights : flight[f].key \in Keys
  BY FlightFields DEF WorkInvariant, TypeOK, WorkAssumption
<1>2. \A k \in Keys : Retained[k] = IF flights[k] # NoFlight /\ Live(flights[k]) THEN flights[k] ELSE NoFlight
  BY DEF Retained
<1>3. Retained \in [Keys -> Flights \cup {NoFlight}]
  BY <1>1 DEF Retained
<1>4. ASSUME NEW k \in Keys, Retained[k] # NoFlight
      PROVE  /\ Retained[k] = flights[k] /\ Retained[k] \in Flights /\ Live(Retained[k])
             /\ flight[Retained[k]].key = k
  BY <1>1, <1>2, <1>4 DEF WorkInvariant, MapIsTrue
<1>5. ASSUME NEW f \in Flights, flight[f].open, flight[f].task # "over"
      PROVE  Retained[flight[f].key] = f
  <2>1. flights[flight[f].key] = f /\ f # NoFlight /\ Live(f)
    BY <1>1, <1>5 DEF WorkInvariant, OpenIsMapped, Live
  <2> QED BY <1>1, <1>2, <2>1
<1> QED BY <1>3, <1>4, <1>5

(* A caller leaves the flight it waits for. *)
LEMMA WaiterGone ==
    ASSUME WorkAssumption, WorkInvariant, NEW c \in Callers, NEW f \in Flights, wait[c] = f,
           wait' = [wait EXCEPT ![c] = NoFlight], UNCHANGED <<flights, workers, backlog>>,
           \/ flight' = WaiterDropped(f)
           \/ /\ flight' = [flight EXCEPT ![f] = OldFlight]
              /\ flight[f].task = "over" /\ Observers(f) = {c}
    PROVE  WorkInvariant'
<1> USE DEF WorkInvariant
<1>n. NoFlight \notin Flights
  BY DEF WorkAssumption
<1>o. /\ Observers(f)' = Observers(f) \ {c} /\ c \in Observers(f)
      /\ \A g \in Flights : g # f => Observers(g)' = Observers(g)
      /\ Observers(f) \subseteq Callers
  BY <1>n DEF Observers, TypeOK
<1>c. /\ flight[f] \in Flight /\ flight[f].open /\ flight[f].count = Cardinality(Observers(f))
      /\ Cardinality(Observers(f)) \in 0..Cardinality(Callers) /\ Cardinality(Callers) \in Nat
      /\ Cardinality(Observers(f) \ {c}) = Cardinality(Observers(f)) - 1
      /\ Cardinality(Observers(f)) > 0
  <2>1. flight[f] \in Flight /\ flight[f].open
    BY <1>o, UnderWay
  <2>2. Cardinality(Callers) \in Nat
    BY FS_CardinalityType DEF WorkAssumption
  <2> QED BY <2>1, <2>2, <1>o, Counting DEF WaitersCounted
<1>r. PICK r \in Flight :
         /\ flight' = [flight EXCEPT ![f] = r]
         /\ \/ /\ r.key = flight[f].key /\ r.task = flight[f].task /\ r.result = flight[f].result
               /\ r.open = flight[f].open /\ r.count = flight[f].count - 1
               /\ (r.count = 0 \/ flight[f].permit) => r.permit
            \/ /\ r = OldFlight /\ flight[f].task = "over" /\ Observers(f) = {c}
  <2>1. CASE flight' = WaiterDropped(f)
    <3>1. PICK r : r = [flight[f] EXCEPT !.count = flight[f].count - 1,
                                         !.permit = flight[f].permit \/ flight[f].count = 1]
      OBVIOUS
    <3>2. flight[f].count \in Nat /\ flight[f].count > 0
          /\ flight[f].count - 1 \in 0..Cardinality(Callers)
      BY <1>c
    <3>3. (flight[f].permit \/ flight[f].count = 1) \in BOOLEAN
      BY Zenon
    <3>4. r \in Flight
      BY <1>c, <3>1, <3>2, <3>3 DEF Flight
    <3>5. /\ r.key = flight[f].key /\ r.task = flight[f].task /\ r.result = flight[f].result
          /\ r.open = flight[f].open /\ r.count = flight[f].count - 1
          /\ r.permit = (flight[f].permit \/ flight[f].count = 1)
      BY <1>c, <3>1 DEF Flight
    <3>6. (r.count = 0 \/ flight[f].permit) => r.permit
      <4>1. r.count = flight[f].count - 1
        BY <3>5
      <4>2. r.count = 0 => flight[f].count = 1
        BY <3>2, <4>1
      <4> QED BY <3>5, <4>2, Zenon
    <3>7. flight' = [flight EXCEPT ![f] = r]
      BY <2>1, <3>1, <3>2 DEF WaiterDropped, TypeOK
    <3> QED BY <3>4, <3>5, <3>6, <3>7
  <2>2. CASE /\ flight' = [flight EXCEPT ![f] = OldFlight]
             /\ flight[f].task = "over" /\ Observers(f) = {c}
    BY <2>2, OldFlightFacts
  <2> QED BY <2>1, <2>2
<1>g. flight'[f] = r /\ \A g \in Flights : g # f => flight'[g] = flight[g]
  BY <1>r DEF TypeOK
<1>t. r.task = flight[f].task /\ r.key \in Keys
  BY <1>r, OldFlightFacts, FlightFields
<1>1. TypeOK'
  BY <1>r DEF TypeOK
<1>2. LineSound'
  BY DEF LineSound
<1>3. OpenIsMapped'
  BY <1>g, <1>r, <1>t, OldFlightFacts DEF OpenIsMapped
<1>4. MapIsTrue'
  <2> SUFFICES ASSUME NEW k \in Keys, flights[k] # NoFlight, Live(flights[k])'
               PROVE  flight'[flights[k]].key = k
    BY DEF MapIsTrue
  <2>1. flights[k] \in Flights
    BY DEF TypeOK
  <2>2. CASE flights[k] # f
    BY <2>1, <2>2, <1>o, <1>g DEF Live, MapIsTrue
  <2>3. CASE flights[k] = f
    <3>1. r.task # "over" \/ Observers(f) \ {c} # {}
      BY <2>3, <1>o, <1>g DEF Live
    <3>2. r.key = flight[f].key
      BY <1>r, <1>t, <3>1
    <3>3. Live(f)
      BY <1>o DEF Live
    <3> QED BY <2>3, <3>2, <3>3, <1>g DEF MapIsTrue
  <2> QED BY <2>2, <2>3
<1>5. WaitersCounted'
  <2>1. ASSUME NEW g \in Flights, g # f
        PROVE  IF flight'[g].open THEN flight'[g].count = Cardinality(Observers(g)') ELSE Observers(g)' = {}
    BY <2>1, <1>g, <1>o DEF WaitersCounted
  <2>2. IF r.open THEN r.count = Cardinality(Observers(f)') ELSE Observers(f)' = {}
    BY <1>r, <1>c, <1>o, OldFlightFacts
  <2> QED BY <2>1, <2>2, <1>g DEF WaitersCounted
<1>6. PlacesOwned'
  <2>1. Pool!InLine' = Pool!InLine
    BY PlacesStay
  <2> QED BY <2>1, <1>g, <1>t DEF PlacesOwned
<1>7. UnobservedIsTold'
  BY <1>g, <1>r, <1>t DEF UnobservedIsTold, Unobserved
<1>8. AnswersAreResults'
  <2> SUFFICES ASSUME NEW d \in Callers, wait'[d] # NoFlight, flight'[wait'[d]].task = "over"
               PROVE  flight'[wait'[d]].result
    BY DEF AnswersAreResults
  <2>1. d # c /\ wait'[d] = wait[d] /\ wait[d] \in Flights
    BY DEF TypeOK
  <2>2. flight[wait[d]].task = "over" /\ flight[wait[d]].result
    BY <2>1, <1>g, <1>t DEF AnswersAreResults
  <2> QED BY <2>1, <2>2, <1>g, <1>r, OldFlightFacts
<1> QED BY <1>1, <1>2, <1>3, <1>4, <1>5, <1>6, <1>7, <1>8

(* A flight that takes callers in has no result yet. *)
LEMMA JoinableFacts ==
    ASSUME WorkAssumption, WorkInvariant, NEW k \in Keys, Joinable(k)
    PROVE  /\ flights[k] \in Flights /\ Retained[k] = flights[k]
           /\ flight[flights[k]].open /\ flight[flights[k]].task # "over"
           /\ flight[flights[k]].key = k
<1>1. /\ flights[k] \in Flights /\ Retained[k] = flights[k] /\ Live(flights[k])
      /\ flight[flights[k]].key = k /\ flight[flights[k]].open /\ ~flight[flights[k]].result
  BY RetainedFacts DEF Joinable
<1>2. flight[flights[k]].task # "over"
  <2> SUFFICES ASSUME flight[flights[k]].task = "over" PROVE FALSE
    OBVIOUS
  <2>1. PICK c \in Callers : wait[c] = flights[k]
    BY <1>1 DEF Live, Observers
  <2>2. wait[c] # NoFlight
    BY <1>1, <2>1 DEF WorkAssumption
  <2> QED BY <1>1, <2>1, <2>2 DEF WorkInvariant, AnswersAreResults
<1> QED BY <1>1, <1>2

LEMMA JoinKeeps ==
    ASSUME WorkAssumption, WorkInvariant, NEW c \in Callers, NEW k \in Keys, Join(c, k)
    PROVE  WorkInvariant'
<1> USE DEF WorkInvariant
<1>n. NoFlight \notin Flights
  BY DEF WorkAssumption
<1>0. PICK f \in Flights : f = flights[k]
  BY JoinableFacts DEF Join
<1>f. /\ wait[c] = NoFlight /\ flight' = [flight EXCEPT ![f].count = @ + 1]
      /\ wait' = [wait EXCEPT ![c] = f] /\ flights' = Retained /\ UNCHANGED <<workers, backlog>>
      /\ flight[f].open /\ flight[f].task # "over" /\ flight[f].key = k
  BY <1>0, JoinableFacts DEF Join
<1>o. /\ Observers(f)' = Observers(f) \cup {c} /\ c \notin Observers(f)
      /\ \A g \in Flights : g # f => Observers(g)' = Observers(g)
      /\ Observers(f) \subseteq Callers /\ Observers(f)' \subseteq Callers
  BY <1>n, <1>f DEF Observers, TypeOK
<1>c. /\ flight[f] \in Flight /\ flight[f].count = Cardinality(Observers(f))
      /\ Cardinality(Observers(f)') = flight[f].count + 1
      /\ flight[f].count + 1 \in 0..Cardinality(Callers) /\ flight[f].count \in Nat
  <2>1. flight[f] \in Flight /\ flight[f].count = Cardinality(Observers(f))
    BY <1>f DEF TypeOK, WaitersCounted
  <2>2. Cardinality(Observers(f) \cup {c}) = Cardinality(Observers(f)) + 1
    BY <1>o, Counting
  <2>3. Cardinality(Observers(f) \cup {c}) \in 0..Cardinality(Callers)
    BY <1>o, Counting
  <2>4. Cardinality(Callers) \in Nat /\ flight[f].count \in 0..Cardinality(Callers)
    BY <2>1, FlightFields, FS_CardinalityType DEF WorkAssumption
  <2> QED BY <2>1, <2>2, <2>3, <2>4, <1>o
<1>r. PICK r \in Flight :
         /\ flight' = [flight EXCEPT ![f] = r]
         /\ r.key = flight[f].key /\ r.task = flight[f].task /\ r.result = flight[f].result
         /\ r.open = flight[f].open /\ r.count = flight[f].count + 1 /\ r.permit = flight[f].permit
  <2>1. PICK r : r = [flight[f] EXCEPT !.count = flight[f].count + 1]
    OBVIOUS
  <2>2. /\ r \in Flight
        /\ r.key = flight[f].key /\ r.task = flight[f].task /\ r.result = flight[f].result
        /\ r.open = flight[f].open /\ r.count = flight[f].count + 1 /\ r.permit = flight[f].permit
    BY <1>c, <2>1 DEF Flight
  <2>3. flight' = [flight EXCEPT ![f] = r]
    BY <1>f, <2>1 DEF TypeOK
  <2> QED BY <2>2, <2>3
<1>g. flight'[f] = r /\ \A g \in Flights : g # f => flight'[g] = flight[g]
  BY <1>r DEF TypeOK
<1>1. TypeOK'
  BY <1>f, <1>r, RetainedFacts DEF TypeOK
<1>2. LineSound' /\ Pool!InLine' = Pool!InLine
  BY <1>f, PlacesStay
<1>3. OpenIsMapped'
  <2>1. ASSUME NEW g \in Flights, flight'[g].open, flight'[g].task # "over"
        PROVE  flights'[flight'[g].key] = g /\ ~flight'[g].result
    <3>1. /\ flight[g].open /\ flight[g].task # "over" /\ flight'[g].key = flight[g].key
          /\ flight'[g].result = flight[g].result
      BY <2>1, <1>g, <1>r
    <3> QED BY <3>1, <1>f, RetainedFacts DEF OpenIsMapped
  <2>2. ASSUME NEW g \in Flights
        PROVE  /\ ~flight'[g].open => flight'[g].task \in {"leaving", "over"}
               /\ flight'[g].task = "leaving" => ~flight'[g].open
    BY <1>g, <1>r DEF OpenIsMapped
  <2> QED BY <2>1, <2>2 DEF OpenIsMapped
<1>4. MapIsTrue'
  <2> SUFFICES ASSUME NEW j \in Keys, Retained[j] # NoFlight
               PROVE  flight'[Retained[j]].key = j
    BY <1>f DEF MapIsTrue
  <2>1. Retained[j] \in Flights /\ flight[Retained[j]].key = j
    BY RetainedFacts
  <2> QED BY <2>1, <1>g, <1>r
<1>5. WaitersCounted'
  <2>1. ASSUME NEW g \in Flights, g # f
        PROVE  IF flight'[g].open THEN flight'[g].count = Cardinality(Observers(g)') ELSE Observers(g)' = {}
    BY <2>1, <1>g, <1>o DEF WaitersCounted
  <2>2. IF r.open THEN r.count = Cardinality(Observers(f)') ELSE Observers(f)' = {}
    BY <1>r, <1>c, <1>f
  <2> QED BY <2>1, <2>2, <1>g DEF WaitersCounted
<1>6. PlacesOwned'
  BY <1>2, <1>f, <1>g, <1>r DEF PlacesOwned
<1>7. UnobservedIsTold'
  <2>1. r.count # 0
    BY <1>r, <1>c
  <2> QED BY <1>g, <2>1 DEF UnobservedIsTold, Unobserved
<1>8. AnswersAreResults'
  <2> SUFFICES ASSUME NEW d \in Callers, wait'[d] # NoFlight, flight'[wait'[d]].task = "over"
               PROVE  flight'[wait'[d]].result
    BY DEF AnswersAreResults
  <2>1. wait'[d] \in Flights /\ wait'[d] # f
    BY <1>1, <1>g, <1>r, <1>f DEF TypeOK
  <2>2. d # c /\ wait'[d] = wait[d]
    BY <2>1, <1>f DEF TypeOK
  <2> QED BY <2>1, <2>2, <1>g DEF AnswersAreResults
<1> QED BY <1>1, <1>2, <1>3, <1>4, <1>5, <1>6, <1>7, <1>8

LEMMA LaunchKeeps ==
    ASSUME WorkAssumption, WorkInvariant, NEW c \in Callers, NEW k \in Keys, Launch(c, k)
    PROVE  WorkInvariant'
<1> USE DEF WorkInvariant
<1>n. NoFlight \notin Flights
  BY DEF WorkAssumption
<1>0. wait[c] = NoFlight /\ ~Joinable(k)
  BY DEF Launch
<1>f. PICK f \in Flights :
         /\ ~Live(f) /\ Pool!Enter(f) /\ flight' = [flight EXCEPT ![f] = NewFlight(k)]
         /\ wait' = [wait EXCEPT ![c] = f] /\ flights' = [Retained EXCEPT ![k] = f]
  BY DEF Launch
<1>o. /\ Observers(f)' = {c}
      /\ \A g \in Flights : g # f => Observers(g)' = Observers(g)
      /\ flight[f].task = "over"
  BY <1>n, <1>0, <1>f DEF Observers, Live, TypeOK
<1>g. flight'[f] = NewFlight(k) /\ \A g \in Flights : g # f => flight'[g] = flight[g]
  BY <1>f DEF TypeOK
<1>m. flights'[k] = f /\ \A j \in Keys : j # k => flights'[j] = Retained[j]
  BY <1>f, RetainedFacts
<1>1. TypeOK'
  <2>1. flights' \in [Keys -> Flights \cup {NoFlight}]
    BY <1>f, RetainedFacts
  <2>2. flight' \in [Flights -> Flight] /\ wait' \in [Callers -> Flights \cup {NoFlight}]
    BY <1>f, NewFlightFacts DEF TypeOK
  <2> QED BY <2>1, <2>2, <1>f, Entering DEF TypeOK
<1>3. OpenIsMapped'
  <2>1. ASSUME NEW g \in Flights, g # f, flight[g].open, flight[g].task # "over"
        PROVE  flights'[flight[g].key] = g /\ ~flight[g].result
    <3>1. Retained[flight[g].key] = g /\ ~flight[g].result /\ flight[g].key \in Keys
      BY <2>1, RetainedFacts, FlightFields DEF OpenIsMapped, TypeOK
    <3>2. flight[g].key # k
      BY <3>1, <2>1, <1>n, <1>0 DEF Joinable
    <3> QED BY <3>1, <3>2, <1>m
  <2>2. /\ NewFlight(k).key = k /\ NewFlight(k).open /\ ~NewFlight(k).result
        /\ NewFlight(k).task = "polled"
    BY NewFlightFacts
  <2> QED BY <2>1, <2>2, <1>g, <1>m DEF OpenIsMapped
<1>4. MapIsTrue'
  <2> SUFFICES ASSUME NEW j \in Keys, flights'[j] # NoFlight
               PROVE  flight'[flights'[j]].key = j
    BY DEF MapIsTrue
  <2>1. CASE j = k
    BY <2>1, <1>m, <1>g, NewFlightFacts
  <2>2. CASE j # k
    <3>1. Retained[j] \in Flights /\ Live(Retained[j]) /\ flight[Retained[j]].key = j
      BY <2>2, <1>m, RetainedFacts
    <3> QED BY <2>2, <3>1, <1>m, <1>f, <1>g
  <2> QED BY <2>1, <2>2
<1>5. WaitersCounted'
  <2>1. ASSUME NEW g \in Flights, g # f
        PROVE  IF flight'[g].open THEN flight'[g].count = Cardinality(Observers(g)') ELSE Observers(g)' = {}
    BY <2>1, <1>g, <1>o DEF WaitersCounted
  <2>2. flight'[f].open /\ flight'[f].count = Cardinality(Observers(f)')
    <3>1. Cardinality({c}) = 1
      BY FS_Singleton
    <3> QED BY <3>1, <1>g, <1>o, NewFlightFacts
  <2> QED BY <2>1, <2>2 DEF WaitersCounted
<1>6. PlacesOwned'
  <2>1. ASSUME NEW g \in Flights, g # f
        PROVE  (g \in workers' => g \in workers) /\ (g \in Pool!InLine' => g \in Pool!InLine)
    BY <2>1, <1>f, Entering
  <2>2. flight'[f].task = "polled"
    BY <1>g, NewFlightFacts
  <2> QED BY <2>1, <2>2, <1>g DEF PlacesOwned
<1>7. UnobservedIsTold'
  <2>1. flight'[f].task = "polled"
    BY <1>g, NewFlightFacts
  <2> QED BY <1>g, <2>1 DEF UnobservedIsTold, Unobserved
<1>8. AnswersAreResults'
  <2> SUFFICES ASSUME NEW d \in Callers, wait'[d] # NoFlight, flight'[wait'[d]].task = "over"
               PROVE  flight'[wait'[d]].result
    BY DEF AnswersAreResults
  <2>1. wait'[d] \in Flights /\ wait'[d] # f
    <3>1. wait'[d] \in Flights
      BY <1>1 DEF TypeOK
    <3>2. flight'[f].task = "polled"
      BY <1>g, NewFlightFacts
    <3> QED BY <3>1, <3>2
  <2>2. d # c /\ wait'[d] = wait[d]
    BY <2>1, <1>f DEF TypeOK
  <2> QED BY <2>1, <2>2, <1>g DEF AnswersAreResults
<1> QED BY <1>1, <1>f, <1>3, <1>4, <1>5, <1>6, <1>7, <1>8, Entering

-----------------------------------------------------------------------------
LEMMA WorkAtInit ==
    ASSUME WorkAssumption
    PROVE  Init => WorkInvariant
<1> SUFFICES ASSUME Init PROVE WorkInvariant
  OBVIOUS
<1>1. /\ flights = [k \in Keys |-> NoFlight] /\ flight = [f \in Flights |-> OldFlight]
      /\ wait = [c \in Callers |-> NoFlight] /\ workers = {} /\ backlog = <<>>
  BY DEF Init, Pool!GateInit
<1>2. \A f \in Flights : Observers(f) = {}
  BY <1>1 DEF Observers, WorkAssumption
<1>3. TypeOK
  BY <1>1, OldFlightFacts DEF TypeOK
<1>4. LineSound /\ PlacesOwned
  BY <1>1 DEF LineSound, PlacesOwned, Pool!InLine
<1>5. OpenIsMapped /\ UnobservedIsTold
  BY <1>1, OldFlightFacts DEF OpenIsMapped, UnobservedIsTold
<1>6. MapIsTrue /\ AnswersAreResults
  BY <1>1 DEF MapIsTrue, AnswersAreResults
<1>7. WaitersCounted
  BY <1>1, <1>2, OldFlightFacts DEF WaitersCounted
<1> QED BY <1>3, <1>4, <1>5, <1>6, <1>7 DEF WorkInvariant

LEMMA WorkKeeps ==
    ASSUME WorkAssumption, WorkInvariant, [Next]_vars
    PROVE  WorkInvariant'
<1>1. ASSUME NEW c \in Callers, Receive(c) PROVE WorkInvariant'
  <2>1. wait[c] \in Flights
    BY <1>1 DEF Receive, WorkInvariant, TypeOK
  <2> QED BY <1>1, <2>1, WaiterGone DEF Receive
<1>2. ASSUME NEW c \in Callers, GiveUpWaiting(c) PROVE WorkInvariant'
  <2>1. wait[c] \in Flights
    BY <1>2 DEF GiveUpWaiting, WorkInvariant, TypeOK
  <2> QED BY <1>2, <2>1, WaiterGone DEF GiveUpWaiting
<1>3. CASE UNCHANGED vars
  <2>1. UNCHANGED <<flights, flight, wait, workers, backlog>>
    BY <1>3 DEF vars
  <2>2. TypeOK' /\ LineSound' /\ OpenIsMapped'
    BY <2>1 DEF WorkInvariant, TypeOK, LineSound, OpenIsMapped
  <2>3. MapIsTrue' /\ WaitersCounted' /\ AnswersAreResults'
    BY <2>1 DEF WorkInvariant, MapIsTrue, WaitersCounted, AnswersAreResults, Live, Observers
  <2>4. PlacesOwned' /\ UnobservedIsTold'
    BY <2>1, PlacesStay DEF WorkInvariant, PlacesOwned, UnobservedIsTold, Unobserved
  <2> QED BY <2>2, <2>3, <2>4 DEF WorkInvariant
<1> QED BY <1>1, <1>2, <1>3, JoinKeeps, LaunchKeeps, TaskKeeps DEF Next

(* Two flights that resolve the same secret are both the one in the map. *)
LEMMA MapGivesOneResolution ==
    ASSUME WorkInvariant
    PROVE  OneResolution
<1> SUFFICES ASSUME NEW f \in Flights, NEW g \in Flights, flight[f].task = "resolving",
                    flight[g].task = "resolving", flight[f].key = flight[g].key
             PROVE  f = g
  BY DEF OneResolution
<1>1. flight[f].open /\ flight[g].open
  BY DEF WorkInvariant, OpenIsMapped
<1> QED BY <1>1 DEF WorkInvariant, OpenIsMapped

(* Runtime::work, for every number of callers, secrets and workers: a secret   *)
(* is never resolved twice at a time, the counter of a flight is its waiters,  *)
(* worker places belong to tasks on their way, an abandoned flight has been    *)
(* told, and nobody finds a channel closed on it.                              *)
THEOREM WorkStaysShared ==
    ASSUME WorkAssumption
    PROVE  Spec => []WorkIsShared
<1>1. Init => WorkInvariant
  BY WorkAtInit
<1>2. WorkInvariant /\ [Next]_vars => WorkInvariant'
  BY WorkKeeps
<1>3. WorkInvariant => WorkIsShared
  BY MapGivesOneResolution DEF WorkInvariant, WorkIsShared
<1> QED BY <1>1, <1>2, <1>3, PTL DEF Spec

-----------------------------------------------------------------------------
(* The phases before a call has an item, and those in which its own is      *)
(* staged, written, published.                                              *)
Unstaged == {"idle", "lock", "find", "encrypt", "session", "encrypted", "create"}
Empty == {"item", "search", "checked", "secret"}
Written == {"verify", "vacant", "publish"}
Shown == {"published", "confirm"}

(* What a call does in which phase. *)
PhasesFit ==
    \A c \in Calls :
        /\ at[c] \in {"idle", "lock", "find"} => ~created[c] /\ value[c] = "none"
        /\ at[c] = "lock" => op[c] \in {"set", "delete"}
        /\ at[c] = "find" => op[c] # "none"
        /\ at[c] = "delete" => op[c] = "delete" /\ ~created[c]
        /\ at[c] \in {"encrypt", "session", "encrypted"} \cup Empty \cup {"verify"} =>
               op[c] \in {"set", "resolve"}
        /\ at[c] \in {"create", "vacant", "publish", "cleanup"} \cup Shown => created[c]
        /\ created[c] => op[c] = "set"
        /\ op[c] # "resolve" => value[c] = "none"
        /\ at[c] \notin {"cleanup", "done"} => returned[c] = "none"
        /\ at[c] = "cleanup" => returned[c] # "Ok"
        /\ op[c] = "resolve" /\ (at[c] = "verify" \/ returned[c] = "Ok") => value[c] # "none"
        /\ op[c] = "resolve" /\ returned[c] = "Ok" => value[c] # "empty"

(* Whoever changes the store has the account's name. *)
NameHeld ==
    \A c \in Calls : op[c] \in {"set", "delete"} /\ at[c] \notin {"idle", "lock", "done"}
        => name_owner = c

(* A session that passed the second check is of the daemon asked first. *)
SessionsFit ==
    \A c \in Calls :
        /\ owner[c] <= daemon
        /\ at[c] = "encrypted" => owner[c] <= session[c] /\ session[c] <= daemon
        /\ at[c] \in {"create"} \cup Empty => session[c] = owner[c]

(* Every item is nothing, the account's or another's, or staged by a call. *)
ItemFits(p) ==
    /\ items[p].attrs = "absent" => items[p] = Absent
    /\ items[p].attrs = "other" => ~items[p].ours
    /\ items[p].attrs \in {"account", "other"} => items[p].secret \in {"theirs"} \cup Calls
    /\ items[p].attrs \in Calls =>
         /\ items[p].ours /\ items[p].secret \in {"empty", items[p].attrs}
         /\ created[items[p].attrs] /\ at[items[p].attrs] \notin Unstaged
         /\ path[items[p].attrs] = p
ItemsFit == \A p \in Paths : ItemFits(p)
OursIsOne ==
    \A p, q \in Paths : items[p].attrs = "account" /\ items[q].attrs = "account"
        /\ items[p].ours /\ items[q].ours => p = q

(* What a set that found no item has made of its own. *)
ItemIs(p, attrs, secret, ours) ==
    items[p].attrs = attrs /\ items[p].secret = secret /\ items[p].ours = ours
StagedFits(c) ==
    /\ at[c] \notin Unstaged \cup {"done"} => path[c] \in Paths
    /\ owner[c] = daemon =>
         /\ at[c] \in Empty => ItemIs(path[c], c, "empty", TRUE)
         /\ at[c] \in Written => ItemIs(path[c], c, c, TRUE)
         /\ at[c] \in Shown => ItemIs(path[c], "account", c, TRUE)
         /\ at[c] = "cleanup" => items[path[c]].attrs = c
    /\ at[c] \in Written =>
         \/ items[path[c]] = Absent \/ ItemIs(path[c], c, c, TRUE)
         \/ items[path[c]].attrs \in {"account", "other"} /\ ~items[path[c]].ours
    /\ at[c] = "publish" => \A p \in Paths : items[p].attrs = "account" => ~items[p].ours
StagedFit == \A c \in Calls : created[c] => StagedFits(c)

(* What a call that found an item may count on. *)
Finding == {"encrypt", "session", "encrypted", "delete", "verify"} \cup Empty
FoundFits(c) ==
    /\ path[c] \in Paths
    /\ owner[c] = daemon => items[path[c]].attrs # "other"
    /\ owner[c] = daemon /\ op[c] \in {"set", "delete"} =>
         /\ items[path[c]].attrs = "account"
         /\ foreign = 0 => \A p \in Paths : items[p].attrs = "account" => p = path[c]
    /\ owner[c] = daemon /\ op[c] = "set" /\ at[c] = "verify" => items[path[c]].secret = c
FoundFit == \A c \in Calls : ~created[c] /\ at[c] \in Finding => FoundFits(c)

(* What a resolve has read. *)
ValuesFit ==
    \A c \in Calls : op[c] = "resolve" /\ value[c] # "none" =>
        \/ value[c] = "empty"
        \/ value[c] \in seen[c]
        \/ \E d \in Calls : value[c] = d /\ created[d] /\ at[d] \notin Unstaged
                              /\ path[d] = path[c]

StoreInv == /\ StoreTyped /\ PhasesFit /\ NameHeld /\ SessionsFit /\ ItemsFit /\ OursIsOne
            /\ StagedFit /\ FoundFit /\ ValuesFit

(* The one item SearchItems found is the one find returns. *)
LEMMA OneOf ==
    ASSUME NEW S, IsFiniteSet(S), Cardinality(S) = 1
    PROVE  S = {CHOOSE p \in S : TRUE}
<1>1. PICK x : x \in S
    BY FS_EmptySet
<1>2. Cardinality(S \ {x}) = 0 /\ IsFiniteSet(S \ {x})
    BY <1>1, FS_RemoveElement
<1>3. S \ {x} = {}
    BY <1>2, FS_EmptySet
<1> QED BY <1>1, <1>3

(* What could have been read during a call only grows. *)
LEMMA SeesMore ==
    ASSUME StoreTyped, Sees,
           items' \in [Paths -> [attrs : Attributes, secret : Secrets, ours : BOOLEAN]]
    PROVE  seen' \in [Calls -> SUBSET Secrets] /\ \A c \in Calls : seen[c] \subseteq seen'[c]
BY DEF StoreTyped, Sees

(* While one call may change the store, no other does. *)
LEMMA Alone ==
    ASSUME PhasesFit, NameHeld, NEW c \in Calls, op[c] \in {"set", "delete"},
           at[c] \notin {"idle", "lock", "done"}, NEW d \in Calls, d # c
    PROVE  /\ op[d] \in {"set", "delete"} => at[d] \in {"idle", "lock", "done"}
           /\ created[d] => at[d] = "done"
BY DEF PhasesFit, NameHeld

(* What another call counts on is left alone, if no item becomes another's. *)
LEMMA OthersFit ==
    ASSUME StoreInv, NEW c \in Calls, op[c] \in {"set", "delete"},
           at[c] \notin {"idle", "lock", "done"}, NEW d \in Calls, d # c,
           UNCHANGED <<at[d], op, owner, created, path[d], daemon>>,
           \A q \in Paths : items'[q].attrs = "other" => items[q].attrs = "other"
    PROVE  /\ created'[d] => StagedFits(d)'
           /\ ~created'[d] /\ at'[d] \in Finding => FoundFits(d)'
<1>1. CASE created[d]
    <2>1. at'[d] = "done"
        BY <1>1, Alone DEF StoreInv
    <2> QED BY <1>1, <2>1 DEF StagedFits, ItemIs, Unstaged, Empty, Written, Shown
<1>2. CASE ~created[d] /\ at[d] \in Finding
    <2>1. FoundFits(d) /\ op[d] \notin {"set", "delete"}
        BY <1>2, Alone DEF StoreInv, FoundFit, Finding, Empty
    <2> QED BY <1>2, <2>1 DEF FoundFits
<1> QED BY <1>1, <1>2


(* A call starts. *)
LEMMA ConnectKeeps ==
    ASSUME StoreInv, Sees, NEW c \in Calls,
           Connect(c)
    PROVE  StoreInv'
<1> USE StoreAssumption DEF StoreInv
<1>1. StoreTyped'
    BY SeesMore DEF Connect, Moves, World, StoreTyped, Phases
<1>2. PhasesFit'
    BY DEF Connect, Moves, World, StoreTyped, PhasesFit, Empty, Shown
<1>3. NameHeld'
    BY DEF Connect, Moves, World, StoreTyped, PhasesFit, NameHeld
<1>4. SessionsFit'
    BY DEF Connect, Moves, World, StoreTyped, SessionsFit, Empty
<1>5. ItemsFit'
    BY DEF Connect, Moves, World, StoreTyped, PhasesFit, ItemsFit, ItemFits, Unstaged
<1>6. OursIsOne'
    BY DEF Connect, Moves, World, OursIsOne
<1>7. StagedFit'
    BY DEF Connect, Moves, World, StoreTyped, PhasesFit, StagedFit, StagedFits, ItemIs,
           Unstaged, Empty, Written, Shown, Published
<1>8. FoundFit'
    BY DEF Connect, Moves, World, StoreTyped, PhasesFit, FoundFit, FoundFits, Finding,
           Empty
<1>9. ValuesFit'
    BY <1>1, SeesMore DEF Connect, Moves, World, StoreTyped, PhasesFit, ValuesFit,
           Unstaged
<1> QED BY <1>1, <1>2, <1>3, <1>4, <1>5, <1>6, <1>7, <1>8, <1>9

(* A call looks for the account's item. *)
LEMMA FindKeeps ==
    ASSUME StoreInv, Sees, NEW c \in Calls,
           Find(c)
    PROVE  StoreInv'
<1> USE StoreAssumption DEF StoreInv
<1> DEFINE p == CHOOSE q \in Published : TRUE
<1>1. Cardinality(Published) = 1 => Published = {p} /\ p \in Paths
    BY OneOf, FS_Subset DEF Published
<1>2. StoreTyped'
    <2>1. path' \in [Calls -> Paths \cup {0}]
        BY <1>1 DEF Find, StoreTyped
    <2>2. created' \in [Calls -> BOOLEAN]
        BY DEF Find, StoreTyped
    <2> QED BY <2>1, <2>2, SeesMore DEF Find, Moves, Returns, World, StoreTyped, Phases
<1>3. PhasesFit'
    BY DEF Find, Moves, Returns, World, StoreTyped, PhasesFit, Empty, Shown
<1>4. NameHeld'
    BY DEF Find, Moves, Returns, World, StoreTyped, NameHeld
<1>5. SessionsFit'
    BY DEF Find, Moves, Returns, World, StoreTyped, SessionsFit, Empty
<1>6. ItemsFit'
    BY DEF Find, Moves, Returns, World, StoreTyped, PhasesFit, ItemsFit, ItemFits, Unstaged
<1>7. OursIsOne'
    BY DEF Find, World, OursIsOne
<1>8. StagedFit'
    <2>1. StagedFits(c)'
        <3>1. /\ at'[c] \in {"encrypt", "delete", "done"}
              /\ at'[c] = "delete" => path'[c] = p /\ p \in Paths
            BY <1>1 DEF Find, Moves, Returns, StoreTyped
        <3> QED BY <3>1 DEF StagedFits, ItemIs, Unstaged, Empty, Written, Shown
    <2>2. ASSUME NEW d \in Calls, d # c, created'[d] PROVE StagedFits(d)'
        <3>1. UNCHANGED <<items, daemon, owner, at[d]>>
            BY <2>2 DEF Find, Moves, Returns, World, StoreTyped
        <3>2. path'[d] = path[d]
            BY <2>2 DEF Find, StoreTyped
        <3>3. created'[d] = created[d]
            <4>1. PICK b : created' = [created EXCEPT ![c] = b]
                <5>1. UNCHANGED created => created' = [created EXCEPT ![c] = created[c]]
                    BY DEF StoreTyped
                <5> QED BY <5>1, Zenon DEF Find
            <4> QED BY <2>2, <4>1 DEF StoreTyped
        <3> QED BY <2>2, <3>1, <3>2, <3>3 DEF StagedFit, StagedFits, ItemIs
    <2> QED BY <2>1, <2>2 DEF StagedFit
<1>9. FoundFit'
    <2> SUFFICES ASSUME NEW d \in Calls, ~created'[d], at'[d] \in Finding PROVE FoundFits(d)'
        BY DEF FoundFit
    <2>1. CASE d # c
        BY <2>1 DEF Find, Moves, Returns, World, StoreTyped, FoundFit, FoundFits
    <2>2. CASE d = c
        <3>1. /\ path'[c] = p /\ Published = {p} /\ p \in Paths /\ at'[c] \in {"encrypt", "delete"}
              /\ UNCHANGED items
            <4>1. at'[c] # "done"
                BY <2>2 DEF Finding, Empty
            <4>2. Published # {}
                <5>1. SUFFICES ASSUME Published = {} PROVE FALSE
                    OBVIOUS
                <5>2. op[c] = "set" /\ created' = [created EXCEPT ![c] = op[c] = "set"]
                    BY <4>1, <5>1, FS_EmptySet DEF Find, Returns, StoreTyped
                <5>3. created'[c]
                    BY <5>2 DEF StoreTyped
                <5> QED BY <2>2, <5>3
            <4> QED BY <1>1, <4>1, <4>2 DEF Find, Moves, Returns, World, StoreTyped
        <3>2. items[p].attrs = "account" /\ \A q \in Paths : items[q].attrs = "account" => q = p
            BY <3>1 DEF Published
        <3> QED BY <2>2, <3>1, <3>2 DEF FoundFits
    <2> QED BY <2>1, <2>2
<1>10. ValuesFit'
    BY <1>2, SeesMore DEF Find, Moves, Returns, World, StoreTyped, PhasesFit, ValuesFit, Unstaged
<1> QED BY <1>2, <1>3, <1>4, <1>5, <1>6, <1>7, <1>8, <1>9, <1>10

(* A call opens its encryption session. *)
LEMMA OpenSessionKeeps ==
    ASSUME StoreInv, Sees, NEW c \in Calls,
           OpenSession(c)
    PROVE  StoreInv'
<1> USE StoreAssumption DEF StoreInv
<1>1. StoreTyped'
    BY SeesMore DEF OpenSession, Moves, World, StoreTyped, Phases
<1>2. PhasesFit'
    BY DEF OpenSession, Moves, World, StoreTyped, PhasesFit, Empty, Shown
<1>3. NameHeld'
    BY DEF OpenSession, Moves, World, StoreTyped, PhasesFit, NameHeld
<1>4. SessionsFit'
    BY DEF OpenSession, Moves, World, StoreTyped, SessionsFit, Empty
<1>5. ItemsFit'
    BY DEF OpenSession, Moves, World, StoreTyped, PhasesFit, ItemsFit, ItemFits, Unstaged
<1>6. OursIsOne'
    BY DEF OpenSession, Moves, World, OursIsOne
<1>7. StagedFit'
    BY DEF OpenSession, Moves, World, StoreTyped, PhasesFit, StagedFit, StagedFits,
           ItemIs, Unstaged, Empty, Written, Shown, Published
<1>8. FoundFit'
    BY DEF OpenSession, Moves, World, StoreTyped, PhasesFit, FoundFit, FoundFits, Finding,
           Empty
<1>9. ValuesFit'
    BY <1>1, SeesMore DEF OpenSession, Moves, World, StoreTyped, PhasesFit, ValuesFit,
           Unstaged
<1> QED BY <1>1, <1>2, <1>3, <1>4, <1>5, <1>6, <1>7, <1>8, <1>9

(* A set stages an item of its own. *)
LEMMA CreateKeeps ==
    ASSUME StoreInv, Sees, NEW c \in Calls,
           CreateStagingItem(c)
    PROVE  StoreInv'
<1> USE StoreAssumption DEF StoreInv
<1>1. PICK p \in Paths : /\ items[p] = Absent /\ path' = [path EXCEPT ![c] = p]
                          /\ items' = [items EXCEPT ![p] = ItemWith(c, "empty", TRUE)]
    BY DEF CreateStagingItem, StagingAttributes
<1>2. /\ items'[p] = ItemWith(c, "empty", TRUE) /\ \A q \in Paths : q # p => items'[q] = items[q]
      /\ path'[c] = p /\ \A d \in Calls : d # c => path'[d] = path[d] /\ at'[d] = at[d]
      /\ at[c] = "create" /\ at'[c] = "item" /\ owner[c] = daemon /\ created[c] /\ op[c] = "set"
      /\ UNCHANGED <<op, owner, created, session, value, daemon, foreign, name_owner, returned>>
    BY <1>1 DEF CreateStagingItem, Moves, StoreTyped, PhasesFit
<1>3. StoreTyped'
    <2>1. items' \in [Paths -> [attrs : Attributes, secret : Secrets, ours : BOOLEAN]]
        BY <1>1 DEF StoreTyped, Attributes, Secrets, ItemWith
    <2> QED BY <1>1, <2>1, SeesMore DEF CreateStagingItem, Moves, StoreTyped, Phases
<1>4. PhasesFit'
    BY <1>2 DEF PhasesFit, Empty, Shown
<1>5. NameHeld'
    BY <1>2 DEF NameHeld
<1>6. SessionsFit'
    BY <1>2 DEF SessionsFit, Empty
<1>7. ItemsFit'
    <2> SUFFICES ASSUME NEW q \in Paths PROVE ItemFits(q)'
        BY DEF ItemsFit
    <2>1. CASE q = p
        BY <1>2, <2>1 DEF ItemFits, ItemWith, Unstaged
    <2>2. CASE q # p
        BY <1>2, <2>2 DEF StoreTyped, Unstaged, ItemsFit, ItemFits
    <2> QED BY <2>1, <2>2
<1>8. OursIsOne'
    <2>1. items'[p].attrs # "account"
        BY <1>2 DEF ItemWith
    <2> QED BY <1>2, <2>1 DEF OursIsOne
<1>9. StagedFits(c)' /\ \A q \in Paths : items'[q].attrs = "other" => items[q].attrs = "other"
    BY <1>2 DEF StagedFits, ItemIs, ItemWith, Unstaged, Empty, Written, Shown
<1>10. StagedFit' /\ FoundFit'
    BY <1>2, <1>9, OthersFit DEF StagedFit, FoundFit
<1>11. ValuesFit'
    BY <1>2, <1>3, SeesMore DEF StoreTyped, ValuesFit, Unstaged
<1> QED BY <1>3, <1>4, <1>5, <1>6, <1>7, <1>8, <1>10, <1>11

(* A set writes the secret. *)
LEMMA WriteSecretKeeps ==
    ASSUME StoreInv, Sees, NEW c \in Calls,
           Secret(c), session[c] = daemon, items[path[c]] # Absent, op[c] = "set"
    PROVE  StoreInv'
<1> USE StoreAssumption DEF StoreInv
<1>1. path[c] \in Paths /\ at[c] = "secret" /\ owner[c] = daemon
    BY DEF Secret, PhasesFit, SessionsFit, StagedFit, StagedFits, ItemIs, FoundFit, FoundFits, Unstaged,
           Empty, Finding
<1>2. /\ items'[path[c]] = [items[path[c]] EXCEPT !.secret = c]
      /\ \A q \in Paths : q # path[c] => items'[q] = items[q]
      /\ at'[c] = "verify" /\ \A d \in Calls : d # c => at'[d] = at[d]
      /\ UNCHANGED <<op, owner, path, created, session, value, daemon, foreign, returned, name_owner>>
    BY <1>1 DEF Secret, Moves, call, StoreTyped
<1>3. /\ items'[path[c]].secret = c /\ items'[path[c]].ours = items[path[c]].ours
      /\ items'[path[c]].attrs = items[path[c]].attrs
    BY <1>1, <1>2 DEF StoreTyped
<1>4. /\ created[c] => ItemIs(path[c], c, c, TRUE)'
      /\ ~created[c] => FoundFits(c) /\ items'[path[c]].attrs = "account"
    <2>1. CASE created[c]
        BY <1>1, <1>2, <1>3, <2>1 DEF StagedFit, StagedFits, ItemIs, Empty
    <2>2. CASE ~created[c]
        BY <1>1, <1>3, <2>2 DEF FoundFit, FoundFits, Empty, Finding
    <2> QED BY <2>1, <2>2
<1>5. StoreTyped'
    <2>1. items' \in [Paths -> [attrs : Attributes, secret : Secrets, ours : BOOLEAN]]
        BY <1>1 DEF Secret, StoreTyped, Secrets
    <2> QED BY <2>1, SeesMore DEF Secret, Moves, call, StoreTyped, Phases
<1>6. PhasesFit' /\ NameHeld' /\ SessionsFit'
    BY <1>1, <1>2 DEF PhasesFit, NameHeld, SessionsFit, Empty, Shown
<1>7. ItemsFit'
    <2> SUFFICES ASSUME NEW q \in Paths PROVE ItemFits(q)'
        BY DEF ItemsFit
    <2>1. CASE q = path[c]
        <3>1. CASE created[c]
            BY <1>2, <1>4, <2>1, <3>1 DEF ItemFits, ItemIs, Unstaged
        <3>2. CASE ~created[c]
            BY <1>3, <1>4, <2>1, <3>2 DEF ItemFits
        <3> QED BY <3>1, <3>2
    <2>2. CASE q # path[c]
        BY <1>2, <2>2 DEF StoreTyped, Unstaged, ItemsFit, ItemFits
    <2> QED BY <2>1, <2>2
<1>8. OursIsOne'
    <2>1. \A q \in Paths : items'[q].attrs = items[q].attrs /\ items'[q].ours = items[q].ours
        BY <1>2, <1>3
    <2> QED BY <2>1 DEF OursIsOne
<1>9. /\ created[c] => StagedFits(c)'
      /\ ~created[c] => FoundFits(c)'
      /\ \A q \in Paths : items'[q].attrs = "other" => items[q].attrs = "other"
    <2>1. \A q \in Paths : items'[q].attrs = items[q].attrs
        BY <1>2, <1>3
    <2>2. created[c] => StagedFits(c)'
        BY <1>1, <1>2, <1>4 DEF StagedFits, Unstaged, Empty, Written, Shown
    <2>3. ~created[c] => FoundFits(c)'
        BY <1>1, <1>2, <1>3, <1>4, <2>1 DEF FoundFits
    <2> QED BY <2>1, <2>2, <2>3
<1>10. StagedFit' /\ FoundFit'
    BY <1>1, <1>2, <1>9, OthersFit DEF StagedFit, FoundFit
<1>11. ValuesFit'
    BY <1>2, <1>5, SeesMore DEF StoreTyped, ValuesFit, Unstaged
<1> QED BY <1>5, <1>6, <1>7, <1>8, <1>10, <1>11

(* A resolve reads the secret. *)
LEMMA ReadSecretKeeps ==
    ASSUME StoreInv, Sees, NEW c \in Calls,
           Secret(c), session[c] = daemon, items[path[c]] # Absent, op[c] # "set"
    PROVE  StoreInv'
<1> USE StoreAssumption DEF StoreInv
<1>1. /\ path[c] \in Paths /\ at[c] = "secret" /\ owner[c] = daemon /\ op[c] = "resolve"
      /\ ~created[c] /\ FoundFits(c)
    BY DEF Secret, PhasesFit, SessionsFit, FoundFit, FoundFits, Empty, Finding
<1>2. /\ value' = [value EXCEPT ![c] = items[path[c]].secret] /\ at' = [at EXCEPT ![c] = "verify"]
      /\ UNCHANGED <<items, op, owner, path, created, session, daemon, foreign, returned, name_owner>>
    BY DEF Secret, Moves, call
<1>3. /\ items[path[c]].attrs \in {"account"} \cup Calls /\ items[path[c]].secret # "none"
      /\ items[path[c]].attrs \in Calls /\ items[path[c]].secret # "empty" =>
           \E d \in Calls : items[path[c]].secret = d /\ created[d] /\ at[d] \notin Unstaged
                              /\ path[d] = path[c]
    <2>1. ItemFits(path[c]) /\ items[path[c]].attrs \in Attributes \ {"absent", "other"}
        BY <1>1 DEF StoreTyped, ItemsFit, ItemFits, FoundFits
    <2> QED BY <2>1 DEF ItemFits, Attributes
<1>4. StoreTyped'
    BY <1>1, <1>2, SeesMore DEF StoreTyped, Phases, Secrets
<1>5. PhasesFit'
    BY <1>1, <1>2, <1>3 DEF StoreTyped, PhasesFit, Empty, Shown
<1>6. NameHeld' /\ SessionsFit'
    BY <1>1, <1>2 DEF StoreTyped, NameHeld, SessionsFit, Empty
<1>7. ItemsFit' /\ OursIsOne'
    BY <1>1, <1>2 DEF StoreTyped, ItemsFit, ItemFits, OursIsOne, Unstaged
<1>8. StagedFit'
    <2>1. \A d \in Calls : created[d] => d # c /\ at'[d] = at[d]
        BY <1>1, <1>2 DEF StoreTyped
    <2> QED BY <1>2, <2>1 DEF StagedFit, StagedFits, ItemIs
<1>10. FoundFit'
    <2> SUFFICES ASSUME NEW d \in Calls, ~created'[d], at'[d] \in Finding PROVE FoundFits(d)'
        BY DEF FoundFit
    <2>1. CASE d = c
        BY <1>1, <1>2, <2>1 DEF FoundFits
    <2>2. CASE d # c
        BY <1>1, <1>2, <2>2 DEF StoreTyped, FoundFit, FoundFits
    <2> QED BY <2>1, <2>2
<1>9. ValuesFit'
    <2> SUFFICES ASSUME NEW d \in Calls, op'[d] = "resolve", value'[d] # "none"
                 PROVE  \/ value'[d] = "empty" \/ value'[d] \in seen'[d]
                        \/ \E e \in Calls : value'[d] = e /\ created'[e] /\ at'[e] \notin Unstaged
                                             /\ path'[e] = path'[d]
        BY DEF ValuesFit
    <2>1. CASE d = c /\ items[path[c]].attrs = "account"
        BY <1>1, <1>2, <2>1 DEF StoreTyped, Sees
    <2>2. CASE d = c /\ items[path[c]].attrs # "account"
        BY <1>1, <1>2, <1>3, <2>2 DEF StoreTyped, Unstaged
    <2>3. CASE d # c
        BY <1>1, <1>2, <1>4, <2>3, SeesMore DEF StoreTyped, ValuesFit, Unstaged
    <2> QED BY <2>1, <2>2, <2>3
<1> QED BY <1>4, <1>5, <1>6, <1>7, <1>8, <1>9, <1>10

(* A set gives its item the account's attributes. *)
LEMMA PublishKeeps ==
    ASSUME StoreInv, Sees, NEW c \in Calls,
           PublishItem(c), items[path[c]] # Absent
    PROVE  StoreInv'
<1> USE StoreAssumption DEF StoreInv
<1>1. path[c] \in Paths /\ created[c] /\ op[c] = "set" /\ at[c] = "publish"
    BY DEF PublishItem, PhasesFit, StagedFit, StagedFits, ItemIs, Unstaged
<1>2. /\ items'[path[c]] = [items[path[c]] EXCEPT !.attrs = "account"]
      /\ \A q \in Paths : q # path[c] => items'[q] = items[q]
      /\ at'[c] = "published" /\ \A d \in Calls : d # c => at'[d] = at[d]
      /\ UNCHANGED <<op, owner, path, created, session, value, daemon, foreign, returned, name_owner>>
    BY <1>1 DEF PublishItem, Moves, call, StoreTyped
<1>3. /\ items'[path[c]].attrs = "account" /\ items'[path[c]].ours = items[path[c]].ours
      /\ items'[path[c]].secret = items[path[c]].secret
    BY <1>1, <1>2 DEF StoreTyped
<1>4. StagedFits(c) /\ ItemFits(path[c])
    BY <1>1 DEF StagedFit, ItemsFit
<1>5. items[path[c]].secret \in {"theirs"} \cup Calls
    BY <1>1, <1>4 DEF StagedFits, ItemIs, ItemFits, Written, ItemWith
<1>6. StoreTyped'
    <2>1. items' \in [Paths -> [attrs : Attributes, secret : Secrets, ours : BOOLEAN]]
        BY <1>1 DEF PublishItem, StoreTyped, Attributes
    <2> QED BY <2>1, SeesMore DEF PublishItem, Moves, call, StoreTyped, Phases
<1>7. PhasesFit' /\ NameHeld' /\ SessionsFit'
    BY <1>1, <1>2 DEF PhasesFit, NameHeld, SessionsFit, Empty, Shown
<1>8. ItemsFit'
    <2> SUFFICES ASSUME NEW q \in Paths PROVE ItemFits(q)'
        BY DEF ItemsFit
    <2>1. CASE q = path[c]
        BY <1>3, <1>5, <2>1 DEF ItemFits
    <2>2. CASE q # path[c]
        BY <1>2, <2>2 DEF StoreTyped, Unstaged, ItemsFit, ItemFits
    <2> QED BY <2>1, <2>2
<1>9. OursIsOne'
    BY <1>1, <1>2, <1>4 DEF StagedFits, ItemIs, OursIsOne
<1>10. /\ StagedFits(c)'
       /\ \A q \in Paths : items'[q].attrs = "other" => items[q].attrs = "other"
    <2>1. owner[c] = daemon => ItemIs(path[c], "account", c, TRUE)'
        BY <1>1, <1>2, <1>3, <1>4 DEF StagedFits, ItemIs, Written
    <2> QED BY <1>1, <1>2, <1>3, <2>1 DEF StagedFits, ItemIs, Unstaged, Empty, Written, Shown
<1>11. StagedFit' /\ FoundFit'
    BY <1>1, <1>2, <1>10, OthersFit DEF StagedFit, FoundFit
<1>12. ValuesFit'
    BY <1>2, <1>6, SeesMore DEF StoreTyped, ValuesFit, Unstaged
<1> QED BY <1>6, <1>7, <1>8, <1>9, <1>11, <1>12

(* The account's item is deleted, or what was staged. *)
LEMMA DeleteKeeps ==
    ASSUME StoreInv, Sees, NEW c \in Calls,
           Delete(c)
    PROVE  StoreInv'
<1> USE StoreAssumption DEF StoreInv
<1>1. path[c] \in Paths /\ op[c] \in {"set", "delete"} /\ at[c] \in {"delete", "cleanup"}
    BY DEF Delete, PhasesFit, StagedFit, StagedFits, ItemIs, FoundFit, FoundFits, Finding, Unstaged
<1>2. /\ items'[path[c]] = Absent /\ \A q \in Paths : q # path[c] => items'[q] = items[q]
      /\ at'[c] = "done" /\ \A d \in Calls : d # c => at'[d] = at[d] /\ returned'[d] = returned[d]
      /\ name_owner' = (IF name_owner = c THEN "none" ELSE name_owner)
      /\ UNCHANGED <<op, owner, path, created, session, value, daemon, foreign>>
    BY <1>1 DEF Delete, Returns, call, StoreTyped
<1>3. StoreTyped'
    <2>1. items' \in [Paths -> [attrs : Attributes, secret : Secrets, ours : BOOLEAN]]
        BY <1>1 DEF Delete, StoreTyped, Attributes, Secrets, Absent
    <2> QED BY <2>1, SeesMore DEF Delete, Returns, call, StoreTyped, Phases
<1>4. PhasesFit'
    BY <1>1, <1>2 DEF PhasesFit, Empty, Shown
<1>5. NameHeld'
    BY <1>2 DEF NameHeld
<1>6. SessionsFit'
    BY <1>2 DEF SessionsFit, Empty
<1>7. ItemsFit'
    <2> SUFFICES ASSUME NEW q \in Paths PROVE ItemFits(q)'
        BY DEF ItemsFit
    <2>1. CASE q = path[c]
        BY <1>2, <2>1 DEF ItemFits, Absent
    <2>2. CASE q # path[c]
        BY <1>2, <2>2 DEF StoreTyped, Unstaged, ItemsFit, ItemFits
    <2> QED BY <2>1, <2>2
<1>8. OursIsOne'
    BY <1>2 DEF OursIsOne, Absent
<1>9. /\ StagedFits(c)' /\ at'[c] \notin Finding
      /\ \A q \in Paths : items'[q].attrs = "other" => items[q].attrs = "other"
    BY <1>2 DEF StagedFits, ItemIs, Absent, Unstaged, Empty, Written, Shown, Finding
<1>10. StagedFit' /\ FoundFit'
    BY <1>1, <1>2, <1>9, OthersFit DEF StagedFit, FoundFit
<1>11. ValuesFit'
    BY <1>2, <1>3, SeesMore DEF StoreTyped, ValuesFit, Unstaged
<1> QED BY <1>3, <1>4, <1>5, <1>6, <1>7, <1>8, <1>10, <1>11

(* The steps that leave the store, and what the call has of it, alone. *)
Finishes(c) ==
    \/ Secret(c) /\ (session[c] # daemon \/ items[path[c]] = Absent)
    \/ PublishItem(c) /\ items[path[c]] = Absent
    \/ Confirm(c) \/ Refused(c) \/ TimesOut(c)
Checks(c) ==
    \/ CheckOwner(c, "encrypt", "session")
    \/ CheckOwner(c, "encrypted", IF created[c] THEN "create" ELSE "item")
    \/ CheckOwner(c, "item", "search") \/ CheckOwner(c, "checked", "secret")
    \/ CheckOwner(c, "published", "confirm")
Looks(c) == LockMutation(c) \/ SearchItem(c) \/ Verify(c) \/ Vacant(c)

(* A call ends, or an error sends it to its cleanup. *)
LEMMA FinishesKeep ==
    ASSUME StoreInv, Sees, NEW c \in Calls,
           Finishes(c)
    PROVE  StoreInv'
<1> USE StoreAssumption DEF StoreInv
<1>1. StoreTyped'
    BY SeesMore DEF Finishes, Secret, PublishItem, Confirm, Refused, TimesOut, Fails, Returns,
           call, World, StoreTyped, Phases
<1>2. PhasesFit'
    BY DEF Finishes, Secret, PublishItem, Confirm, Refused, TimesOut, Fails, Returns, call,
           World, StoreTyped, PhasesFit, Empty, Shown
<1>3. NameHeld'
    BY DEF Finishes, Secret, PublishItem, Confirm, Refused, TimesOut, Fails, Returns, call,
           World, StoreTyped, PhasesFit, NameHeld
<1>4. SessionsFit'
    BY DEF Finishes, Secret, PublishItem, Confirm, Refused, TimesOut, Fails, Returns, call,
           World, StoreTyped, SessionsFit, Empty
<1>5. ItemsFit'
    BY DEF Finishes, Secret, PublishItem, Confirm, Refused, TimesOut, Fails, Returns, call,
           World, StoreTyped, PhasesFit, ItemsFit, ItemFits, Unstaged
<1>6. OursIsOne'
    BY DEF Finishes, Secret, PublishItem, Confirm, Refused, TimesOut, Fails, Returns, call,
           World, OursIsOne
<1>7. StagedFit'
    BY DEF Finishes, Secret, PublishItem, Confirm, Refused, TimesOut, Fails, Returns, call,
           World, StoreTyped, PhasesFit, StagedFit, StagedFits, ItemIs, Unstaged, Empty,
           Written, Shown, Published
<1>8. FoundFit'
    BY DEF Finishes, Secret, PublishItem, Confirm, Refused, TimesOut, Fails, Returns, call,
           World, StoreTyped, PhasesFit, FoundFit, FoundFits, Finding, Empty
<1>9. ValuesFit'
    BY <1>1, SeesMore DEF Finishes, Secret, PublishItem, Confirm, Refused, TimesOut, Fails,
           Returns, call, World, StoreTyped, PhasesFit, ValuesFit, Unstaged
<1> QED BY <1>1, <1>2, <1>3, <1>4, <1>5, <1>6, <1>7, <1>8, <1>9

(* A call checks who owns the name. *)
LEMMA ChecksKeep ==
    ASSUME StoreInv, Sees, NEW c \in Calls,
           Checks(c)
    PROVE  StoreInv'
<1> USE StoreAssumption DEF StoreInv
<1>1. StoreTyped'
    BY SeesMore DEF Checks, CheckOwner, SameOwner, Moves, Fails, Returns, call, World,
           StoreTyped, Phases
<1>2. PhasesFit'
    BY DEF Checks, CheckOwner, SameOwner, Moves, Fails, Returns, call, World, StoreTyped,
           PhasesFit, Empty, Shown
<1>3. NameHeld'
    BY DEF Checks, CheckOwner, SameOwner, Moves, Fails, Returns, call, World, StoreTyped,
           PhasesFit, NameHeld
<1>4. SessionsFit'
    BY DEF Checks, CheckOwner, SameOwner, Moves, Fails, Returns, call, World, StoreTyped,
           SessionsFit, Empty
<1>5. ItemsFit'
    BY DEF Checks, CheckOwner, SameOwner, Moves, Fails, Returns, call, World, StoreTyped,
           PhasesFit, ItemsFit, ItemFits, Unstaged
<1>6. OursIsOne'
    BY DEF Checks, CheckOwner, SameOwner, Moves, Fails, Returns, call, World, OursIsOne
<1>7. StagedFit'
    BY DEF Checks, CheckOwner, SameOwner, Moves, Fails, Returns, call, World, StoreTyped,
           PhasesFit, StagedFit, StagedFits, ItemIs, Unstaged, Empty, Written, Shown,
           Published
<1>8. FoundFit'
    BY DEF Checks, CheckOwner, SameOwner, Moves, Fails, Returns, call, World, StoreTyped,
           PhasesFit, FoundFit, FoundFits, Finding, Empty
<1>9. ValuesFit'
    BY <1>1, SeesMore DEF Checks, CheckOwner, SameOwner, Moves, Fails, Returns, call,
           World, StoreTyped, PhasesFit, ValuesFit, Unstaged
<1> QED BY <1>1, <1>2, <1>3, <1>4, <1>5, <1>6, <1>7, <1>8, <1>9

(* A call takes the name, or looks at the store. *)
LEMMA LooksKeep ==
    ASSUME StoreInv, Sees, NEW c \in Calls,
           Looks(c)
    PROVE  StoreInv'
<1> USE StoreAssumption DEF StoreInv
<1>1. StoreTyped'
    BY SeesMore DEF Looks, LockMutation, LockFree, SearchItem, Verify, SameOwner, Vacant,
           Moves, Fails, Returns, call, World, StoreTyped, Phases
<1>2. PhasesFit'
    BY DEF Looks, LockMutation, LockFree, SearchItem, Verify, SameOwner, Vacant, Moves,
           Fails, Returns, call, World, StoreTyped, PhasesFit, Empty, Shown
<1>3. NameHeld'
    BY DEF Looks, LockMutation, LockFree, SearchItem, Verify, SameOwner, Vacant, Moves,
           Fails, Returns, call, World, StoreTyped, PhasesFit, NameHeld
<1>4. SessionsFit'
    BY DEF Looks, LockMutation, LockFree, SearchItem, Verify, SameOwner, Vacant, Moves,
           Fails, Returns, call, World, StoreTyped, SessionsFit, Empty
<1>5. ItemsFit'
    BY DEF Looks, LockMutation, LockFree, SearchItem, Verify, SameOwner, Vacant, Moves,
           Fails, Returns, call, World, StoreTyped, PhasesFit, ItemsFit, ItemFits,
           Unstaged
<1>6. OursIsOne'
    BY DEF Looks, LockMutation, LockFree, SearchItem, Verify, SameOwner, Vacant, Moves,
           Fails, Returns, call, World, OursIsOne
<1>7. StagedFit'
    BY DEF Looks, LockMutation, LockFree, SearchItem, Verify, SameOwner, Vacant, Moves,
           Fails, Returns, call, World, StoreTyped, PhasesFit, StagedFit, StagedFits,
           ItemIs, Unstaged, Empty, Written, Shown, Published
<1>8. FoundFit'
    BY DEF Looks, LockMutation, LockFree, SearchItem, Verify, SameOwner, Vacant, Moves,
           Fails, Returns, call, World, StoreTyped, PhasesFit, FoundFit, FoundFits,
           Finding, Empty
<1>9. ValuesFit'
    BY <1>1, SeesMore DEF Looks, LockMutation, LockFree, SearchItem, Verify, SameOwner,
           Vacant, Moves, Fails, Returns, call, World, StoreTyped, PhasesFit, ValuesFit,
           Unstaged
<1> QED BY <1>1, <1>2, <1>3, <1>4, <1>5, <1>6, <1>7, <1>8, <1>9

(* Another daemon takes over: no call asked this one. *)
LEMMA ReplacedKeeps ==
    ASSUME StoreInv, Sees, Replaced
    PROVE  StoreInv'
<1> USE StoreAssumption DEF StoreInv
<1>1. \/ items' = items
      \/ items' = [p \in Paths |-> Absent]
      \/ items' = [p \in Paths |-> ItemWith(IF p = 1 THEN "account" ELSE "other", "theirs", FALSE)]
    BY DEF Replaced
<1>2. StoreTyped'
    <2>1. items' \in [Paths -> [attrs : Attributes, secret : Secrets, ours : BOOLEAN]]
        <3>1. CASE items' = items
            BY <3>1 DEF StoreTyped
        <3>2. CASE items' = [p \in Paths |-> Absent]
            BY <3>2 DEF Attributes, Secrets, Absent
        <3>3. CASE items' = [p \in Paths |->
                                ItemWith(IF p = 1 THEN "account" ELSE "other", "theirs", FALSE)]
            BY <3>3 DEF Attributes, Secrets, ItemWith
        <3> QED BY <1>1, <3>1, <3>2, <3>3
    <2> QED BY <2>1, SeesMore DEF Replaced, call, StoreTyped
<1>3. /\ UNCHANGED <<foreign, name_owner, op, at, owner, path, created, session, returned, value>>
      /\ daemon' = daemon + 1 /\ \A c \in Calls : owner'[c] # daemon'
    BY DEF Replaced, call, StoreTyped, SessionsFit
<1>4. PhasesFit' /\ NameHeld'
    BY <1>3 DEF PhasesFit, NameHeld
<1>5. SessionsFit'
    BY <1>3 DEF StoreTyped, SessionsFit
<1> DEFINE new(p) == \/ items'[p] = Absent /\ items'[p].attrs = "absent"
                     \/ /\ items'[p].attrs \in {"account", "other"} /\ items'[p].secret = "theirs"
                        /\ ~items'[p].ours
<1>6. items' = items \/ \A p \in Paths : new(p)
    <2>1. CASE items' = [p \in Paths |-> Absent]
        BY <2>1 DEF Absent
    <2>2. CASE items' = [p \in Paths |->
                            ItemWith(IF p = 1 THEN "account" ELSE "other", "theirs", FALSE)]
        BY <2>2 DEF ItemWith
    <2> QED BY <1>1, <2>1, <2>2
<1> HIDE DEF new
<1>7. ItemsFit' /\ OursIsOne'
    <2>1. CASE items' = items
        BY <1>3, <2>1 DEF ItemsFit, ItemFits, OursIsOne
    <2>2. CASE \A p \in Paths : new(p)
        BY <1>3, <2>2 DEF ItemsFit, ItemFits, OursIsOne, new
    <2> QED BY <1>6, <2>1, <2>2
<1>8. StagedFit'
    <2> SUFFICES ASSUME NEW c \in Calls, created[c] PROVE StagedFits(c)'
        BY <1>3 DEF StagedFit
    <2>1. StagedFits(c)
        BY DEF StagedFit
    <2>2. CASE items' = items
        BY <1>3, <2>1, <2>2 DEF StagedFits, ItemIs
    <2>3. CASE \A p \in Paths : new(p)
        BY <1>3, <2>1, <2>3 DEF StagedFits, new, Unstaged, Written
    <2> QED BY <1>6, <2>2, <2>3
<1>9. FoundFit'
    BY <1>3 DEF FoundFit, FoundFits
<1>10. ValuesFit'
    BY <1>2, <1>3, SeesMore DEF ValuesFit, StoreTyped
<1> QED BY <1>2, <1>4, <1>5, <1>7, <1>8, <1>9, <1>10

(* Another program makes an item: at a path nobody's item has. *)
LEMMA ForeignKeeps ==
    ASSUME StoreInv, Sees, ForeignItem
    PROVE  StoreInv'
<1> USE StoreAssumption DEF StoreInv
<1>1. PICK p \in Paths : /\ items[p] = Absent
                         /\ items' = [items EXCEPT ![p] = ItemWith("account", "theirs", FALSE)]
    BY DEF ForeignItem
<1>2. /\ UNCHANGED <<daemon, name_owner, op, at, owner, path, created, session, returned, value>>
      /\ foreign' \in Nat /\ foreign' # 0
    BY DEF ForeignItem, call, StoreTyped
<1>3. StoreTyped'
    <2>1. items' \in [Paths -> [attrs : Attributes, secret : Secrets, ours : BOOLEAN]]
        BY <1>1 DEF StoreTyped, Attributes, Secrets, ItemWith
    <2> QED BY <1>2, <2>1, SeesMore DEF StoreTyped
<1>4. /\ items'[p].attrs = "account" /\ items'[p].secret = "theirs" /\ ~items'[p].ours
      /\ items[p].attrs = "absent" /\ \A q \in Paths : q # p => items'[q] = items[q]
    BY <1>1 DEF StoreTyped, Absent, ItemWith
<1>5. PhasesFit' /\ NameHeld' /\ SessionsFit'
    BY <1>2 DEF PhasesFit, NameHeld, SessionsFit
<1>6. ItemsFit' /\ OursIsOne'
    <2> SUFFICES ASSUME NEW q \in Paths PROVE ItemFits(q)'
        BY <1>4 DEF ItemsFit, OursIsOne
    <2>1. CASE q = p
        BY <1>4, <2>1 DEF ItemFits
    <2>2. CASE q # p
        BY <1>2, <1>4, <2>2 DEF ItemsFit, ItemFits
    <2> QED BY <2>1, <2>2
<1>7. StagedFit'
    <2> SUFFICES ASSUME NEW c \in Calls, created[c] PROVE StagedFits(c)'
        BY <1>2 DEF StagedFit
    <2>1. StagedFits(c) /\ (at[c] \in {"publish"} => path[c] \in Paths)
        BY DEF StagedFit, StagedFits, Unstaged
    <2>2. CASE path[c] = p
        BY <1>2, <1>4, <2>1, <2>2 DEF StagedFits, ItemIs, Unstaged, Empty, Written, Shown
    <2>3. CASE path[c] # p
        <3>1. path[c] \in Paths => items'[path[c]] = items[path[c]]
            BY <1>4, <2>3
        <3> QED BY <1>2, <1>4, <2>1, <3>1 DEF StagedFits, ItemIs, Unstaged, Empty, Written, Shown
    <2> QED BY <2>2, <2>3
<1>8. FoundFit'
    <2> SUFFICES ASSUME NEW c \in Calls, ~created[c], at[c] \in Finding PROVE FoundFits(c)'
        BY <1>2 DEF FoundFit
    <2> QED BY <1>2, <1>4 DEF FoundFit, FoundFits
<1>9. ValuesFit'
    BY <1>2, <1>3, SeesMore DEF ValuesFit, StoreTyped
<1> QED BY <1>3, <1>5, <1>6, <1>7, <1>8, <1>9

(* A store that nobody uses yet, with or without an item of another program. *)
LEMMA StoreStarts ==
    ASSUME StoreInit
    PROVE  StoreInv
<1> USE StoreAssumption
<1>1. PICK start \in {Absent, ItemWith("account", "theirs", FALSE)} :
          items = [p \in Paths |-> IF p = 1 THEN start ELSE Absent]
    BY DEF StoreInit
<1>2. StoreTyped
    <2>1. /\ start \in [attrs : Attributes, secret : Secrets, ours : BOOLEAN]
          /\ Absent \in [attrs : Attributes, secret : Secrets, ours : BOOLEAN]
        <3>1. CASE start = Absent
            BY <3>1 DEF Absent, Attributes, Secrets
        <3>2. CASE start = ItemWith("account", "theirs", FALSE)
            BY <3>2 DEF Absent, ItemWith, Attributes, Secrets
        <3> QED BY <3>1, <3>2
    <2> QED BY <1>1, <2>1 DEF StoreInit, StoreTyped, Secrets, Phases
<1>3. ItemsFit /\ OursIsOne
    BY <1>1 DEF ItemsFit, ItemFits, OursIsOne, Absent, ItemWith
<1>4. PhasesFit /\ NameHeld /\ SessionsFit /\ StagedFit /\ FoundFit /\ ValuesFit
    BY DEF StoreInit, PhasesFit, NameHeld, SessionsFit, StagedFit, FoundFit, ValuesFit, Empty, Shown,
           Finding
<1> QED BY <1>2, <1>3, <1>4 DEF StoreInv

(* Every step of an operation, and of the world around it. *)
LEMMA StoreStep ==
    ASSUME StoreInv, StoreNext
    PROVE  StoreInv'
<1>1. Sees
    BY DEF StoreNext
<1>2. ASSUME NEW c \in Calls, Step(c) PROVE StoreInv'
    <2>1. CASE Connect(c)
        BY <1>1, <2>1, ConnectKeeps
    <2>2. CASE Find(c)
        BY <1>1, <2>2, FindKeeps
    <2>3. CASE OpenSession(c)
        BY <1>1, <2>3, OpenSessionKeeps
    <2>4. CASE CreateStagingItem(c)
        BY <1>1, <2>4, CreateKeeps
    <2>5. CASE Secret(c)
        BY <1>1, <2>5, WriteSecretKeeps, ReadSecretKeeps, FinishesKeep DEF Finishes
    <2>6. CASE PublishItem(c)
        BY <1>1, <2>6, PublishKeeps, FinishesKeep DEF Finishes
    <2>7. CASE Delete(c)
        BY <1>1, <2>7, DeleteKeeps
    <2>8. CASE Confirm(c) \/ Refused(c) \/ TimesOut(c)
        BY <1>1, <2>8, FinishesKeep DEF Finishes
    <2>9. CASE Checks(c)
        BY <1>1, <2>9, ChecksKeep
    <2>10. CASE Looks(c)
        BY <1>1, <2>10, LooksKeep
    <2> QED
        BY <1>2, <2>1, <2>2, <2>3, <2>4, <2>5, <2>6, <2>7, <2>8, <2>9, <2>10 DEF Step, Checks, Looks
<1>3. CASE Replaced
    BY <1>1, <1>3, ReplacedKeeps
<1>4. CASE ForeignItem
    BY <1>1, <1>4, ForeignKeeps
<1> QED BY <1>2, <1>3, <1>4 DEF StoreNext

(* What the invariant says of a state: one item of ours, its secret whole,  *)
(* and every value that resolve returned accounted for.                     *)
LEMMA StoreInvImplies ==
    ASSUME StoreInv
    PROVE  OneItemOfOurs /\ WholeSecret /\ ResolvedWasStored
<1> USE StoreAssumption DEF StoreInv
<1>1. OneItemOfOurs
    <2> DEFINE S == {p \in Published : items[p].ours}
    <2>1. \A p, q \in S : p = q
        BY DEF Published, OursIsOne
    <2>2. S = {} \/ \E p : S = {p}
        BY <2>1
    <2>3. Cardinality(S) \in {0, 1}
        BY <2>2, FS_EmptySet, FS_Singleton
    <2> QED BY <2>3 DEF OneItemOfOurs
<1>2. WholeSecret
    BY DEF WholeSecret, Published, ItemsFit, ItemFits
<1>3. ResolvedWasStored
    BY DEF ResolvedWasStored, PhasesFit, ValuesFit
<1> QED BY <1>1, <1>2, <1>3

(* The two steps in which a set succeeds. *)
LEMMA SetSucceeds ==
    ASSUME StoreInv, StoreNext
    PROVE  SetTakes
<1> USE StoreAssumption DEF StoreInv
<1> SUFFICES ASSUME NEW c \in Calls, op[c] = "set", returned[c] = "none", returned'[c] = "Ok"
             PROVE  /\ \E p \in Published : items[p].secret = c
                    /\ Cardinality(Published) = 1 \/ foreign > 0
    BY DEF SetTakes
<1>1. Step(c)
    <2>1. ASSUME NEW d \in Calls, d # c, Step(d) PROVE FALSE
        BY <2>1 DEF Step, Connect, LockMutation, Find, CheckOwner, OpenSession, CreateStagingItem,
               SearchItem, Secret, Verify, Vacant, PublishItem, Confirm, Delete, Refused, TimesOut,
               Moves, Fails, Returns, StoreTyped
    <2> QED BY <2>1 DEF StoreNext, Replaced, ForeignItem
<1>2. \/ Verify(c) /\ SameOwner(c) /\ ~created[c]
      \/ Confirm(c) /\ Published = {path[c]}
    BY <1>1 DEF Step, Connect, LockMutation, Find, CheckOwner, OpenSession, CreateStagingItem,
           SearchItem, Secret, Verify, Vacant, PublishItem, Confirm, Delete, Refused, TimesOut,
           Moves, Fails, Returns, StoreTyped, PhasesFit
<1>3. CASE Verify(c) /\ SameOwner(c) /\ ~created[c]
    <2>1. FoundFits(c) /\ at[c] = "verify" /\ owner[c] = daemon
        BY <1>3 DEF Verify, SameOwner, FoundFit, Finding
    <2>2. path[c] \in Published /\ items[path[c]].secret = c
        BY <2>1 DEF FoundFits, Published
    <2>3. foreign = 0 => Published = {path[c]}
        BY <2>1, <2>2 DEF FoundFits, Published
    <2>4. foreign = 0 => Cardinality(Published) = 1
        BY <2>3, FS_Singleton
    <2> QED BY <2>2, <2>4 DEF StoreTyped
<1>4. CASE Confirm(c) /\ Published = {path[c]}
    <2>1. created[c] /\ StagedFits(c) /\ at[c] = "confirm" /\ owner[c] = daemon
        BY <1>4 DEF Confirm, PhasesFit, StagedFit, Shown
    <2> QED BY <1>4, <2>1, FS_Singleton DEF StagedFits, ItemIs, Shown
<1> QED BY <1>2, <1>3, <1>4

(* set, delete and resolve of credentials/linux.rs: however operations       *)
(* overlap, fail, time out or lose their process, and whatever daemon has    *)
(* the service's name, mailctl gives the account at most one item, with its  *)
(* secret from the moment it is the account's; a set that succeeds leaves    *)
(* this secret and no other; and resolve returns a secret that was the       *)
(* account's in the store it asked, or was staged at the same path.          *)
THEOREM StoreStaysConsistent == StoreSpec => StoreConsistent
<1>1. StoreInit => StoreInv
    BY StoreStarts
<1>2. StoreInv /\ [StoreNext]_storeVars => StoreInv'
    <2>1. CASE UNCHANGED storeVars
        BY <2>1 DEF storeVars, call, StoreInv, StoreTyped, PhasesFit, NameHeld, SessionsFit, ItemsFit,
               ItemFits, OursIsOne, StagedFit, StagedFits, ItemIs, FoundFit, FoundFits, ValuesFit
    <2> QED BY <2>1, StoreStep
<1>3. StoreInv => OneItemOfOurs /\ WholeSecret /\ ResolvedWasStored
    BY StoreInvImplies
<1>4. StoreInv /\ [StoreNext]_storeVars => [SetTakes]_storeVars
    BY SetSucceeds
<1> QED BY <1>1, <1>2, <1>3, <1>4, PTL DEF StoreSpec, StoreConsistent
=============================================================================
