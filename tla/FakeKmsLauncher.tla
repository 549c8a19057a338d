-------------------------- MODULE FakeKmsLauncher --------------------------
(***************************************************************************)
(* PosixFakeKms::New and ~PosixFakeKms (src/kmsp11/test/fakekms/cpp/     *)
(* fakekms_posix.cc): the test process opens a pipe, forks, and the child *)
(* puts the pipe's write end on its stdout and execs the fake KMS server. *)
(* The parent reads the server's listen address with getline and later    *)
(* stops the server with SIGINT.  Parent and child are two processes that *)
(* run concurrently; the pipe is the byte stream between them.            *)
(*                                                                         *)
(* A descriptor is named by who holds it: p0/p1 are the parent's fd[0] and *)
(* fd[1], c0/c1 the child's inherited copies, cout the child's stdout      *)
(* after dup2.  The read end sees end-of-file only when no write end is    *)
(* left open in either process.  Bytes are abstracted to an address byte  *)
(* "c", the newline, the terminating NUL and Junk (any other byte).       *)
(***************************************************************************)
EXTENDS Naturals, Sequences, SequencesExt

CONSTANTS AddrLen,  \* bytes of the address the server prints
          MaxCap    \* largest buffer getline may have allocated

ASSUME AddrLen \in Nat \ {0} /\ MaxCap > AddrLen + 1

NL == "\n"
NUL == "\\0"
Junk == "?"
Addr == [i \in 1..AddrLen |-> "c"]
Line == Addr \o <<NL>>        \* what the server writes to its stdout
Bytes == {"c", NL, NUL, Junk}

VARIABLES ppc,      \* parent: where PosixFakeKms::New (then the object) is
          cpc,      \* child: "none" before fork, then until it has exited
          fds,      \* open descriptors of the pipe, by holder
          pipe,     \* bytes written and not yet read
          out,      \* ghost: how much of Line the server has written
          address   \* the listen address New returned

vars == <<ppc, cpc, fds, pipe, out, address>>

Returned == {"ok", "err", "destroyed"}
WriteEnds == {"p1", "c1", "cout"}
Writers == fds \cap WriteEnds

TypeOK ==
  /\ ppc \in {"pipe", "fork", "fdopen", "getline"} \cup Returned
  /\ cpc \in {"none", "dup2", "exec", "server", "exited"}
  /\ fds \subseteq {"p0", "p1", "c0", "c1", "cout"}
  /\ pipe \in BoundedSeq(Bytes, AddrLen + 1)
  /\ out \in 0..AddrLen + 1
  /\ address \in BoundedSeq(Bytes, MaxCap)

Init ==
  /\ ppc = "pipe" /\ cpc = "none" /\ fds = {}
  /\ pipe = <<>> /\ out = 0 /\ address = <<>>

(* The Cleanup c: closes the parent's fd[0] and fd[1] when New returns.   *)
Cleanup == fds' = fds \ {"p0", "p1"}

(* pipe(fd): fails, or opens both ends in the parent. *)
Pipe ==
  /\ ppc = "pipe"
  /\ \/ /\ ppc' = "err" /\ UNCHANGED fds
     \/ /\ ppc' = "fork" /\ fds' = {"p0", "p1"}
  /\ UNCHANGED <<cpc, pipe, out, address>>

(* fork(): fails (Cleanup closes the pipe), or the child starts with      *)
(* copies of both ends.                                                    *)
Fork ==
  /\ ppc = "fork"
  /\ \/ /\ ppc' = "err" /\ Cleanup /\ UNCHANGED cpc
     \/ /\ ppc' = "fdopen" /\ cpc' = "dup2" /\ fds' = fds \cup {"c0", "c1"}
  /\ UNCHANGED <<pipe, out, address>>

(* fdopen(fd[0]): fails (return with Cleanup), or the parent may read.     *)
Fdopen ==
  /\ ppc = "fdopen"
  /\ ppc' \in {"err", "getline"}
  /\ IF ppc' = "err" THEN Cleanup ELSE UNCHANGED fds
  /\ UNCHANGED <<cpc, pipe, out, address>>

(* Variant of Getline that reads the stream to end-of-file, as a read-all *)
(* loop would: it returns only once every write end is closed.           *)
GetlineToEof ==
  /\ ppc = "getline" /\ Writers = {}
  /\ ppc' = IF pipe = <<>> THEN "err" ELSE "ok"
  /\ pipe' = <<>> /\ address' = pipe
  /\ Cleanup
  /\ UNCHANGED <<cpc, out>>

(* getline blocks until a newline or end-of-file is in the stream.  It    *)
(* returns the bytes up to and including the newline (all that is left   *)
(* at end-of-file), -1 when there is none.  The buffer it allocates has   *)
(* room for at least those bytes and the NUL, and what lies past the NUL *)
(* is uninitialised; address(line, len) copies len bytes, len being that  *)
(* capacity, plus over bytes.  Either way New returns, so Cleanup closes  *)
(* fd[0] and fd[1].                                                        *)
ReadAddress(over) ==
  /\ ppc = "getline"
  /\ Contains(pipe, NL) \/ Writers = {}
  /\ LET n == IF Contains(pipe, NL) THEN SelectInSeq(pipe, LAMBDA b : b = NL)
                                    ELSE Len(pipe)
     IN  IF n = 0
           THEN ppc' = "err" /\ UNCHANGED <<pipe, address>>
           ELSE /\ ppc' = "ok"
                /\ pipe' = SubSeq(pipe, n + 1, Len(pipe))
                /\ \E junk \in BoundedSeq(Bytes, MaxCap - n - 1 + over) :
                     address' = SubSeq(pipe, 1, n) \o <<NUL>> \o junk
  /\ Cleanup
  /\ UNCHANGED <<cpc, out>>

(* Variant of Getline whose address takes one byte past the buffer,      *)
(* std::string address(line, len + 1).                                    *)
GetlineOverread == ReadAddress(1)

Getline == ReadAddress(0)

(* ~PosixFakeKms: kill(pid_, SIGINT).  The child is never reaped, so its  *)
(* pid stays valid and the CHECK holds; a running server ends.            *)
Destroy ==
  /\ ppc = "ok"
  /\ ppc' = "destroyed"
  /\ cpc' = IF cpc = "exited" THEN cpc ELSE "exited"
  /\ fds' = fds \ {"c0", "c1", "cout"}
  /\ UNCHANGED <<pipe, out, address>>

(* Child: dup2(fd[1], STDOUT) fails and it exits(1), or it succeeds and   *)
(* c.~Cleanup() closes the child's fd[0] and fd[1], leaving stdout.       *)
Dup2 ==
  /\ cpc = "dup2"
  /\ \/ /\ cpc' = "exited" /\ fds' = fds \ {"c0", "c1"}
     \/ /\ cpc' = "exec" /\ fds' = (fds \ {"c0", "c1"}) \cup {"cout"}
  /\ UNCHANGED <<ppc, pipe, out, address>>

(* execl of the fakekms binary: fails and the child exits(2), or the      *)
(* server runs with stdout on the pipe.                                   *)
Exec ==
  /\ cpc = "exec"
  /\ cpc' \in {"exited", "server"}
  /\ fds' = IF cpc' = "exited" THEN fds \ {"cout"} ELSE fds
  /\ UNCHANGED <<ppc, pipe, out, address>>

(* The server writes the next part of its address line to stdout; a      *)
(* stream write may be split anywhere.                                    *)
ServerWrite ==
  /\ cpc = "server" /\ out < Len(Line)
  /\ \E k \in out + 1..Len(Line) :
       /\ pipe' = pipe \o SubSeq(Line, out + 1, k)
       /\ out' = k
  /\ UNCHANGED <<ppc, cpc, fds, address>>

(* The server ends on its own (a failure to listen, a crash): its stdout  *)
(* closes.                                                                 *)
ServerExit ==
  /\ cpc = "server"
  /\ cpc' = "exited" /\ fds' = fds \ {"cout"}
  /\ UNCHANGED <<ppc, pipe, out, address>>

Parent == Pipe \/ Fork \/ Fdopen \/ Getline \/ Destroy
Child == Dup2 \/ Exec \/ ServerWrite \/ ServerExit

Next == Parent \/ Child

(* Both processes are scheduled; the server is not forced to exit.        *)
FairSpec ==
  /\ Init /\ [][Next]_vars
  /\ WF_vars(Pipe) /\ WF_vars(Fork) /\ WF_vars(Fdopen) /\ WF_vars(Getline)
  /\ WF_vars(Dup2) /\ WF_vars(Exec) /\ WF_vars(ServerWrite)

(* Once the server has written its whole address line, New returns: the  *)
(* parent's getline (fakekms_posix.cc line 80) stops at the newline and   *)
(* does not wait for the server to close its stdout.                      *)
LineReturns == out = Len(Line) ~> ppc \in Returned

(* New always returns, with the address or an error ("failure reading     *)
(* address", line 82), even when the child exits without printing (exec  *)
(* fails, or the server dies before it listens).                          *)
LaunchTerminates == <>(ppc \in Returned)

(* The address New returns (std::string address(line, len), line 85) is  *)
(* the address the server printed.                                        *)
AddressIsLine == ppc \in {"ok", "destroyed"} => address = Addr

(* An error return from New leaves no child process running: the child  *)
(* is stopped only by the destructor's kill (line 23), and on an error    *)
(* (line 75, line 82) there is no object to destroy.                      *)
NoOrphanOnError == ppc = "err" => cpc \in {"none", "exited"}

====
