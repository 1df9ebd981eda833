------------------------------- MODULE Preprocess -----------------------------
(***************************************************************************)
(* preprocess_step of the two compilers: a child process writes the          *)
(* preprocessed text, which ends up in a MemStream.  clang's output is read   *)
(* from its pipes by execute of clang/compiler.rs, stdout by the caller and   *)
(* stderr by a thread; Visual Studio's is collected by the library and, for  *)
(* tasks with a precompiled header, filtered (Postprocess).                  *)
(***************************************************************************)
EXTENDS Postprocess

CONSTANT PipeSize               \* what a pipe holds until its writer waits

ASSUME PipeSizePositive == PipeSize \in Nat \ {0}
\* A child writes its text, and what it has to say, in some order.
ASSUME ScriptsWrite ==
  \A in \in Inputs :
    /\ in.script \in Seq({"out", "err"})
    /\ in.driver = "clang" =>
         Cardinality({k \in 1..Len(in.script) : in.script[k] = "out"}) = Len(TextOf(in))

VARIABLES
  script,                       \* what the child has still to write, in order:
                                \* "out" for the next byte of text, or "err"
  wrote,                        \* the bytes of text it has written
  outPipe, errPipe,             \* bytes in stdout, and how many in stderr
  status,                       \* "none" while it runs, then its exit status
  errThread,                    \* read_stderr's thread: "reading" or "sent"
  readError                     \* reading stdout has failed

child == <<script, wrote, outPipe, errPipe, status, errThread, readError>>
vars == <<filter, child>>

Init ==
  /\ FilterInit
  /\ st = "run"
  /\ script = input.script /\ wrote = 0 /\ outPipe = <<>> /\ errPipe = 0
  /\ status = "none" /\ errThread = "none" /\ readError = FALSE

-------------------------------------------------------------------------------
(* Visual Studio                                                           *)

\* command.output() fails, or it gives a status and the text, which is filtered
\* if the task makes or uses a precompiled header.
VsPreprocess ==
  /\ result = "run" /\ st = "run" /\ input.driver = "vs"
  /\ \/ result' = "Err" /\ UNCHANGED <<st, out, back>>
     \/ result' = "Failed" /\ UNCHANGED <<st, out, back>>
     \/ /\ input.precompiled
        /\ st' = "bom" /\ UNCHANGED <<result, out, back>>
     \/ /\ ~input.precompiled
        /\ out' = WriteData(out, text)
        /\ back' = Reader(out')
        /\ result' = "Ok" /\ st' = st
  /\ UNCHANGED <<input, text, pos, copy, end, directive, entry, found, child>>

-------------------------------------------------------------------------------
(* clang                                                                   *)

\* spawn, which may fail, and the thread for stderr.
Spawn ==
  /\ result = "run" /\ st = "run" /\ input.driver = "clang"
  /\ \/ result' = "Err" /\ UNCHANGED <<st, errThread>>
     \/ st' = "stdout" /\ errThread' = "reading" /\ result' = result
  /\ UNCHANGED <<input, text, pos, copy, end, directive, entry, found, out, back,
                 script, wrote, outPipe, errPipe, status, readError>>

\* The child writes, if the pipe has room; a closed pipe ends it.
ChildWrites ==
  /\ errThread # "none" /\ status = "none" /\ script # <<>>
  /\ \/ /\ Head(script) = "out" /\ ~readError /\ Len(outPipe) < PipeSize
        /\ outPipe' = Append(outPipe, text[wrote + 1]) /\ wrote' = wrote + 1
        /\ script' = Tail(script)
        /\ UNCHANGED <<errPipe, status>>
     \/ /\ Head(script) = "err" /\ errThread = "reading" /\ errPipe < PipeSize
        /\ errPipe' = errPipe + 1
        /\ script' = Tail(script)
        /\ UNCHANGED <<outPipe, wrote, status>>
     \/ /\ IF Head(script) = "out" THEN readError ELSE errThread = "sent"
        /\ status' = "failure"
        /\ UNCHANGED <<script, wrote, outPipe, errPipe>>
  /\ UNCHANGED <<filter, errThread, readError>>

\* It ends with success or not.
ChildExits ==
  /\ errThread # "none" /\ status = "none" /\ script = <<>>
  /\ status' \in {"success", "failure"}
  /\ UNCHANGED <<filter, script, wrote, outPipe, errPipe, errThread, readError>>

\* Mutant: what is written of what was read is not counted.
ReadStdoutShort ==
  /\ result = "run" /\ st = "stdout" /\ outPipe # <<>>
  /\ \E n \in 1..Len(outPipe) : out' = WriteData(out, SubSeq(outPipe, 1, n))
  /\ outPipe' = <<>>
  /\ UNCHANGED <<input, text, pos, copy, end, st, directive, entry, found, result, back,
                 script, wrote, errPipe, status, errThread, readError>>

\* read_stdout: io::copy into a MemStream, to the end of the child.
ReadStdout ==
  /\ result = "run" /\ st = "stdout" /\ outPipe # <<>>
  /\ \E n \in 1..Len(outPipe) :
       /\ out' = WriteData(out, SubSeq(outPipe, 1, n))
       /\ outPipe' = Drop(outPipe, n)
  /\ UNCHANGED <<input, text, pos, copy, end, st, directive, entry, found, result, back,
                 script, wrote, errPipe, status, errThread, readError>>

StdoutEnds ==
  /\ result = "run" /\ st = "stdout" /\ outPipe = <<>> /\ status # "none"
  /\ st' = "wait"
  /\ UNCHANGED <<input, text, pos, copy, end, directive, scanner, back, child>>

\* An error of reading leaves an empty text, and the pipe is closed.
StdoutFails ==
  /\ result = "run" /\ st = "stdout"
  /\ out' = EmptyStream /\ outPipe' = <<>> /\ readError' = TRUE
  /\ st' = "wait"
  /\ UNCHANGED <<input, text, pos, copy, end, directive, entry, found, result, back,
                 script, wrote, errPipe, status, errThread>>

\* Mutant: the caller reads stderr too, when stdout has ended.
ReadStderrAfter ==
  /\ errThread = "reading" /\ st # "stdout"
  /\ \/ errPipe > 0 /\ errPipe' = errPipe - 1 /\ UNCHANGED errThread
     \/ errPipe = 0 /\ status # "none" /\ errThread' = "sent" /\ UNCHANGED errPipe
  /\ UNCHANGED <<filter, script, wrote, outPipe, status, readError>>

\* read_stderr's thread: to the end of the child, then it sends what it has.
ReadStderr ==
  /\ errThread = "reading"
  /\ \/ errPipe > 0 /\ errPipe' = errPipe - 1 /\ UNCHANGED errThread
     \/ errPipe = 0 /\ status # "none" /\ errThread' = "sent" /\ UNCHANGED errPipe
  /\ UNCHANGED <<filter, script, wrote, outPipe, status, readError>>

\* An error of reading, which the thread sends too: bytes makes it an empty
\* stderr.
StderrFails ==
  /\ errThread = "reading"
  /\ errThread' = "sent" /\ errPipe' = 0
  /\ UNCHANGED <<filter, script, wrote, outPipe, status, readError>>

\* child.wait(), which may fail, then bytes(rx_err).
Wait ==
  /\ result = "run" /\ st = "wait" /\ status # "none"
  /\ st' = "stderr"
  /\ UNCHANGED <<input, text, pos, copy, end, directive, scanner, back, child>>

WaitFails ==
  /\ result = "run" /\ st = "wait"
  /\ result' = "Err"
  /\ UNCHANGED <<input, text, pos, copy, end, st, directive, entry, found, out, back, child>>

Receive ==
  /\ result = "run" /\ st = "stderr" /\ errThread = "sent"
  /\ IF status = "success" THEN result' = "Ok" /\ back' = Reader(out) ELSE result' = "Failed" /\ back' = back
  /\ UNCHANGED <<input, text, pos, copy, end, st, directive, entry, found, out, child>>

Execute ==
  ChildWrites \/ ChildExits \/ ReadStdout \/ StdoutEnds \/ ReadStderr \/ Wait \/ Receive

Faults == StdoutFails \/ StderrFails \/ WaitFails

Next == VsPreprocess \/ Spawn \/ Execute \/ Faults \/ (FilterNext /\ UNCHANGED child)

\* The child and the threads of clang's execute go on while they can.
Spec == Init /\ [][Next]_vars /\ WF_vars(Execute)

-------------------------------------------------------------------------------
\* Without a precompiled header the text is not filtered.
Filtered == input.driver = "vs" /\ input.precompiled

\* A compiler whose text is not filtered is given all of it, in whatever pieces
\* it came through the pipe, while the child wrote stderr and after it ended.
\* Open: when reading stdout failed, read_stdout makes the text an empty one,
\* and a child that had written all of it and succeeds is believed.
TextWhole == result = "Ok" /\ ~Filtered /\ ~readError => Copied(out) = text

\* Of a text that is filtered the compiler gets, wherever the buffer ends, the
\* part from the line on that ends the headers (with them, if it is to make the
\* precompiled one) and the marks it needs, and the filter fails only if there
\* is no such line.
TextExact ==
  /\ result = "Ok" /\ Filtered => \E k \in DOMAIN input.lines : Stops(k) /\ Copied(out) = Wanted(k)
  /\ result \notin {"run", "Ok", "Err", "Failed"} =>
       ~\E k \in DOMAIN input.lines : Stops(k) /\ ~Unreadable(k)

\* clang's preprocessing ends however its two outputs alternate: nobody waits
\* for a pipe that nobody empties.
ChildDrained == (errThread # "none") ~> (result # "run")

===============================================================================
