------------------------------ MODULE Snippets ------------------------------
(***************************************************************************)
(* The programs that the workbook runs and reads:                          *)
(*                                                                         *)
(*   text_bytes, symbol_count   compile to a file and read a number off it *)
(*   compile_seconds            time the compiler, throw its output away   *)
(*   compile_snippet            look for errors in the compiler's messages *)
(*   publish                    section 3 of J2's main(): print what clang *)
(*                              makes of one file for two processors       *)
(*   show                       print one function of this binary, of what *)
(*                              objdump prints (J1, J2, J3)                *)
(*   symbols_matching           count this binary's symbols (K3)           *)
(*   read_value                 tlb_shootdowns() of I2, read_meminfo_kb()  *)
(*                              and anon_huge_kb() of I5: no program, but  *)
(*                              a file of the kernel, read in the same way *)
(*                                                                         *)
(* The first five make a temporary file with a name nobody else has, and   *)
(* the compiler may make a second one.  Everything may fail.  Programs are *)
(* processes of their own: they read and write files when it suits them,   *)
(* and wait when the pipe is full, until they have been waited for.        *)
(***************************************************************************)
EXTENDS Integers, SequencesExt

CONSTANTS
  Calls,          \* calls made by main()
  MaxLines,       \* lines that a program prints, or that a file has
  PipeSize        \* lines that fit into a pipe

KeepsOutput == {"text_bytes", "symbol_count"}
Writers == KeepsOutput \cup {"compile_seconds", "compile_snippet", "publish"}
ReadsItself == {"show", "symbols_matching"}
Functions == Writers \cup ReadsItself \cup {"read_value"}

\* What the lines are to the function that reads them.
Lines ==
  [text_bytes |-> {"number"}, symbol_count |-> {"number"}, compile_seconds |-> {},
   compile_snippet |-> {"error:", "other"}, publish |-> {"asm"},
   show |-> {">:", "insn", "blank"}, symbols_matching |-> {"match", "other"},
   read_value |-> {"match", "other"}]

VARIABLES
  function,       \* the function called
  spc,            \* where it is
  src,            \* the source: "none", "empty", "short", "whole"
  bin,            \* there is an output file
  child,          \* "none", "started", "running", "writing", "done"
  status,         \* how the last child ended: "ok", "failed"
  verdict,        \* what happened to the compiler: "none", "compiled", "refused"
  stream,         \* pipe or f: whether it is open, and the lines that wait in it
  output,         \* all lines that were printed into it, or are in the file
  body,           \* in_body
  popens,         \* programs that were to be started with popen()
  count,          \* bytes, count, ok, value, lines printed; -1 as in the code
  made            \* calls made

files == <<src, bin>>
process == <<child, status, verdict>>
reading == <<stream, output, body, popens>>
snippetVars == <<function, spc, files, process, reading, count, made>>

Unopened == [open |-> FALSE, lines |-> <<>>]

Init ==
  /\ function = "text_bytes" /\ spc = "main"
  /\ src = "none" /\ bin = FALSE
  /\ child = "none" /\ status = "ok" /\ verdict = "none"
  /\ stream = Unopened /\ output = <<>> /\ body = FALSE /\ popens = 0
  /\ count = -1 /\ made = 0

Call(f) ==
  /\ spc = "main" /\ made < Calls
  /\ function' = f /\ made' = made + 1
  /\ spc' = CASE f \in Writers -> "mkstemps"
              [] f \in ReadsItself -> "readlink"
              [] f = "read_value" -> "fopen"
  /\ count' = IF f \in KeepsOutput \cup {"compile_seconds"} THEN -1 ELSE 0
  /\ verdict' = "none" /\ output' = <<>> /\ body' = FALSE /\ popens' = 0
  /\ UNCHANGED <<files, child, status, stream>>

---------------------------------------------------------------------------
(* The source file and what compiles it.                                   *)

MkStemps ==
  /\ spc = "mkstemps"
  /\ \/ src' = "empty" /\ spc' = "write"
     \/ src' = src /\ spc' = "main"
  /\ UNCHANGED <<function, bin, process, reading, count, made>>

\* write() may fail or write less; then the file is removed and that is all.
Write ==
  /\ spc = "write"
  /\ \/ /\ src' = "whole"
        /\ spc' = IF function \in {"compile_snippet", "publish"} THEN "popen" ELSE "system"
     \/ src' = "short" /\ spc' = "unlink"
  /\ UNCHANGED <<function, bin, process, reading, count, made>>

System ==       \* system() may be unable to start anything
  /\ spc = "system"
  /\ \/ child' = "started" /\ spc' = "wait"
     \/ child' = child /\ spc' = "unlink"
  /\ UNCHANGED <<function, files, status, verdict, reading, count, made>>

\* mutated: the command is put into the background
NotWaited == TRUE
Waited == child \in {"none", "done"}

Reaped == child' = IF child = "done" THEN "none" ELSE child

Wait ==         \* system() returns
  /\ spc = "wait"
  /\ Waited
  /\ Reaped
  /\ spc' = IF status = "ok" /\ function \in KeepsOutput THEN "popen" ELSE "unlink"
  /\ count' = IF status = "ok" /\ function = "compile_seconds" THEN 1 ELSE count
  /\ UNCHANGED <<function, files, status, verdict, reading, made>>

Unlink ==
  /\ spc = "unlink"
  /\ src' = "none"
  /\ spc' = IF function \in KeepsOutput THEN "unlink_output" ELSE "main"
  /\ UNCHANGED <<function, bin, process, reading, count, made>>

\* unlink() of a file that is not there does nothing.
UnlinkOutput ==
  /\ spc = "unlink_output"
  /\ bin' = FALSE
  /\ spc' = "main"
  /\ UNCHANGED <<function, src, process, reading, count, made>>

---------------------------------------------------------------------------
(* What is read, line by line.                                             *)

Readlink ==     \* the name of this binary
  /\ spc = "readlink"
  /\ spc' \in {"popen", "main"}
  /\ UNCHANGED <<function, files, process, reading, count, made>>

\* publish goes on to the second processor whatever becomes of the first.
AfterStream ==
  CASE function = "publish" -> IF popens' < 2 THEN "popen" ELSE "unlink"
    [] function \in Writers -> "unlink"
    [] OTHER -> "main"

\* compile_snippet() says ok until it has read otherwise, so a compiler that
\* cannot be started, or fails with no line that says "error:", has compiled.
Popen ==
  /\ spc = "popen"
  /\ popens' = popens + 1
  /\ count' = IF function = "compile_snippet" THEN 1 ELSE count
  /\ \/ /\ child' = "started"
        /\ stream' = [open |-> TRUE, lines |-> <<>>] /\ spc' = "fgets"
     \/ UNCHANGED <<child, stream>> /\ spc' = AfterStream
  /\ UNCHANGED <<function, files, status, verdict, output, body, made>>

Contents == UNION {[1..n -> Lines.read_value] : n \in 0..MaxLines}

Fopen ==
  /\ spc = "fopen"
  /\ \/ /\ output' \in Contents
        /\ stream' = [open |-> TRUE, lines |-> output'] /\ spc' = "fgets"
     \/ UNCHANGED <<output, stream>> /\ spc' = "main"
  /\ UNCHANGED <<function, files, process, body, popens, count, made>>

\* What the loop does with a line: number of the first, one more, or nothing.
Counted(line) ==
  CASE line \in {"number", "error:"} -> IF line = "number" THEN 1 ELSE 0
    [] line \in {"match", "asm"} -> count + 1
    [] line = "insn" /\ body -> count + 1
    [] OTHER -> count
Breaks(line) ==
  \/ function \in KeepsOutput
  \/ function = "read_value" /\ line = "match"
  \/ function = "show" /\ body /\ line = "blank"

Fgets ==
  /\ spc = "fgets"
  /\ stream.lines # <<>>
  /\ LET line == Head(stream.lines)
     IN /\ count' = Counted(line)
        /\ body' = (body \/ line = ">:")
        /\ spc' = IF Breaks(line) THEN "close" ELSE "fgets"
  /\ stream' = [stream EXCEPT !.lines = Tail(@)]
  /\ UNCHANGED <<function, files, process, output, popens, made>>

EndOfFile ==    \* nobody is left who could print
  /\ spc = "fgets"
  /\ stream.lines = <<>> /\ child \in {"none", "done"}
  /\ spc' = "close"
  /\ UNCHANGED <<function, files, process, reading, count, made>>

StreamKept == stream                              \* mutated: waits, then closes
StreamClosed == Unopened

\* fclose(), or the first half of pclose(): what was not read is lost.
Close ==
  /\ spc = "close"
  /\ stream' = StreamClosed
  /\ spc' = "pclose"
  /\ UNCHANGED <<function, files, process, output, body, popens, count, made>>

Pclose ==
  /\ spc = "pclose"
  /\ Waited
  /\ Reaped
  /\ popens' = popens /\ spc' = AfterStream
  /\ UNCHANGED <<function, files, status, verdict, stream, output, body, count, made>>

---------------------------------------------------------------------------
(* The child.                                                              *)

ChildStarts ==  \* it opens its input
  /\ child = "started"
  /\ child' = "running"
  /\ UNCHANGED <<function, spc, files, status, verdict, reading, count, made>>

ChildWrites ==  \* it has a line to print
  /\ child = "running" /\ stream.open /\ Len(output) < MaxLines
  /\ child' = "writing"
  /\ UNCHANGED <<function, spc, files, status, verdict, reading, count, made>>

ChildPrints ==  \* when there is room
  /\ child = "writing" /\ stream.open /\ Len(stream.lines) < PipeSize
  /\ child' = "running"
  /\ \E line \in Lines[function] :
       /\ stream' = [stream EXCEPT !.lines = Append(@, line)]
       /\ output' = Append(output, line)
  /\ UNCHANGED <<function, spc, files, status, verdict, body, popens, count, made>>

\* A compiler that does not refuse the source leaves its output; one that prints
\* an error refuses it.
Ends(with) ==
  /\ child' = "done" /\ status' = with
  /\ IF verdict = "none" /\ function \in Writers
     THEN /\ verdict' = IF with = "ok" THEN "compiled" ELSE "refused"
          /\ bin' = (bin \/ (function \in KeepsOutput /\ with = "ok"))
     ELSE UNCHANGED <<verdict, bin>>
  /\ UNCHANGED <<function, spc, src, reading, count, made>>

ChildEnds ==
  /\ child = "running"
  /\ \E with \in IF Contains(output, "error:") THEN {"failed"} ELSE {"ok", "failed"} :
       Ends(with)

BrokenPipe ==   \* nobody will read the line
  /\ child = "writing" /\ ~stream.open
  /\ Ends("failed")

Child == ChildStarts \/ ChildWrites \/ ChildPrints \/ ChildEnds \/ BrokenPipe

Done == spc = "main" /\ made = Calls /\ child = "none" /\ UNCHANGED snippetVars

Next ==
  \/ \E f \in Functions : Call(f)
  \/ MkStemps \/ Write \/ System \/ Wait \/ Unlink \/ UnlinkOutput
  \/ Readlink \/ Popen \/ Fopen \/ Fgets \/ EndOfFile \/ Close \/ Pclose
  \/ Child \/ Done

---------------------------------------------------------------------------
(* Properties.                                                             *)

Occurrences(line) == Cardinality({k \in DOMAIN output : output[k] = line})

\* The instructions of one function: after its name, up to an empty line.
OfFunction(k) ==
  /\ output[k] = "insn"
  /\ \E j \in 1..(k - 1) : output[j] = ">:"
  /\ \A j, l \in 1..(k - 1) : j < l => ~(output[j] = ">:" /\ output[l] = "blank")

OneFunction == Cardinality({k \in DOMAIN output : OfFunction(k)})

\* What is reported is what was printed, all of it where the code reads on to the
\* end of the file.  A number read off a file comes from a program that compiled;
\* what compile_snippet() calls wrong is, but not all that it calls ok compiled.
Reported ==
  CASE function \in KeepsOutput -> count # -1 => verdict = "compiled" /\ output # <<>>
    [] function = "compile_seconds" -> count # -1 => verdict = "compiled"
    [] function = "compile_snippet" ->
         /\ count = 0 => verdict # "compiled"
         /\ count = 1 => ~Contains(output, "error:")
    [] function = "publish" -> count = Occurrences("asm")
    [] function = "symbols_matching" -> count = Occurrences("match")
    [] function = "read_value" -> count = IF Contains(output, "match") THEN 1 ELSE 0
    [] function = "show" -> count = OneFunction

\* Whatever fails on the way, a call leaves no file, no process and no stream
\* behind (K3:187, 260, 277, 305, 312; K4:53, 72, 84, 100; J1:147; J2:330;
\* I5:116), a compiler finds the whole source and a tool finds the output, and
\* what is reported is what was printed.
NothingLeftBehind ==
  /\ spc = "main" => src = "none" /\ ~bin /\ child = "none" /\ stream = Unopened
  /\ child \in {"started", "running", "writing"} /\ function \in Writers =>
       IF function \in KeepsOutput /\ verdict # "none" THEN bin ELSE src = "whole"
  /\ spc = "main" => Reported

\* The function cannot go on until its program has: it has read all there is, or
\* waits for the program to end.
FunctionWaits ==
  \/ spc = "fgets" /\ stream.lines = <<>> /\ child \notin {"none", "done"}
  \/ spc \in {"wait", "pclose"} /\ child \notin {"none", "done"}

\* The program cannot go on until the function has read, or has closed the pipe.
ChildWaits == child = "writing" /\ stream.open /\ Len(stream.lines) >= PipeSize

\* A function that stops reading in the middle (J1:138, K3:273) leaves a program
\* that is waiting for room in the pipe, and then waits for it to end: the two
\* never wait for each other, neither there nor while lines are read.
NeverBothWait == ~(FunctionWaits /\ ChildWaits)
=============================================================================
