------------------------------ MODULE Postprocess -----------------------------
(***************************************************************************)
(* filter_preprocessed of vs/postprocess.rs: it reads the output of a        *)
(* preprocessor through a buffer, finds the place where the precompiled      *)
(* header ends, and writes the text from there (or all of it) into a        *)
(* MemStream.  One step per byte and per read.                              *)
(*                                                                         *)
(* A byte of the text is one of a few words ("li", "ne", "#", a line end,    *)
(* ...), so that the buffer may end inside a token.  Positions are counted  *)
(* from the beginning of the text, not of the buffer: buf_data is the text   *)
(* up to end, and the three pointers are pos, copy and end.                  *)
(***************************************************************************)
EXTENDS MemStream, SequencesExt

CONSTANTS
  Inputs,                       \* the calls: what the preprocessor writes (lines,
                                \* eol, cut, bom), the arguments keep and marker,
                                \* the size of the buffer buf, and what Preprocess adds
  TokenSize, PathSize           \* the sizes of the buffers of tokens and of paths

ASSUME BufferSizes == TokenSize \in Nat /\ PathSize \in Nat

VARIABLES
  input, text,                  \* the call, and the text of its reader
  pos, copy, end,               \* ptr_read, ptr_copy, ptr_end
  st, then,                     \* the function that is running, for what
  token, number, file, raw,     \* what the directive was found to be
  entry, found,                 \* entry_file (at most one), header_found
  out, result,                  \* the writer, and how the call returned
  back                          \* a MemReader of the writer

directive == <<then, token, number, file, raw>>
scanner == <<entry, found, out, result>>
filter == <<input, text, pos, copy, end, st, directive, scanner, back>>

-------------------------------------------------------------------------------
(* Lines of a preprocessed text.  A line is [kind, number, file, escaped].   *)

Hdrstop == <<"#", "pra", "gma", " ", "hdr", "stop">>

\* A name in quotes, its "/" perhaps written as an escaped "\".
Quoted(name, escaped) ==
  <<"'">> \o FlattenSeq([k \in DOMAIN name |->
               IF escaped /\ name[k] = "/" THEN <<"\\", "\\">> ELSE <<name[k]>>]) \o <<"'">>

Rendered(line) ==
  CASE line.kind = "line" -> <<"#", "li", "ne", " ", line.number, " ">> \o Quoted(line.file, line.escaped)
    [] line.kind = "hdrstop" -> <<" ", "#", " ", "pra", "gma", " ", "hdr", "stop">>
    [] line.kind = "once" -> <<"#", "pra", "gma", " ", "once">>
    [] line.kind = "other" -> <<"#", "ne">>
    [] line.kind = "long" -> <<"#">> \o [k \in 1..(TokenSize + 1) |-> "ne"]
    [] line.kind = "open" -> <<"#", "li", "ne", " ", "1", " ", "'", "main">>
    [] line.kind = "bare" -> <<"#", "li", "ne", " ", "1">>
    [] line.kind = "code" -> <<"x", "#", "'">>
    [] line.kind = "empty" -> <<" ">>

\* Lines first..last with their ends; the last of all may lack it.
Render(in, first, last) ==
  FlattenSeq([k \in 1..(last + 1 - first) |->
    LET n == first + k - 1
    IN Rendered(in.lines[n]) \o (IF in.cut /\ n = Len(in.lines) THEN <<>> ELSE in.eol)])

TextOf(in) == (IF in.bom THEN <<"bo", "m">> ELSE <<>>) \o Render(in, 1, Len(in.lines))

\* A text is finite, and a buffer has room.
ASSUME InputsTyped == \A in \in Inputs : in.buf \in Nat \ {0} /\ TextOf(in) \in Seq(Range(TextOf(in)))

-------------------------------------------------------------------------------
FilterInit ==
  /\ input \in Inputs
  /\ text = TextOf(input)
  /\ pos = 0 /\ copy = 0 /\ end = 0
  /\ then = "" /\ token = <<>> /\ number = <<>> /\ file = <<>> /\ raw = <<>>
  /\ entry = <<>> /\ found = FALSE
  /\ out = EmptyStream /\ result = "run"
  /\ back = Reader(EmptyStream)

\* Where st is before filter_preprocessed is called, or if it is not.
Outside == {"run", "stdout", "wait", "stderr"}

\* flush, up to a position: headers are written or dropped.
Flushed(to) == IF input.keep THEN WriteData(out, SubSeq(text, copy + 1, to)) ELSE out

\* Mutant: the buffer is read again before it is flushed.
RefillUnflushed ==
  /\ result = "run" /\ st \notin Outside \cup {"copy"} /\ pos = end /\ end < Len(text)
  /\ end' = Least(end + input.buf, Len(text))
  /\ copy' = pos
  /\ UNCHANGED <<input, text, pos, st, directive, scanner, back>>

\* read: the buffer is flushed and filled again.
Refill ==
  /\ result = "run" /\ st \notin Outside \cup {"copy"} /\ pos = end /\ end < Len(text)
  /\ out' = Flushed(pos)
  /\ end' = Least(end + input.buf, Len(text))
  /\ copy' = pos
  /\ UNCHANGED <<input, text, pos, st, directive, entry, found, result, back>>

\* The byte at ptr_read, in a function that finds the buffer not empty.
At(function) == result = "run" /\ st = function /\ pos < end
Byte == text[pos + 1]

\* parse_bom.
ParseBom ==
  /\ At("bom")
  /\ IF Byte = (IF pos = 0 THEN "bo" ELSE "m")
       THEN /\ pos' = pos + 1
            /\ st' = IF pos' = 2 THEN "empty" ELSE "bom"
       ELSE st' = "empty" /\ pos' = pos
  /\ UNCHANGED <<input, text, copy, end, directive, scanner, back>>

\* parse_line: parse_empty, then a directive or any other line.
ParseLine ==
  /\ At("empty")
  /\ CASE Byte \in {" ", "\r", "\n"} -> pos' = pos + 1 /\ UNCHANGED <<st, then>>
       [] Byte = "#" -> pos' = pos + 1 /\ st' = "spaces" /\ then' = "directive"
       [] OTHER -> pos' = pos /\ st' = "skip" /\ then' = then
  /\ UNCHANGED <<input, text, copy, end, token, number, file, raw, scanner, back>>

\* next_line.
NextLine ==
  /\ At("skip")
  /\ pos' = pos + 1
  /\ st' = IF Byte = "\n" THEN "empty" ELSE st
  /\ UNCHANGED <<input, text, copy, end, directive, scanner, back>>

\* parse_spaces; a token follows, or the quote of a path.
ParseSpaces ==
  /\ At("spaces")
  /\ IF Byte = " " THEN pos' = pos + 1 /\ UNCHANGED <<st, token>>
     ELSE /\ st' = IF then = "path" THEN "quote" ELSE "token"
          /\ token' = <<>> /\ pos' = pos
  /\ UNCHANGED <<input, text, copy, end, then, number, file, raw, scanner, back>>

\* parse_token.
Letters == {"li", "ne", "pra", "gma", "hdr", "stop", "once", "1", "2"}
Room == IF then = "pragma" THEN 2 * TokenSize ELSE TokenSize

ParseToken ==
  /\ At("token") /\ Byte \in Letters
  /\ IF Len(token) >= Room THEN result' = "TokenTooLong" /\ UNCHANGED <<pos, token>>
     ELSE token' = Append(token, Byte) /\ pos' = pos + 1 /\ result' = result
  /\ UNCHANGED <<input, text, copy, end, st, then, number, file, raw, entry, found, out, back>>

\* parse_directive, and parse_directive_line up to the path.
TokenEnds ==
  /\ At("token") /\ Byte \notin Letters /\ then \in {"directive", "line"}
  /\ number' = IF then = "line" THEN token ELSE number
  /\ CASE then = "line" -> then' = "path" /\ st' = "spaces"
       [] then = "directive" /\ token = <<"li", "ne">> -> then' = "line" /\ st' = "spaces"
       [] then = "directive" /\ token = <<"pra", "gma">> -> then' = "pragma" /\ st' = "spaces"
       [] OTHER -> then' = then /\ st' = "skip"
  /\ UNCHANGED <<input, text, pos, copy, end, token, file, raw, scanner, back>>

\* parse_directive_pragma: hdrstop ends the headers.
PragmaEnds ==
  /\ At("token") /\ Byte \notin Letters /\ then = "pragma"
  /\ IF token = <<"hdr", "stop">>
       THEN /\ st' = "copy"
            /\ IF input.keep THEN UNCHANGED <<out, copy>>
               ELSE out' = WriteData(Flushed(pos), Hdrstop) /\ copy' = pos
       ELSE st' = "skip" /\ UNCHANGED <<out, copy>>
  /\ UNCHANGED <<input, text, pos, end, directive, entry, found, result, back>>

\* parse_path: whatever comes first is the quote.
ParseQuote ==
  /\ At("quote")
  /\ raw' = <<Byte>> /\ file' = <<>> /\ st' = "path" /\ pos' = pos + 1
  /\ UNCHANGED <<input, text, copy, end, then, token, number, scanner, back>>

TooLong == Len(raw') >= PathSize - 2 \/ Len(file') >= PathSize - 1

ParsePath ==
  /\ At("path")
  /\ CASE Byte \in {"\r", "\n"} -> result' = "LiteralEol" /\ UNCHANGED <<pos, st, file, raw>>
       [] Byte = "\\" -> /\ pos' = pos + 1 /\ st' = "escape" /\ raw' = raw \o <<"\\", "\\">>
                         /\ UNCHANGED <<file, result>>
       [] Byte = raw[1] -> pos' = pos + 1 /\ st' = "eol" /\ raw' = Append(raw, Byte) /\ UNCHANGED <<file, result>>
       [] OTHER -> /\ pos' = pos + 1 /\ raw' = Append(raw, Byte) /\ file' = Append(file, Byte) /\ st' = st
                   /\ result' = IF TooLong THEN "LiteralTooLong" ELSE result
  /\ UNCHANGED <<input, text, copy, end, then, token, number, entry, found, out, back>>

\* parse_escape of a path; the other escapes stand for themselves.
ParseEscape ==
  /\ At("escape")
  /\ file' = Append(file, IF Byte = "\\" THEN "/" ELSE Byte)
  /\ raw' = raw
  /\ pos' = pos + 1 /\ st' = "path"
  /\ result' = IF TooLong THEN "LiteralTooLong" ELSE result
  /\ UNCHANGED <<input, text, copy, end, then, token, number, entry, found, out, back>>

\* is_subpath: the file is the marker or ends in it after a "/", letter case
\* aside.
Lower(byte) == IF byte = "STD" THEN "std" ELSE byte
IsSubpath(parent, child) ==
  LET offset == Len(parent) - Len(child)
  IN /\ Len(parent) >= Len(child)
     /\ offset > 0 => parent[offset] = "/"
     /\ \A k \in DOMAIN child : Lower(child[k]) = Lower(parent[offset + k])

\* The marker as it is compared: its "\" replaced unless the text is UTF-8.
Marker ==
  IF input.bom THEN input.marker
  ELSE [k \in DOMAIN input.marker |-> IF input.marker[k] = "\\" THEN "/" ELSE input.marker[k]]

\* parse_directive_line after the line's end: the first one names the entry
\* file; when it is back after the marker's file, the headers end.
LineDirective(eol, to) ==
  LET back_in == entry # <<>> /\ found /\ entry[1] = file
      mark == Hdrstop \o eol \o <<"#", "li", "ne", " ">> \o number \o <<" ">> \o raw \o eol
  IN /\ entry' = IF entry = <<>> THEN <<file>> ELSE entry
     /\ found' = (found \/ (entry # <<>> /\ input.marker # <<>> /\ IsSubpath(file, Marker)))
     /\ IF back_in
          THEN st' = "copy" /\ out' = WriteData(Flushed(to), mark) /\ copy' = to
          ELSE st' = "empty" /\ UNCHANGED <<out, copy>>
     /\ pos' = to

\* next_line_eol, which looks back for the "\r", also beyond the buffer.
NextLineEol ==
  /\ At("eol")
  /\ IF Byte = "\n"
       THEN LineDirective(IF text[pos] = "\r" THEN <<"\r", "\n">> ELSE <<"\n">>, pos + 1)
       ELSE pos' = pos + 1 /\ UNCHANGED <<st, copy, out, entry, found>>
  /\ UNCHANGED <<input, text, end, directive, result, back>>

\* The text ends: read returns nothing, after a flush.
LineCut ==
  /\ result = "run" /\ st = "eol" /\ pos = Len(text)
  /\ LineDirective(<<>>, pos)
  /\ UNCHANGED <<input, text, end, directive, result, back>>

\* A token the text ends in is never one that is looked for, and a path that
\* does not begin is unwrapped.
TextEnds ==
  /\ result = "run" /\ st \notin Outside \cup {"eol", "copy"} /\ pos = Len(text)
  /\ out' = Flushed(pos) /\ copy' = pos
  /\ result' = CASE st = "path" -> "LiteralEof"
                 [] st = "escape" -> "EscapeEof"
                 [] st \in {"spaces", "token", "quote"} /\ then \in {"line", "path"} -> "panic"
                 [] OTHER -> "MarkerNotFound"
  /\ UNCHANGED <<input, text, pos, end, st, directive, entry, found, back>>

\* copy_to_end: the rest of the buffer, and of the text.
CopyToEnd ==
  /\ result = "run" /\ st = "copy"
  /\ out' = WriteData(out, SubSeq(text, copy + 1, end))
  /\ copy' = end /\ pos' = end
  /\ end' = Least(end + input.buf, Len(text))
  /\ IF end = Len(text) THEN result' = "Ok" /\ back' = Reader(out')
     ELSE UNCHANGED <<result, back>>
  /\ UNCHANGED <<input, text, st, directive, entry, found>>

\* The writer's text is read again, a buffer at a time.
ReadBack ==
  /\ result = "Ok"
  /\ back' = ReadInto(back, input.buf)
  /\ UNCHANGED <<input, text, pos, copy, end, st, directive, scanner>>

FilterReturned == result \notin {"run", "Ok"} /\ UNCHANGED filter

FilterNext ==
  \/ Refill \/ ParseBom \/ ParseLine \/ NextLine \/ ParseSpaces \/ ParseToken \/ TokenEnds \/ PragmaEnds
  \/ ParseQuote \/ ParsePath \/ ParseEscape \/ NextLineEol \/ LineCut \/ TextEnds \/ CopyToEnd
  \/ ReadBack \/ FilterReturned

-------------------------------------------------------------------------------
(* What the filter is for, line by line and without a buffer.               *)

Line(k) == input.lines[k]
LineKinds(k, kinds) == k \in DOMAIN input.lines /\ Line(k).kind \in kinds
\* A text cut in a directive that ends with it, which is then not seen.
Cut(k) == input.cut /\ k = Len(input.lines)

IsFirst(k) == LineKinds(k, {"line"}) /\ \A j \in 1..(k - 1) : Line(j).kind # "line"
NamesMarker(name) ==
  \E k \in 0..Len(name) : /\ k = 0 \/ name[k] = "/"
                          /\ [j \in 1..(Len(name) - k) |-> Lower(name[k + j])]
                               = [j \in DOMAIN Marker |-> Lower(Marker[j])]

\* The line that ends the headers: hdrstop, or the return to the first file
\* after the marker's.
EndsHeaders(k) ==
  \/ LineKinds(k, {"hdrstop"}) /\ ~Cut(k)
  \/ /\ LineKinds(k, {"line"}) /\ input.marker # <<>>
     /\ \E i, j \in 1..(k - 1) : /\ i < j /\ IsFirst(i) /\ Line(i).file = Line(k).file
                                 /\ LineKinds(j, {"line"}) /\ NamesMarker(Line(j).file)

\* A directive the filter gives up at.
Unreadable(k) ==
  \/ LineKinds(k, {"long", "open", "bare"})
  \/ LineKinds(k, {"line"}) /\ Len(Quoted(Line(k).file, Line(k).escaped)) > PathSize - 2

Stops(k) == EndsHeaders(k) /\ \A j \in 1..(k - 1) : ~EndsHeaders(j) /\ ~Unreadable(j)

Wanted(k) ==
  LET n == Len(input.lines)
      eol == IF Cut(k) THEN <<>> ELSE input.eol
      mark == Hdrstop \o eol \o Rendered(Line(k)) \o eol
  IN IF Line(k).kind = "hdrstop"
       THEN IF input.keep THEN text ELSE Hdrstop \o eol \o Render(input, k + 1, n)
       ELSE (IF input.keep THEN SubSeq(text, 1, Len(text) - Len(Render(input, k + 1, n))) ELSE <<>>)
              \o mark \o Render(input, k + 1, n)

\* A reader of the stream gets, in pieces of any size, what copy writes, and
\* nothing of the uninitialised rest of a block.
ReadsWhatWasWritten ==
  result = "Ok" => /\ IsPrefix(back.bytes, Copied(out))
                   /\ back.last = <<>> => back.bytes = Copied(out)

===============================================================================
