---------------------------- MODULE MCPreprocess ------------------------------
\* Filtered texts: the file, a header that is the marker, one that is not, and
\* the file again, with other directives between them.  Buffers of one to five
\* words end at every place of a directive.
EXTENDS Preprocess, TLC

LineOf(num, name, escaped) == [kind |-> "line", number |-> num, file |-> name, escaped |-> escaped]
Other(kind) == [kind |-> kind, number |-> "1", file |-> <<>>, escaped |-> FALSE]

Entry == LineOf("1", <<"main">>, FALSE)
Middle ==
  {LineOf("1", <<"dir", "/", "std", ".h">>, TRUE), LineOf("1", <<"STD", ".h">>, FALSE),
   LineOf("1", <<"dir", "std", ".h">>, FALSE), LineOf("2", <<"main">>, FALSE)}
    \cup {Other(k) : k \in {"hdrstop", "once", "code"}}
Rare ==
  {Other(k) : k \in {"other", "long", "open", "bare", "empty"}}
    \cup {LineOf("1", <<"dir", "/", "dir", "/", "dir", "/", "dir", "/", "std", ".h">>, TRUE)}

Sequences(S, n) == UNION {[1..k -> S] : k \in 0..n}

CR == <<"\r", "\n">>
LF == <<"\n">>

Call(lines, eol, cut, bom, keep, marker, buf) ==
  [driver |-> "vs", precompiled |-> TRUE, script |-> <<>>, lines |-> lines, eol |-> eol,
   cut |-> cut, bom |-> bom, keep |-> keep, marker |-> marker, buf |-> buf]

\* A short text without a precompiled header, and all the ways in which a child
\* may write it and three pieces of stderr.
Plain(driver, writes) ==
  [Call(<<Other("other")>>, CR, FALSE, FALSE, FALSE, <<>>, 3)
     EXCEPT !.driver = driver, !.script = writes, !.precompiled = FALSE]
Scripts ==
  {s \in [1..7 -> {"out", "err"}] : Cardinality({k \in 1..7 : s[k] = "out"}) = 4}

MCInputs ==
  {Plain("vs", <<>>)} \cup {Plain("clang", s) : s \in Scripts}
  \cup
  {Call(<<Entry>> \o lines, eol, FALSE, FALSE, keep, <<"std", ".h">>, buf) :
     lines \in Sequences(Middle, 3), eol \in {CR, LF}, keep \in BOOLEAN, buf \in {1, 2, 3, 5}}
  \cup
  {Call(lines, CR, cut, bom, FALSE, marker, 2) :
     lines \in Sequences({Entry} \cup Middle \cup Rare, 2), cut \in BOOLEAN, bom \in BOOLEAN,
     marker \in {<<>>, <<"dir", "\\", "std", ".h">>}}
  \cup
  {Call(<<Entry, LineOf("1", <<"dir", "/", "std", ".h">>, TRUE), Entry>>, CR, cut, bom, keep, marker, 3) :
     cut \in BOOLEAN, bom \in BOOLEAN, keep \in BOOLEAN, marker \in {<<"std", ".h">>, <<"dir", "\\", "std", ".h">>}}

===============================================================================
