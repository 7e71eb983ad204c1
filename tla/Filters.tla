------------------------------ MODULE Filters -------------------------------
(***************************************************************************)
(* The programs grep and wc of user/, which read a text in pieces: read()  *)
(* returns fewer characters than asked for when it likes, as it does on a  *)
(* pipe or at the console.  A text is a sequence of one-letter strings.    *)
(***************************************************************************)
EXTENDS Naturals, Sequences, FiniteSets, SequencesExt

CONSTANTS
    Texts,     \* what is read
    Patterns,  \* what grep looks for: records of bol, items and eol
    BUFSIZE    \* sizeof(buf)

VARIABLES
    tool,   \* "grep" or "wc"
    text,   \* the whole input
    pat,    \* grep's pattern
    pos,    \* characters read so far
    buf,    \* grep: the first m characters of buf, a line that is not complete
    out,    \* grep: what it has written
    count,  \* wc: its counters
    ended   \* read() has returned 0

vars == <<tool, text, pat, pos, buf, out, count, ended>>

-----------------------------------------------------------------------------
(* The matcher of grep.c, on patterns as they are typed.                   *)

RECURSIVE matchhere(_, _)

\* matchstar(): c*re at the beginning of t.
RECURSIVE matchstar(_, _, _)
matchstar(c, re, t) ==
    \/ matchhere(re, t)
    \/ t # <<>> /\ c \in {Head(t), "."} /\ matchstar(c, re, Tail(t))

matchhere(re, t) ==
    IF re = <<>> THEN TRUE
    ELSE IF Len(re) > 1 /\ re[2] = "*" THEN matchstar(re[1], SubSeq(re, 3, Len(re)), t)
    ELSE IF re = <<"$">> THEN t = <<>>
    ELSE t # <<>> /\ Head(re) \in {Head(t), "."} /\ matchhere(Tail(re), Tail(t))

match(re, t) ==
    IF re # <<>> /\ Head(re) = "^" THEN matchhere(Tail(re), t)
    ELSE \E i \in 0 .. Len(t) : matchhere(re, SubSeq(t, i + 1, Len(t)))

\* The pattern as it is typed.
Typed(p) ==
    (IF p.bol THEN <<"^">> ELSE <<>>)
    \o FlattenSeq([k \in DOMAIN p.items |->
            IF p.items[k].star THEN <<p.items[k].c, "*">> ELSE <<p.items[k].c>>])
    \o (IF p.eol THEN <<"$">> ELSE <<>>)

-----------------------------------------------------------------------------
(* grep() and wc().                                                        *)

Newlines(s) == {k \in DOMAIN s : s[k] = "\n"}

\* The loop over the complete lines in p; o is what has been written.
RECURSIVE GrepLines(_, _, _)
GrepLines(re, p, o) ==
    IF Newlines(p) = {} THEN [rest |-> p, out |-> o]
    ELSE LET q == CHOOSE k \in Newlines(p) : \A j \in Newlines(p) : k <= j
         IN GrepLines(re, SubSeq(p, q + 1, Len(p)),
                      IF match(re, SubSeq(p, 1, q - 1)) THEN o \o SubSeq(p, 1, q) ELSE o)

\* Mutant of Carried: the next read() overwrites the line it should complete.
CarriedNot(p) == <<>>

\* memmove() of the line that is not complete to the start of buf.
Carried(p) == p

GrepRead(n) ==
    /\ tool = "grep" /\ ~ ended
    /\ n <= BUFSIZE - Len(buf) - 1 /\ pos + n <= Len(text)
    /\ \E r \in {GrepLines(Typed(pat), buf \o SubSeq(text, pos + 1, pos + n), out)} :
          buf' = Carried(r.rest) /\ out' = r.out
    /\ pos' = pos + n
    /\ UNCHANGED <<tool, text, pat, count, ended>>

\* read() of 0 characters: the end, or buf is full of one line.
GrepEnd ==
    /\ tool = "grep" /\ ~ ended
    /\ pos = Len(text) \/ Len(buf) = BUFSIZE - 1
    /\ ended' = TRUE
    /\ UNCHANGED <<tool, text, pat, pos, buf, out, count>>

\* A line of wc ends.
WcLine(c) == [c EXCEPT !.l = @ + 1, !.cur = 0,
                       !.longest = IF c.cur > @ THEN c.cur ELSE @]

\* A turn of wc()'s inner loop.
WcChar(c, ch) ==
    LET d == IF ch = "\n" THEN WcLine(c) ELSE [c EXCEPT !.c = @ + 1, !.cur = @ + 1]
    IN IF ch \in {" ", "\n"} THEN [d EXCEPT !.inword = FALSE]
       ELSE [d EXCEPT !.inword = TRUE, !.w = IF c.inword THEN @ ELSE @ + 1]

WcRead(n) ==
    /\ tool = "wc" /\ ~ ended
    /\ n <= BUFSIZE /\ pos + n <= Len(text)
    /\ count' = FoldLeft(WcChar, count, SubSeq(text, pos + 1, pos + n))
    /\ pos' = pos + n
    /\ UNCHANGED <<tool, text, pat, buf, out, ended>>

\* The last line counts also without a newline.
WcEnd ==
    /\ tool = "wc" /\ ~ ended /\ pos = Len(text)
    /\ count' = IF count.cur > 0 THEN WcLine(count) ELSE count
    /\ ended' = TRUE
    /\ UNCHANGED <<tool, text, pat, pos, buf, out>>

Init ==
    /\ tool \in {"grep", "wc"} /\ text \in Texts
    /\ pat \in (IF tool = "grep" THEN Patterns ELSE {CHOOSE p \in Patterns : TRUE})
    /\ pos = 0 /\ buf = <<>> /\ out = <<>> /\ ended = FALSE
    /\ count = [l |-> 0, w |-> 0, c |-> 0, inword |-> FALSE, longest |-> 0, cur |-> 0]

Next == GrepEnd \/ WcEnd \/ \E n \in 1 .. BUFSIZE : GrepRead(n) \/ WcRead(n)

Spec == Init /\ [][Next]_vars

-----------------------------------------------------------------------------
(* The reference: what a pattern means, and what there is to count.        *)

\* Where in t a match can have got to after item i, from the places in S.
After(i, S, t) ==
    LET Fits(k) == i.c \in {t[k], "."}
    IN IF i.star THEN {j \in 0 .. Len(t) : \E k \in S : k <= j /\ \A x \in k + 1 .. j : Fits(x)}
       ELSE {k + 1 : k \in {x \in S : x < Len(t) /\ Fits(x + 1)}}

Matches(p, t) ==
    LET ends == FoldLeft(LAMBDA S, i : After(i, S, t),
                         IF p.bol THEN {0} ELSE 0 .. Len(t), p.items)
    IN IF p.eol THEN Len(t) \in ends ELSE ends # {}

\* The lines of s that end with a newline: pairs of first and last place.
LinesOf(s) == {ab \in (1 .. Len(s)) \X Newlines(s) :
               /\ ab[1] <= ab[2] /\ (ab[1] = 1 \/ s[ab[1] - 1] = "\n")
               /\ \A k \in ab[1] .. ab[2] - 1 : s[k] # "\n"}
Found(s) == {k \in 1 .. Len(s) : \E ab \in LinesOf(s) :
               k \in ab[1] .. ab[2] /\ Matches(pat, SubSeq(s, ab[1], ab[2] - 1))}
Selected(s, K) == LET at == SetToSortSeq(K, <) IN [j \in DOMAIN at |-> s[at[j]]]

\* The length of the line, or the part of it, that ends before place k.
Run(k) == CHOOSE n \in 0 .. k - 1 :
             /\ \A j \in k - n .. k - 1 : text[j] # "\n"
             /\ n < k - 1 => text[k - n - 1] = "\n"
Whole == text = <<>> \/ text[Len(text)] = "\n"

\* However read() cuts the text up: grep has written exactly the lines so far
\* that its pattern matches, and gives up before the end of the text only at
\* a line that does not fit into its buffer; wc has counted the lines, words
\* and characters there are.
FilterOutput ==
    /\ tool = "grep" =>
         /\ out = Selected(text, Found(SubSeq(text, 1, pos)))
         /\ ended /\ pos < Len(text) => \E k \in DOMAIN text : Run(k + 1) >= BUFSIZE - 1
    /\ tool = "wc" /\ ended =>
         /\ count.l = Cardinality(Newlines(text)) + (IF Whole THEN 0 ELSE 1)
         /\ count.c = Len(text) - Cardinality(Newlines(text))
         /\ count.w = Cardinality({k \in DOMAIN text : text[k] \notin {" ", "\n"}
                                     /\ (k = 1 \/ text[k - 1] \in {" ", "\n"})})
         /\ \A k \in 1 .. Len(text) + 1 : count.longest >= Run(k)
         /\ \E k \in 1 .. Len(text) + 1 : count.longest = Run(k)

=============================================================================
