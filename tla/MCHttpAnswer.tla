---------------------------- MODULE MCHttpAnswer ----------------------------
(***************************************************************************)
(* HttpAnswer with the ways a peer, or a tunnel in front of it, may frame  *)
(* its texts: a stated length, chunks cut anywhere, or up to the close.    *)
(***************************************************************************)
EXTENDS HttpAnswer

MCKinds ==
    {"cr", "lf", "status", "content-length", "content-type", "chunked", "size", "{", "entry", "}"}

Line(is, n) == <<Byte(is, n)>> \o LineEnd
Text(marks) == [i \in DOMAIN marks |-> Byte(marks[i], 0)]

\* A text in chunks of these sizes.
Chunks(text, sizes) ==
    LET from(i) == FoldLeft(+, 1, SubSeq(sizes, 1, i - 1))
        chunk(i) == Line("size", sizes[i]) \o SubSeq(text, from(i), from(i + 1) - 1) \o LineEnd
    IN  FlattenSeq([i \in DOMAIN sizes |-> chunk(i)]) \o Line("size", 0) \o LineEnd

Sizes(text) ==
    {s \in UNION {[1 .. k -> 1 .. Len(text)] : k \in 1 .. Len(text)} :
        FoldLeft(+, 0, s) = Len(text)}

Wires(status, text) ==
    {Line("status", status) \o Line("content-length", Len(text)) \o LineEnd \o text,
     Line("status", status) \o Line("content-type", 0) \o LineEnd \o text}
    \cup {Line("status", status) \o Line("chunked", 0) \o LineEnd \o Chunks(text, s) :
             s \in Sizes(text)}

MCTexts == {Text(<<"{", "}">>), Text(<<"{", "entry", "}">>), Text(<<"{", "entry", "entry", "}">>)}
MCAnswers ==
    UNION {{[status |-> status, text |-> text, wire |-> wire] : wire \in Wires(status, text)} :
              status \in {200, 401}, text \in MCTexts}
=============================================================================
