----------------------------- MODULE HttpAnswer -----------------------------
(***************************************************************************)
(* One exchange of the client of src/gossip.rs: the answer of a peer       *)
(* arrives piece by piece, the peer may be killed or fall silent at any    *)
(* point of it, and what was read by then is taken for an answer or for an *)
(* error.  A byte stands for itself or, where it is never looked into, for *)
(* a run of them: the status, a header field, the size of a chunk.         *)
(***************************************************************************)
EXTENDS Integers, SequencesExt

CONSTANTS
    Kinds,        \* what a byte may stand for
    Answers,      \* what peers say: a status, a JSON text and the bytes that carry both
    MaxResponse   \* MAX_RESPONSE_BYTES

Byte(is, n) == [is |-> is, n |-> n]
Bytes == [is: Kinds, n: Nat]
LineEnd == <<Byte("cr", 0), Byte("lf", 0)>>
EmptyLine == LineEnd \o LineEnd

-----------------------------------------------------------------------------
(* How the bytes read are understood. *)

NotYet == [ok |-> FALSE, status |-> 0, body |-> << >>]
Error == [ok |-> FALSE, status |-> 1, body |-> << >>]
Response(status, body) == [ok |-> TRUE, status |-> status, body |-> body]

\* The pattern stands at place j of the bytes.
Stands(pattern, bytes, j) ==
    /\ j + Len(pattern) <= Len(bytes) + 1
    /\ \A k \in 1 .. Len(pattern) : bytes[j + k - 1] = pattern[k]

\* The first place from i on at which the pattern stands, 0 if there is none.
Find(bytes, pattern, i) ==
    LET places == {j \in i .. Len(bytes) : Stands(pattern, bytes, j)}
    IN  IF places = {} THEN 0 ELSE Min(places)

\* What the header fields of a kind say: those between the status and the
\* first empty line.
Fields(bytes, kind) ==
    {bytes[i].n : i \in {j \in 2 .. Find(bytes, EmptyLine, 1) : bytes[j].is = kind}}

\* Bug: chunks that stop coming are taken for the end of the text.
NoChunkIsTheEnd == Response(0, << >>)

NoChunk == Error

\* For each place, the text whose chunks begin there: a size and a line end,
\* that many bytes and a line end, and so on up to a size of zero.
Decodes(bytes) ==
    LET decode[j \in 1 .. Len(bytes) + 1] ==
            LET start == j + 3
                size == bytes[j].n
                rest == decode[start + size + 2]
            IN  IF Find(bytes, LineEnd, j) # j + 1 \/ bytes[j].is # "size" THEN NoChunk
                ELSE IF size = 0 THEN Response(0, << >>)
                ELSE IF Len(bytes) - start + 1 < size + 2 THEN Error
                ELSE IF rest.ok THEN Response(0, SubSeq(bytes, start, start + size - 1) \o rest.body)
                ELSE Error
    IN  decode

\* Chunks count before a stated length; with neither, the text is all there is.
ParseResponse(bytes) ==
    LET split == Find(bytes, EmptyLine, 1)
        stated == Fields(bytes, "content-length")
        rest == SubSeq(bytes, split + 4, Len(bytes))
        chunks == Decodes(bytes)[split + 4]
    IN  IF split = 0 \/ bytes[1].is # "status" THEN Error
        ELSE IF Fields(bytes, "chunked") # {}
             THEN IF chunks.ok THEN Response(bytes[1].n, chunks.body) ELSE Error
        ELSE IF stated = {} THEN Response(bytes[1].n, rest)
        ELSE IF Len(rest) < Max(stated) THEN Error
        ELSE Response(bytes[1].n, SubSeq(rest, 1, Max(stated)))

-----------------------------------------------------------------------------
(* How the servers that answer frame their texts (HTTP/1.1). *)

Chunk(part) == <<Byte("size", Len(part))>> \o LineEnd \o part \o LineEnd

\* The text, cut into k parts anywhere, in chunks; the last chunk is empty.
IsChunked(body, text) ==
    \E k \in 0 .. Len(text) : \E cut \in [0 .. k -> 0 .. Len(text)] :
        /\ cut[0] = 0 /\ cut[k] = Len(text)
        /\ \A i \in 1 .. k :
              /\ cut[i - 1] < cut[i]
              /\ Stands(Chunk(SubSeq(text, cut[i - 1] + 1, cut[i])), body, cut[i - 1] + 5 * i - 4)
        /\ Stands(Chunk(<< >>), body, Len(text) + 5 * k + 1)
        /\ Len(body) = Len(text) + 5 * k + 5

\* A status and fields up to the first empty line, then the text: in chunks, or
\* as it is, and a length that is stated is its own.
Framed(a) ==
    \E h \in 5 .. Len(a.wire) :
        LET head == SubSeq(a.wire, 1, h)
            body == SubSeq(a.wire, h + 1, Len(a.wire))
        IN  /\ head[1] = Byte("status", a.status)
            /\ Find(head, EmptyLine, 1) = h - 3
            /\ IF Fields(head, "chunked") # {} THEN IsChunked(body, a.text)
               ELSE body = a.text /\ Fields(head, "content-length") \subseteq {Len(a.text)}

\* A text is a JSON object: it ends with the brace that closes the one it began
\* with, so the beginning of one is none.
ASSUME HttpAssumption ==
    /\ {"cr", "lf", "status", "content-length", "chunked", "size"} \subseteq Kinds
    /\ Answers \subseteq [status: Nat, text: Seq(Bytes), wire: Seq(Bytes)]
    /\ \A a \in Answers : Framed(a)
    /\ \A a, b \in Answers : IsPrefix(a.text, b.text) => a.text = b.text
    /\ MaxResponse \in Nat

-----------------------------------------------------------------------------

VARIABLES
    answer,    \* what the peer has to say
    unsent,    \* the bytes of it that have not arrived
    raw,       \* those that were read
    stream,    \* the connection
    response   \* what exchange returns

httpVars == <<answer, unsent, raw, stream, response>>

\* serde_json reads what is the text of an answer.
Readable(body) == \E a \in Answers : body = a.text

\* pull and time_probe take the text of a 200 that can be read.
Pulled(r) == r.ok /\ r.status = 200 /\ Readable(r.body)

-----------------------------------------------------------------------------

HttpInit ==
    /\ answer \in Answers
    /\ unsent = answer.wire
    /\ raw = << >> /\ stream = "open" /\ response = NotYet

\* A byte arrives; of an answer that is too long, one byte too many is read.
ByteArrives ==
    /\ stream = "open" /\ unsent # << >> /\ Len(raw) <= MaxResponse
    /\ raw' = Append(raw, Head(unsent)) /\ unsent' = Tail(unsent)
    /\ UNCHANGED <<answer, stream, response>>

\* The peer closes the connection: all is said, or its process was killed.
Close ==
    /\ stream = "open" /\ stream' = "closed"
    /\ UNCHANGED <<answer, unsent, raw, response>>

\* Bug: only connecting takes limited time.
TimesOutUnread ==
    /\ stream = "open" /\ raw = << >>
    /\ stream' = "broken" /\ response' = Error
    /\ UNCHANGED <<answer, unsent, raw>>

\* No byte comes for as long as a step may take, or the connection is reset.
TimesOut ==
    /\ stream = "open" /\ Len(raw) <= MaxResponse
    /\ stream' = "broken" /\ response' = Error
    /\ UNCHANGED <<answer, unsent, raw>>

\* Bug: an answer as long as the limit is too long.
FinishBelow ==
    /\ response = NotYet
    /\ stream = "closed" \/ Len(raw) > MaxResponse
    /\ response' = IF Len(raw) >= MaxResponse THEN Error ELSE ParseResponse(raw)
    /\ UNCHANGED <<answer, unsent, raw, stream>>

\* All there is was read, or more than an answer may have.
Finish ==
    /\ response = NotYet
    /\ stream = "closed" \/ Len(raw) > MaxResponse
    /\ response' = IF Len(raw) > MaxResponse THEN Error ELSE ParseResponse(raw)
    /\ UNCHANGED <<answer, unsent, raw, stream>>

HttpNext == ByteArrives \/ Close \/ TimesOut \/ Finish

\* Nothing is asked of the peer.
HttpSpec == HttpInit /\ [][HttpNext]_httpVars /\ WF_httpVars(TimesOut) /\ WF_httpVars(Finish)

-----------------------------------------------------------------------------
(* Correctness. *)

\* An answer that was cut off is noticed: whatever point the peer was killed
\* at, its text is taken in full or not at all where the peer says how long it
\* is, and what is merged is in any case the whole of the state it sent.
CutIsNoticed ==
    /\ response.ok /\ Fields(raw, "content-length") \cup Fields(raw, "chunked") # {}
       => response.body = answer.text
    /\ Pulled(response) => response = Response(200, answer.text)

\* An answer that arrived in full and is not too long is understood as it was
\* meant: a status of 200 and a state are never taken for a failure.
WholeIsTaken ==
    response # NotYet /\ stream = "closed" /\ unsent = << >> /\ Len(answer.wire) <= MaxResponse
    => response = Response(answer.status, answer.text)

\* The exchange comes to an end, whatever the peer does: the gossip thread and
\* the clock thread are never held for good by one peer.
EndsInTime == <>(response # NotYet)
=============================================================================
