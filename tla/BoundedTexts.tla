----------------------------- MODULE BoundedTexts -----------------------------
(***************************************************************************)
(* How the bridge limits what it reads and returns: responses of the       *)
(* backend and of the browser (backend.rs, browser.rs), client metadata    *)
(* documents (oauth/client.rs), search results, captured output            *)
(* (process.rs) and quoted texts (util.rs).                                *)
(*                                                                         *)
(* Only sizes count. A body arrives as a sequence of chunks, given by      *)
(* their bytes; a text is the sequence of the bytes that each of its       *)
(* characters takes. A reply has both, which of its leading bytes make a   *)
(* document (`documents`), and what there is in the document: a text       *)
(* (`content`) or a list of entries (`list`).                              *)
(***************************************************************************)
EXTENDS Integers, Sequences

First(n, items) == SubSeq(items, 1, n)
Least(m, n)     == IF m < n THEN m ELSE n
Greatest(S)     == CHOOSE m \in S : \A n \in S : n <= m

\* A loop over a sequence: after n rounds, Round has been applied to its first n
\* elements.
Loop(Round(_, _), start, items) ==
  LET after[n \in 0..Len(items)] ==
        IF n = 0 THEN start ELSE Round(after[n - 1], items[n])
  IN  after[Len(items)]

Total(sizes) == Loop(LAMBDA sum, size : sum + size, 0, sizes)

-----------------------------------------------------------------------------
\* One round of read_response_limited, which stops at the first chunk that does
\* not fit.
ReadChunk(limit, read, chunk) ==
  LET keep == Least(limit - read.kept, chunk) IN
  IF read.cut THEN read
  ELSE [kept |-> read.kept + keep, cut |-> keep < chunk]

ReadResponse(chunks, limit) ==
  Loop(LAMBDA read, chunk : ReadChunk(limit, read, chunk),
       [kept |-> 0, cut |-> FALSE], chunks)

\* Mutant: a text that was cut off is returned as it is.
Notice_Omitted(read, notice) == <<>>

Notice(read, notice) == IF read.cut THEN notice ELSE <<>>

\* The characters of a text that are whole in its first `size` bytes.
WholeIn(text, size) == Greatest({n \in 0..Len(text) : Total(First(n, text)) <= size})

\* from_utf8_lossy: one replacement character for a character that is split.
Lossy(text, size) ==
  LET whole == First(WholeIn(text, size), text) IN
  IF Total(whole) < size THEN Append(whole, 3) ELSE whole

\* response_text_checked, of a reply without an error status.
Received(reply, limits) ==
  LET read == ReadResponse(reply.chunks, limits.response) IN
  [body |-> Lossy(reply.text, read.kept), notice |-> Notice(read, limits.notice),
   size |-> read.kept]

\* response_json_checked, browser_response_text: half a document is an error, also
\* when what there is of it happens to be a document.
DocumentAnswer(ok, chunks, limit) ==
  IF ok /\ ~ReadResponse(chunks, limit).cut THEN "document" ELSE "error"

\* fetch_client_metadata: a document is given up when its declared length, -1 if
\* there is none, or the next chunk is too much.
MetadataAnswer(declared, chunks, limit) ==
  LET Grow(size, chunk) ==
        IF size > limit THEN size ELSE size + chunk
  IN  IF declared > limit \/ Loop(Grow, 0, chunks) > limit
      THEN "error" ELSE "document"

-----------------------------------------------------------------------------
\* The characters of an entry are counted only as far as it takes to see that
\* there are too many.
Fits(result, chars, limit) ==
  LET remaining == limit - result.chars
      separator == IF result.items = <<>> THEN 0 ELSE 1
  IN  Least(chars, remaining + 1) + separator <= remaining

\* A round of filter_search_results: entries without a path (None), and those whose
\* file is not inside, are skipped; the first that does not fit ends the result.
AddItem(result, item, inside, limit) ==
  IF result.full \/ item.path \notin inside THEN result
  ELSE IF ~Fits(result, item.chars, limit) THEN [result EXCEPT !.full = TRUE]
  ELSE [items |-> Append(result.items, item),
        chars |-> result.chars + item.chars + (IF result.items = <<>> THEN 0 ELSE 1),
        full  |-> FALSE]

FilterSearch(items, inside, limit) ==
  Loop(LAMBDA result, item : AddItem(result, item, inside, limit),
       [items |-> <<>>, chars |-> 2, full |-> FALSE], items)

-----------------------------------------------------------------------------
\* trunc: a text within the limit in bytes is not looked at; a longer one ends
\* where its character number `limit` starts, if it has that many.
Trunc(text, limit) ==
  IF Total(text) <= limit \/ limit >= Len(text) THEN text ELSE First(limit, text)

\* capture_text, of a capture of at most `limit` bytes: a replacement character
\* takes 3 bytes, and stands for 1 to 3 that were captured. A text that grew beyond
\* the limit ends at a character.
CaptureText(text, cut, limit) ==
  LET ends == {Total(First(n, text)) : n \in 0..Len(text)}
      end  == Greatest({e \in ends : e <= limit})
      size == CHOOSE n \in 0..Len(text) : Total(First(n, text)) = end
  IN  IF Total(text) <= limit THEN [text |-> text, cut |-> cut]
      ELSE [text |-> First(size, text), cut |-> TRUE]

-----------------------------------------------------------------------------
(* What the tools return. An Option is a sequence of at most one element. *)

\* serde_json::from_str: the first `size` bytes of the reply may be a document; with
\* a notice behind them they are none.
Parses(reply, received) == received.notice = <<>> /\ received.size \in reply.documents

\* An answer that quotes what was received, up to the limit of the tool, and how much
\* of the notice is in it.
Quoted(received, limit) ==
  LET text == Trunc(received.body \o received.notice, limit) IN
  [from |-> "text", text |-> text,
   notice |-> Len(text) - Least(Len(text), Len(received.body))]

\* read_file: the content that the document has, or else the text.
FileAnswer(reply, limits) ==
  LET received == Received(reply, limits) IN
  IF Parses(reply, received) /\ reply.content # <<>>
  THEN [from |-> "document", text |-> Trunc(reply.content[1], limits.file), notice |-> 0]
  ELSE Quoted(received, limits.file)

\* The end of prompt: the text parts of the document, if there are any, or else the
\* text.
PromptAnswer(reply, limits) ==
  LET received == Received(reply, limits) IN
  IF Parses(reply, received) /\ reply.content \notin {<<>>, <<<<>>>>}
  THEN [from |-> "document", text |-> reply.content[1], notice |-> 0]
  ELSE Quoted(received, limits.prompt)

\* search, which fails unless what was received is a list.
SearchAnswer(reply, limits) ==
  IF Parses(reply, Received(reply, limits)) /\ reply.list # <<>>
  THEN [from |-> "list", notice |-> 0,
        text |-> FilterSearch(reply.list[1], limits.inside, limits.search).items]
  ELSE [from |-> "error", text |-> <<>>, notice |-> 0]

-----------------------------------------------------------------------------
(* What the limits are to do *)

Allowed(items, inside) ==
  Loop(LAMBDA list, item : IF item.path \in inside THEN Append(list, item) ELSE list,
       <<>>, items)

\* The characters of the first n entries, with commas and brackets.
ListChars(entries, n) ==
  2 + Total([i \in 1..n |-> entries[i].chars]) + (IF n = 0 THEN 0 ELSE n - 1)

\* Of a body as much is kept as the limit allows, and it is complete or known not
\* to be, whether its length was declared or not.
BodyIsExact(chunks, limit) ==
  /\ ReadResponse(chunks, limit).kept = Least(limit, Total(chunks))
  /\ ReadResponse(chunks, limit).cut <=> Total(chunks) > limit
  /\ (DocumentAnswer(TRUE, chunks, limit) = "document") <=> Total(chunks) <= limit
  /\ \A declared \in {-1, Total(chunks)} :
       (MetadataAnswer(declared, chunks, limit) = "document")
         <=> Total(chunks) <= limit

\* A search result has the allowed entries up to the first that does not fit.
SearchIsExact(items, inside, limit) ==
  LET allowed == Allowed(items, inside)
      most    == Greatest({n \in 0..Len(allowed) : ListChars(allowed, n) <= limit})
      result  == FilterSearch(items, inside, limit)
  IN  /\ result.items = First(most, allowed)
      /\ result.chars = ListChars(allowed, most)

\* A quoted text has the characters that it may have; a captured one is cut at a
\* character, the last that the limit allows for.
TextIsExact(text, limit) ==
  /\ Trunc(text, limit) = First(Least(limit, Len(text)), text)
  /\ LET result == CaptureText(text, FALSE, limit) IN
       /\ result.text = First(Len(result.text), text) /\ Total(result.text) <= limit
       /\ \A n \in 0..Len(text) :
            Total(First(n, text)) <= limit => n <= Len(result.text)
       /\ result.cut <=> Total(text) > limit
=============================================================================
