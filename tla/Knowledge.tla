------------------------------ MODULE Knowledge ------------------------------
(***************************************************************************)
(* The knowledge service: an administrator uploads a normative PDF, whose  *)
(* text is cut into windows of words, embedded and stored as vectors in    *)
(* ChromaDB; the document itself is a row in PostgreSQL.  The two stores   *)
(* have no transaction in common: the vectors are visible to every search  *)
(* as soon as they are upserted, the row only after the COMMIT that        *)
(* follows.  Searches ask ChromaDB alone.                                  *)
(*                                                                         *)
(* A text is known by its words, and a word by the page it stands on.  The *)
(* loop that cuts the text is modelled iteration by iteration: nothing can *)
(* come in between, but what it computes is proved from its steps.         *)
(***************************************************************************)
EXTENDS Integers, Sequences, FiniteSets

CONSTANTS
    Documents,  \* identifiers that gen_random_uuid() can draw
    Requests,   \* requests in flight at the same time
    Texts,      \* what PDFs contain: the page of each word, in reading order
    Unreadable, \* a file that PyMuPDF does not open
    Size,       \* rag_chunk_size, in words
    Overlap,    \* rag_chunk_overlap
    TopK,       \* rag_top_k, or the top_k of a search
    None        \* no such row, and an unset local variable

ASSUME TextsAssumption ==
    /\ Texts \subseteq Seq(Nat)
    /\ \A t \in Texts : \A v, w \in 1 .. Len(t) : v <= w => t[v] <= t[w]
    /\ Unreadable \notin Texts
ASSUME ChunkAssumption ==
    Size \in Nat /\ Overlap \in Nat /\ Overlap < Size /\ TopK \in Nat
ASSUME NoneAssumption ==
    None \notin Documents /\ None \notin Texts /\ None # Unreadable

VARIABLES
    rows,      \* rows[d]: the committed rows of knowledge_documents
    passages,  \* the collection normative_corpus
    req,       \* req[r]: the coroutine of request r, with its local variables
    abandoned  \* history: documents given up when their vectors may have been stored

vars == <<rows, passages, req, abandoned>>

Row == [text : Texts, status : {"PENDING", "INDEXED"}, embedding_count : Nat]

ASSUME RowAssumption == None \notin Row

\* A chunk with the document_id of its metadata: the words from .. to of the text,
\* and the pages of the first and the last of them.
Passage == [document : Documents, index : Nat, from : Nat, to : Nat,
            page_start : Nat, page_end : Nat]

Places == {"idle", "extracting", "chunking", "embedding", "upserting", "committing", "citing"}

Coroutine ==
    [pc       : Places,
     text     : Texts \cup {Unreadable, None},
     document : Documents \cup {None},  \* the id its flushed row was given
     start    : Nat,                    \* where the next window begins
     index    : Nat,                    \* its number, from 0: how many there are so far
     chunks   : SUBSET Passage,
     hits     : SUBSET Passage]         \* what a search has returned

Idle == [pc |-> "idle", text |-> None, document |-> None,
         start |-> 0, index |-> 0, chunks |-> {}, hits |-> {}]

\* Every column, vector and local variable keeps its type.
KnowledgeTypeOK ==
    /\ rows \in [Documents -> Row \cup {None}]
    /\ passages \subseteq Passage
    /\ req \in [Requests -> Coroutine]
    /\ abandoned \subseteq Documents

Init ==
    /\ rows = [d \in Documents |-> None]
    /\ passages = {}
    /\ req = [r \in Requests |-> Idle]
    /\ abandoned = {}

-----------------------------------------------------------------------------

\* Operators named ...Mutant are faulty variants of the definition that follows
\* them.  No specification uses them: each breaks a property when it takes the
\* place of that definition.

PassagesOf(d) == {p \in passages : p.document = d}

\* No row, open transaction or vector uses d: what gen_random_uuid() draws.
Fresh(d) ==
    /\ rows[d] = None
    /\ d \notin abandoned
    /\ PassagesOf(d) = {}
    /\ \A r \in Requests : req[r].document # d

\* Documents whose vectors have been sent, or are on their way, without a COMMIT.
Storing(rs) == {req[r].document : r \in {s \in rs : req[s].pc \in {"upserting", "committing"}}}

\* POST /knowledge/documents, with a file that passes the checks of the endpoint.
Ingest(r, file) ==
    /\ req[r].pc = "idle"
    /\ req' = [req EXCEPT ![r] = [Idle EXCEPT !.pc = "extracting", !.text = file]]
    /\ UNCHANGED <<rows, passages, abandoned>>

\* 400: the PDF cannot be read, or is a scan without text.
RefuseText(r) ==
    /\ req[r].pc = "extracting"
    /\ req[r].text \in {Unreadable, <<>>}
    /\ req' = [req EXCEPT ![r] = Idle]
    /\ UNCHANGED <<rows, passages, abandoned>>

\* The row is flushed: it has an id, and no other session sees it.
InsertDocument(r, d) ==
    /\ req[r].pc = "extracting"
    /\ req[r].text \notin {Unreadable, <<>>}
    /\ Fresh(d)
    /\ req' = [req EXCEPT ![r].pc = "chunking", ![r].document = d]
    /\ UNCHANGED <<rows, passages, abandoned>>

\* The window that begins after the first `start` words of text.
Window(d, text, index, start) ==
    LET end == IF start + Size <= Len(text) THEN start + Size ELSE Len(text) IN
    [document |-> d, index |-> index, from |-> start + 1, to |-> end,
     page_start |-> text[start + 1], page_end |-> text[end]]

\* The window that reaches the end of the text does not end the loop.
ChunkNoBreakMutant(r) ==
    LET c == req[r] IN
    /\ c.pc = "chunking"
    /\ req' = [req EXCEPT
                 ![r].chunks = @ \cup {Window(c.document, c.text, c.index, c.start)},
                 ![r].index  = @ + 1,
                 ![r].start  = @ + (Size - Overlap),
                 ![r].pc     = IF c.start + (Size - Overlap) >= Len(c.text)
                               THEN "embedding" ELSE @]
    /\ UNCHANGED <<rows, passages, abandoned>>

\* Neither the window nor the index advances.
ChunkNoStepMutant(r) ==
    LET c == req[r] IN
    /\ c.pc = "chunking"
    /\ req' = [req EXCEPT
                 ![r].chunks = @ \cup {Window(c.document, c.text, c.index, c.start)},
                 ![r].pc     = IF c.start + Size >= Len(c.text) THEN "embedding" ELSE @]
    /\ UNCHANGED <<rows, passages, abandoned>>

\* One iteration of chunk_pages.  The loop is left at the window that reaches the
\* end of the text; its own condition, start < len(words), never becomes false.
Chunk(r) ==
    LET c == req[r] IN
    /\ c.pc = "chunking"
    /\ req' = [req EXCEPT
                 ![r].chunks = @ \cup {Window(c.document, c.text, c.index, c.start)},
                 ![r].index  = @ + 1,
                 ![r].start  = IF c.start + Size >= Len(c.text) THEN @ ELSE @ + (Size - Overlap),
                 ![r].pc     = IF c.start + Size >= Len(c.text) THEN "embedding" ELSE @]
    /\ UNCHANGED <<rows, passages, abandoned>>

Embed(r) ==
    /\ req[r].pc = "embedding"
    /\ req' = [req EXCEPT ![r].pc = "upserting"]
    /\ UNCHANGED <<rows, passages, abandoned>>

\* The collection after an upsert: entries with the same ids are replaced.
WithChunks(chunks) ==
    {p \in passages : \A c \in chunks : <<p.document, p.index>> # <<c.document, c.index>>}
        \cup chunks

\* The row is committed before its vectors are stored.
UpsertMutant(r) ==
    /\ req[r].pc = "upserting"
    /\ req' = [req EXCEPT ![r].pc = "committing"]
    /\ rows' = [rows EXCEPT ![req[r].document] =
                  [text |-> req[r].text, status |-> "INDEXED", embedding_count |-> req[r].index]]
    /\ UNCHANGED <<passages, abandoned>>

Upsert(r) ==
    /\ req[r].pc = "upserting"
    /\ passages' = WithChunks(req[r].chunks)
    /\ req' = [req EXCEPT ![r].pc = "committing"]
    /\ UNCHANGED <<rows, abandoned>>

\* The transaction is not committed.
CommitDocumentMutant(r) ==
    /\ req[r].pc = "committing"
    /\ req' = [req EXCEPT ![r] = Idle]
    /\ UNCHANGED <<rows, passages, abandoned>>

\* INDEXED and len(chunks), with the audit entry.  A COMMIT that works
\* and raises, or a failing refresh, differs for the client only.
CommitDocument(r) ==
    /\ req[r].pc = "committing"
    /\ rows' = [rows EXCEPT ![req[r].document] =
                  [text |-> req[r].text, status |-> "INDEXED", embedding_count |-> req[r].index]]
    /\ req' = [req EXCEPT ![r] = Idle]
    /\ UNCHANGED <<passages, abandoned>>

\* Any exception on the way: the transaction is rolled back, the vectors stay if
\* they were stored.  An upsert may be carried out and raise.
IngestFails(r) ==
    /\ req[r].pc \in {"extracting", "embedding", "upserting", "committing"}
    /\ passages' \in {passages} \cup
         {WithChunks(chunks) : chunks \in IF req[r].pc = "upserting" THEN {req[r].chunks} ELSE {}}
    /\ abandoned' = abandoned \cup Storing({r})
    /\ req' = [req EXCEPT ![r] = Idle]
    /\ UNCHANGED rows

\* search: ChromaDB returns at most top_k passages, those below the threshold are
\* dropped.  How similar a passage is to a query is left open.
Search(r, hits) ==
    /\ req[r].pc = "idle"
    /\ hits \subseteq passages
    /\ Cardinality(hits) <= TopK
    /\ req' = [req EXCEPT ![r] = [Idle EXCEPT !.pc = "citing", !.hits = hits]]
    /\ UNCHANGED <<rows, passages, abandoned>>

\* The caller has used what it found.
EndSearch(r) ==
    /\ req[r].pc = "citing"
    /\ req' = [req EXCEPT ![r] = Idle]
    /\ UNCHANGED <<rows, passages, abandoned>>

\* The process dies.  ChromaDB, a process of its own, may still carry out the
\* upserts of rs that are on their way.
Restart(rs) ==
    /\ passages' = passages \cup UNION {req[r].chunks : r \in rs}
    /\ abandoned' = abandoned \cup Storing(Requests)
    /\ req' = [r \in Requests |-> Idle]
    /\ UNCHANGED rows

Ingestion(r) ==
    \/ RefuseText(r) \/ (\E d \in Documents : InsertDocument(r, d))
    \/ Chunk(r) \/ Embed(r) \/ Upsert(r) \/ CommitDocument(r) \/ IngestFails(r)

Next ==
    \/ \E r \in Requests :
          \/ \E file \in Texts \cup {Unreadable} : Ingest(r, file)
          \/ Ingestion(r)
          \/ \E hits \in SUBSET passages : Search(r, hits)
          \/ EndSearch(r)
    \/ \E rs \in SUBSET {r \in Requests : req[r].pc = "upserting"} : Restart(rs)

Spec == Init /\ [][Next]_vars

\* The event loop resumes an ingestion whose await has returned or raised.
Fairness == \A r \in Requests : WF_vars(Ingestion(r))

LiveSpec == Spec /\ Fairness

-----------------------------------------------------------------------------

\* Word w of the text stands in passage p, on one of the pages p is cited with.
Cites(p, text, w) ==
    /\ p.from <= w /\ w <= p.to
    /\ p.page_start <= text[w] /\ text[w] <= p.page_end

\* A document that the database lists can be found in its entirety: it has the
\* passages 0 .. embedding_count - 1, each once, and every word of its text stands
\* in one of them, on the pages it is cited with.
IndexedIsWhole ==
    \A d \in Documents : rows[d] # None =>
        /\ rows[d].status = "INDEXED"
        /\ \A k \in 0 .. rows[d].embedding_count - 1 : \E p \in PassagesOf(d) : p.index = k
        /\ \A p, q \in PassagesOf(d) : p.index = q.index => p = q
        /\ \A p \in PassagesOf(d) : p.index < rows[d].embedding_count
        /\ \A w \in 1 .. Len(rows[d].text) :
              \E p \in PassagesOf(d) : Cites(p, rows[d].text, w)

\* Consecutive passages share exactly Overlap words, and each adds words to the
\* one before it: no passage is only a part of another.
WindowsOverlap ==
    \A p, q \in passages :
        (p.document = q.document /\ q.index = p.index + 1) =>
            /\ q.from = (p.to - Overlap) + 1
            /\ q.to > p.to

\* Whatever a search returns is in the collection for as long as its caller uses
\* it, and belongs to a document that is listed, or about to be, or whose ingestion
\* failed after its vectors were sent: nothing else leaves orphans.
HitsHaveADocument ==
    \A r \in Requests : \A p \in req[r].hits :
        /\ p \in passages
        /\ \/ rows[p.document] # None
           \/ p.document \in Storing(Requests)
           \/ p.document \in abandoned

\* Every ingestion comes to an end: the windows advance whatever the text.
IngestionEnds ==
    \A r \in Requests : (req[r].pc = "extracting") ~> (req[r].pc = "idle")
-----------------------------------------------------------------------------
(***************************************************************************)
(* The inductive invariant behind these properties.                        *)
(***************************************************************************)

\* S holds the windows 0 .. n - 1 of document d, each once, inside its text and
\* with the pages of their first and last word.
Windows(S, d, text, n) ==
    /\ \A p \in S :
          /\ p.document = d /\ p.index < n
          /\ 1 <= p.from /\ p.from <= p.to /\ p.to <= Len(text)
          /\ p.page_start = text[p.from] /\ p.page_end = text[p.to]
    /\ \A k \in 0 .. n - 1 : \E p \in S : p.index = k
    /\ \A p, q \in S : p.index = q.index => p = q

\* Consecutive windows of S share Overlap words.
Overlapping(S) ==
    \A p, q \in S : (p.document = q.document /\ q.index = p.index + 1) =>
        q.from = (p.to - Overlap) + 1 /\ q.to > p.to

\* The first n words of a text stand in S.
Covered(S, n) == \A w \in 1 .. n : \E p \in S : p.from <= w /\ w <= p.to

HasDocument == {"chunking", "embedding", "upserting", "committing"}

\* The invariant of the loop, and what it leaves behind.  The next window begins
\* Overlap words before the end of the last one, which is not the end of the text.
Loop(c) ==
    /\ c.pc = "extracting" =>
          c.text # None /\ c.start = 0 /\ c.index = 0 /\ c.chunks = {}
    /\ c.pc \in HasDocument =>
          /\ c.document \in Documents
          /\ c.text \in Texts
          /\ Windows(c.chunks, c.document, c.text, c.index)
          /\ Overlapping(c.chunks)
    /\ c.pc = "chunking" =>
          /\ c.start < Len(c.text)
          /\ c.index = 0 => c.start = 0
          /\ c.index > 0 =>
                /\ c.start + Overlap < Len(c.text)
                /\ Covered(c.chunks, c.start + Overlap)
                /\ \A p \in c.chunks : p.index = c.index - 1 => p.to = c.start + Overlap
    /\ c.pc \in HasDocument \ {"chunking"} => Covered(c.chunks, Len(c.text))

\* An ingestion alone uses its document, and from the upsert on its chunks are
\* the passages of that document.
Owns(r) ==
    LET c == req[r] IN
    /\ c.pc \in HasDocument <=> c.document # None
    /\ c.document # None =>
          /\ rows[c.document] = None
          /\ c.document \notin abandoned
          /\ PassagesOf(c.document) = IF c.pc = "committing" THEN c.chunks ELSE {}
          /\ \A s \in Requests \ {r} : req[s].document # c.document

RowsAreWhole ==
    \A d \in Documents : rows[d] # None =>
        /\ rows[d].status = "INDEXED"
        /\ Windows(PassagesOf(d), d, rows[d].text, rows[d].embedding_count)
        /\ Covered(PassagesOf(d), Len(rows[d].text))

PassagesHaveADocument ==
    \A p \in passages :
        \/ rows[p.document] # None
        \/ p.document \in Storing(Requests)
        \/ p.document \in abandoned

KnowledgeInv ==
    /\ KnowledgeTypeOK
    /\ \A r \in Requests : Loop(req[r]) /\ Owns(r) /\ req[r].hits \subseteq passages
    /\ RowsAreWhole
    /\ WindowsOverlap
    /\ PassagesHaveADocument
=============================================================================
