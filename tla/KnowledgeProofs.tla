-------------------------- MODULE KnowledgeProofs --------------------------
(***************************************************************************)
(* Proofs about Knowledge, for any texts, any number of documents and      *)
(* requests, any size of the windows and any smaller overlap.              *)
(***************************************************************************)
EXTENDS Knowledge, TLAPS

-----------------------------------------------------------------------------
(***************************************************************************)
(* The loop of chunk_pages.                                                *)
(***************************************************************************)

\* A window that begins inside the text lies inside it and is not empty.
LEMMA WindowIsInside ==
    ASSUME NEW d \in Documents, NEW text \in Texts, NEW index \in Nat, NEW start \in Nat,
           start < Len(text)
    PROVE  LET W == Window(d, text, index, start) IN
           /\ W \in Passage /\ W.document = d /\ W.index = index
           /\ W.from = start + 1 /\ W.from <= W.to /\ W.to <= Len(text)
           /\ W.to = IF start + Size <= Len(text) THEN start + Size ELSE Len(text)
           /\ W.page_start = text[W.from] /\ W.page_end = text[W.to]
<1> DEFINE end == IF start + Size <= Len(text) THEN start + Size ELSE Len(text)
<1>1. text \in Seq(Nat) /\ Len(text) \in Nat
  BY TextsAssumption
<1>2. /\ end \in Nat /\ start + 1 \in Nat
      /\ 1 <= start + 1 /\ start + 1 <= end /\ end <= Len(text)
  BY <1>1, ChunkAssumption
<1>3. text[start + 1] \in Nat /\ text[end] \in Nat
  <2>1. start + 1 \in 1 .. Len(text) /\ end \in 1 .. Len(text)
    BY <1>1, <1>2
  <2> QED
    BY <1>1, <2>1
<1>4. Window(d, text, index, start) =
        [document |-> d, index |-> index, from |-> start + 1, to |-> end,
         page_start |-> text[start + 1], page_end |-> text[end]]
  BY DEF Window
<1> HIDE DEF end
<1>5. Window(d, text, index, start) \in Passage
  BY <1>2, <1>3, <1>4 DEF Passage
<1> QED
  BY <1>2, <1>4, <1>5 DEF end

\* One more window keeps what the windows so far promise.
LEMMA WindowsGrow ==
    ASSUME NEW c \in Coroutine, Loop(c), c.pc = "chunking"
    PROVE  LET W == Window(c.document, c.text, c.index, c.start)
               S == c.chunks \cup {W} IN
           /\ S \subseteq Passage
           /\ Windows(S, c.document, c.text, c.index + 1)
           /\ Overlapping(S)
           /\ Covered(S, W.to)
           /\ \A p \in S : p.index = c.index => p = W
<1> DEFINE W == Window(c.document, c.text, c.index, c.start)
           S == c.chunks \cup {W}
<1>1. /\ c.document \in Documents /\ c.text \in Texts
      /\ Windows(c.chunks, c.document, c.text, c.index) /\ Overlapping(c.chunks)
      /\ c.start < Len(c.text)
      /\ c.index = 0 => c.start = 0
      /\ c.index > 0 =>
            /\ c.start + Overlap < Len(c.text)
            /\ Covered(c.chunks, c.start + Overlap)
            /\ \A p \in c.chunks : p.index = c.index - 1 => p.to = c.start + Overlap
  BY DEF Loop, HasDocument
<1>2. c.index \in Nat /\ c.start \in Nat /\ c.chunks \subseteq Passage
  BY DEF Coroutine
<1>3. /\ W \in Passage /\ W.document = c.document /\ W.index = c.index
      /\ W.from = c.start + 1 /\ W.from <= W.to /\ W.to <= Len(c.text)
      /\ W.to = IF c.start + Size <= Len(c.text) THEN c.start + Size ELSE Len(c.text)
      /\ W.page_start = c.text[W.from] /\ W.page_end = c.text[W.to]
  <2>1. /\ c.document \in Documents /\ c.text \in Texts /\ c.index \in Nat /\ c.start \in Nat
        /\ c.start < Len(c.text)
    BY <1>1, <1>2
  <2> QED
    BY <2>1, WindowIsInside, SMTT(30)
<1>4. Len(c.text) \in Nat
  BY <1>1, TextsAssumption
<1> HIDE DEF W
<1>5. \A p \in S : p.index \in Nat /\ p.from \in Nat /\ p.to \in Nat
  BY <1>2, <1>3 DEF Passage
<1>6. \A p \in c.chunks : p.index < c.index
  BY <1>1 DEF Windows
<1>7. \A p \in S : p.index = c.index => p = W
  BY <1>2, <1>5, <1>6
<1>8. Windows(S, c.document, c.text, c.index + 1)
  <2>1. ASSUME NEW p \in S
        PROVE  /\ p.document = c.document /\ p.index < c.index + 1
               /\ 1 <= p.from /\ p.from <= p.to /\ p.to <= Len(c.text)
               /\ p.page_start = c.text[p.from] /\ p.page_end = c.text[p.to]
    <3>1. CASE p = W
      BY <3>1, <1>2, <1>3
    <3>2. CASE p \in c.chunks
      BY <3>2, <1>1, <1>2, <1>5 DEF Windows
    <3> QED
      BY <3>1, <3>2
  <2>2. ASSUME NEW k \in 0 .. (c.index + 1) - 1 PROVE \E p \in S : p.index = k
    <3>1. CASE k = c.index
      BY <3>1, <1>3
    <3>2. CASE k # c.index
      <4>1. k \in 0 .. c.index - 1
        BY <3>2, <1>2
      <4> QED
        BY <4>1, <1>1 DEF Windows
    <3> QED
      BY <3>1, <3>2
  <2>3. \A p, q \in S : p.index = q.index => p = q
    BY <1>1, <1>2, <1>3, <1>5, <1>6, <1>7 DEF Windows
  <2> QED
    BY <2>1, <2>2, <2>3 DEF Windows
<1>9. Overlapping(S)
  <2> SUFFICES ASSUME NEW p \in S, NEW q \in S, p.document = q.document, q.index = p.index + 1
               PROVE  q.from = (p.to - Overlap) + 1 /\ q.to > p.to
    BY DEF Overlapping
  <2>1. CASE p \in c.chunks /\ q \in c.chunks
    BY <2>1, <1>1 DEF Overlapping
  <2>2. CASE p \in c.chunks /\ q = W
    <3>1. p.index = c.index - 1 /\ c.index > 0
      BY <2>2, <1>2, <1>3, <1>5
    <3>2. p.to = c.start + Overlap /\ c.start + Overlap < Len(c.text)
      BY <2>2, <3>1, <1>1
    <3> QED
      BY <2>2, <3>2, <1>2, <1>3, <1>4, <1>5, ChunkAssumption
  <2>3. CASE p = W
    BY <2>3, <1>2, <1>3, <1>5, <1>6
  <2> QED
    BY <2>1, <2>2, <2>3
<1>10. Covered(S, W.to)
  <2> SUFFICES ASSUME NEW w \in 1 .. W.to PROVE \E p \in S : p.from <= w /\ w <= p.to
    BY DEF Covered
  <2>1. W.to \in Nat /\ w \in Nat /\ 1 <= w /\ w <= W.to
    BY <1>5
  <2>2. CASE w > c.start
    BY <2>1, <2>2, <1>2, <1>3
  <2>3. CASE w <= c.start
    <3>1. c.index > 0
      BY <2>1, <2>3, <1>1, <1>2
    <3>2. w \in 1 .. c.start + Overlap
      BY <2>1, <2>3, <1>2, ChunkAssumption
    <3> QED
      BY <3>1, <3>2, <1>1 DEF Covered
  <2> QED
    BY <2>1, <2>2, <2>3, <1>2
<1> QED
  BY <1>2, <1>3, <1>7, <1>8, <1>9, <1>10 DEF W

\* An iteration keeps the invariant of the loop: the next window begins Overlap
\* words before the end of this one, or the whole text is covered.
LEMMA LoopStep ==
    ASSUME NEW c \in Coroutine, Loop(c), c.pc = "chunking",
           NEW e \in Coroutine,
           e.document = c.document, e.text = c.text,
           e.chunks = c.chunks \cup {Window(c.document, c.text, c.index, c.start)},
           e.index = c.index + 1,
           e.start = IF c.start + Size >= Len(c.text)
                     THEN c.start ELSE c.start + (Size - Overlap),
           e.pc = IF c.start + Size >= Len(c.text) THEN "embedding" ELSE "chunking"
    PROVE  Loop(e)
<1> DEFINE W == Window(c.document, c.text, c.index, c.start)
<1>1. /\ Windows(e.chunks, e.document, e.text, e.index) /\ Overlapping(e.chunks)
      /\ Covered(e.chunks, W.to)
      /\ \A p \in e.chunks : p.index = c.index => p = W
  BY WindowsGrow
<1>2. /\ c.document \in Documents /\ c.text \in Texts /\ c.start < Len(c.text)
      /\ c.index \in Nat /\ c.start \in Nat
  BY DEF Loop, HasDocument, Coroutine
<1>3. W.to = IF c.start + Size <= Len(c.text) THEN c.start + Size ELSE Len(c.text)
  BY <1>2, WindowIsInside
<1>4. Len(c.text) \in Nat
  BY <1>2, TextsAssumption
<1> HIDE DEF W
<1>5. CASE c.start + Size >= Len(c.text)
  <2>1. W.to = Len(c.text)
    BY <1>2, <1>3, <1>4, <1>5, ChunkAssumption
  <2> QED
    BY <2>1, <1>1, <1>2, <1>5 DEF Loop, HasDocument
<1>6. CASE c.start + Size < Len(c.text)
  <2>1. W.to = c.start + Size
    BY <1>2, <1>3, <1>4, <1>6, ChunkAssumption
  <2>2. e.pc = "chunking" /\ e.start = c.start + (Size - Overlap)
    BY <1>2, <1>4, <1>6, ChunkAssumption
  <2>3. e.start + Overlap = W.to /\ e.start + Overlap < Len(e.text) /\ e.start < Len(e.text)
    BY <2>1, <2>2, <1>2, <1>4, <1>6, ChunkAssumption
  <2>4. e.index # 0 /\ e.index - 1 = c.index
    BY <1>2
  <2>5. \A p \in e.chunks : p.index = e.index - 1 => p.to = e.start + Overlap
    BY <2>3, <2>4, <1>1
  <2> QED
    BY <2>2, <2>3, <2>4, <2>5, <1>1, <1>2 DEF Loop, HasDocument
<1> QED
  BY <1>2, <1>4, <1>5, <1>6, ChunkAssumption

-----------------------------------------------------------------------------
(***************************************************************************)
(* The two stores.                                                         *)
(***************************************************************************)

\* A coroutine without a request.
LEMMA IdleIsSound == Idle \in Coroutine /\ Loop(Idle) /\ Idle.document = None
                     /\ Idle.hits = {} /\ Idle.pc \notin HasDocument
BY DEF Idle, Coroutine, Places, Loop, HasDocument

\* Nothing is stored at the start.
LEMMA InitInv == Init => KnowledgeInv
<1> SUFFICES ASSUME Init PROVE KnowledgeInv
  OBVIOUS
<1>1. KnowledgeTypeOK
  BY IdleIsSound DEF Init, KnowledgeTypeOK
<1>2. \A r \in Requests : Owns(r)
  BY IdleIsSound DEF Init, Owns
<1> QED
  BY <1>1, <1>2, IdleIsSound DEF Init, KnowledgeInv, RowsAreWhole, WindowsOverlap,
                                 PassagesHaveADocument

\* A step of one request before its upsert, or of a search: the stores stay as
\* they are, and the document is the one it had, a fresh one or none.
LEMMA LocalStep ==
    ASSUME KnowledgeInv, NEW r \in Requests, NEW c \in Coroutine, Loop(c),
           c.hits \subseteq passages,
           req[r].pc \notin {"upserting", "committing"},
           req' = [req EXCEPT ![r] = c], UNCHANGED <<rows, passages, abandoned>>,
           \/ c.pc \notin HasDocument /\ c.document = None
           \/ /\ c.pc \in HasDocument \ {"committing"} /\ c.document \in Documents
              /\ c.document = req[r].document \/ Fresh(c.document)
    PROVE  KnowledgeInv'
<1>1. \A s \in Requests : req'[s] = IF s = r THEN c ELSE req[s]
  BY DEF KnowledgeInv, KnowledgeTypeOK
<1>2. KnowledgeTypeOK'
  BY DEF KnowledgeInv, KnowledgeTypeOK
<1>3. ASSUME NEW s \in Requests PROVE Owns(s)'
  <2>1. c.document # None => c.document = req[r].document \/ Fresh(c.document)
    OBVIOUS
  <2>2. CASE s = r
    <3>1. req'[s] = c
      BY <1>1, <2>2
    <3>2. c.pc \in HasDocument <=> c.document # None
      BY NoneAssumption
    <3>3. ASSUME c.document # None
          PROVE  /\ rows[c.document] = None /\ c.document \notin abandoned
                 /\ PassagesOf(c.document) = {}
                 /\ \A t \in Requests \ {r} : req[t].document # c.document
      <4>1. CASE c.document = req[r].document
        BY <3>3, <4>1 DEF KnowledgeInv, Owns
      <4>2. CASE Fresh(c.document)
        BY <4>2 DEF Fresh
      <4> QED
        BY <2>1, <3>3, <4>1, <4>2
    <3>4. c.pc # "committing"
      BY DEF HasDocument
    <3> QED
      BY <1>1, <2>2, <3>1, <3>2, <3>3, <3>4 DEF Owns, PassagesOf
  <2>3. CASE s # r
    <3>1. req'[s] = req[s] /\ Owns(s)
      BY <1>1, <2>3 DEF KnowledgeInv
    <3>2. req[s].document # None => c.document # req[s].document
      BY <2>1, <2>3, <3>1 DEF Owns, Fresh
    <3> QED
      BY <1>1, <2>3, <3>1, <3>2 DEF Owns, PassagesOf
  <2> QED
    BY <2>2, <2>3
<1>4. Storing(Requests) \subseteq Storing(Requests)'
  BY <1>1 DEF Storing
<1>5. \A s \in Requests : Loop(req[s])' /\ (req[s].hits \subseteq passages)'
  <2> SUFFICES ASSUME NEW s \in Requests
               PROVE  Loop(req[s])' /\ (req[s].hits \subseteq passages)'
    OBVIOUS
  <2>1. req'[s] = c \/ req'[s] = req[s]
    BY <1>1
  <2>2. Loop(req'[s]) /\ req'[s].hits \subseteq passages
    BY <2>1 DEF KnowledgeInv
  <2> QED
    BY <2>2 DEF Loop
<1>6. RowsAreWhole' /\ WindowsOverlap'
  BY DEF KnowledgeInv, RowsAreWhole, WindowsOverlap, PassagesOf
<1>7. PassagesHaveADocument'
  BY <1>4 DEF KnowledgeInv, PassagesHaveADocument
<1> QED
  BY <1>2, <1>3, <1>5, <1>6, <1>7 DEF KnowledgeInv

\* What the upserts of some requests leave in the collection.  No row and no
\* other request has passages of their documents, so nothing is replaced.
LEMMA NewPassages ==
    ASSUME KnowledgeInv, NEW rs \in SUBSET Requests, \A r \in rs : req[r].pc = "upserting",
           passages' = passages \cup UNION {req[r].chunks : r \in rs}
    PROVE  /\ passages' \subseteq Passage
           /\ passages \subseteq passages'
           /\ \A r \in rs : {p \in passages' : p.document = req[r].document} = req[r].chunks
           /\ \A d \in Documents : (\A r \in rs : req[r].document # d) =>
                 PassagesOf(d)' = PassagesOf(d)
           /\ \A p \in passages' : p \in passages \/ p.document \in Storing(rs)
           /\ WindowsOverlap'
<1>1. ASSUME NEW r \in rs
      PROVE  /\ req[r].document \in Documents /\ req[r].document # None
             /\ req[r].chunks \subseteq Passage
             /\ \A p \in req[r].chunks : p.document = req[r].document
             /\ Overlapping(req[r].chunks)
             /\ PassagesOf(req[r].document) = {}
             /\ \A s \in rs \ {r} : req[s].document # req[r].document
  <2>1. req[r].pc = "upserting" /\ req[r] \in Coroutine /\ Loop(req[r]) /\ Owns(r)
    BY DEF KnowledgeInv, KnowledgeTypeOK
  <2>2. /\ req[r].document \in Documents /\ req[r].document # None
        /\ Windows(req[r].chunks, req[r].document, req[r].text, req[r].index)
        /\ Overlapping(req[r].chunks)
    BY <2>1, NoneAssumption DEF Loop, HasDocument
  <2> QED
    BY <2>1, <2>2 DEF Windows, Owns, Coroutine
<1>2. ASSUME NEW p \in passages'
      PROVE  p \in passages \/ \E r \in rs : p \in req[r].chunks /\ p.document = req[r].document
  BY <1>1
<1>3. ASSUME NEW r \in rs
      PROVE  {p \in passages' : p.document = req[r].document} = req[r].chunks
  <2>1. ASSUME NEW p \in passages', p.document = req[r].document PROVE p \in req[r].chunks
    <3>1. p \notin passages
      BY <2>1, <1>1 DEF PassagesOf
    <3>2. PICK s \in rs : p \in req[s].chunks /\ p.document = req[s].document
      BY <3>1, <1>2
    <3> QED
      BY <2>1, <3>2, <1>1
  <2>2. req[r].chunks \subseteq passages'
    OBVIOUS
  <2> QED
    BY <2>1, <2>2, <1>1
<1>4. ASSUME NEW d \in Documents, \A r \in rs : req[r].document # d
      PROVE  PassagesOf(d)' = PassagesOf(d)
  BY <1>2, <1>4 DEF PassagesOf
<1>5. passages' \subseteq Passage
  BY <1>1 DEF KnowledgeInv, KnowledgeTypeOK
<1>6. \A p \in passages' : p \in passages \/ p.document \in Storing(rs)
  BY <1>2 DEF Storing
<1>7. ASSUME NEW p \in passages', NEW q \in passages',
             p.document = q.document, q.index = p.index + 1
      PROVE  q.from = (p.to - Overlap) + 1 /\ q.to > p.to
  <2>1. CASE p \in passages /\ q \in passages
    BY <2>1, <1>7 DEF KnowledgeInv, WindowsOverlap
  <2>2. CASE \E r \in rs : p.document = req[r].document
    <3>1. PICK r \in rs : p.document = req[r].document
      BY <2>2
    <3>2. p \in req[r].chunks /\ q \in req[r].chunks
      BY <3>1, <1>3, <1>7
    <3> QED
      BY <3>2, <1>1, <1>7 DEF Overlapping
  <2> QED
    BY <2>1, <2>2, <1>2, <1>7
<1> QED
  BY <1>3, <1>4, <1>5, <1>6, <1>7 DEF WindowsOverlap

\* The upsert of one request: the ids of its chunks are new.
LEMMA UpsertAdds ==
    ASSUME KnowledgeInv, NEW r \in Requests, req[r].pc = "upserting"
    PROVE  WithChunks(req[r].chunks) = passages \cup UNION {req[s].chunks : s \in {r}}
<1>1. /\ PassagesOf(req[r].document) = {}
      /\ \A p \in req[r].chunks : p.document = req[r].document
  BY NoneAssumption DEF KnowledgeInv, Owns, Loop, HasDocument, Windows
<1>2. \A p \in passages : \A c \in req[r].chunks :
          <<p.document, p.index>> # <<c.document, c.index>>
  BY <1>1 DEF PassagesOf
<1> QED
  BY <1>2 DEF WithChunks

\* Rows that are stored keep their passages when passages of open transactions
\* are added.
LEMMA RowsKeepPassages ==
    ASSUME KnowledgeInv, NEW rs \in SUBSET Requests, \A r \in rs : req[r].pc = "upserting",
           passages' = passages \cup UNION {req[r].chunks : r \in rs}, rows' = rows
    PROVE  RowsAreWhole'
<1> SUFFICES ASSUME NEW d \in Documents, rows[d] # None
             PROVE  PassagesOf(d)' = PassagesOf(d)
  BY DEF KnowledgeInv, RowsAreWhole
<1>1. \A r \in rs : req[r].document # None /\ rows[req[r].document] = None
  BY DEF KnowledgeInv, Owns, HasDocument
<1> QED
  BY <1>1, NewPassages

\* The vectors are stored, and the COMMIT is still to come.
LEMMA UpsertStep ==
    ASSUME KnowledgeInv, NEW r \in Requests, Upsert(r)
    PROVE  KnowledgeInv'
<1> DEFINE old == req[r]
           c   == [old EXCEPT !.pc = "committing"]
<1>1. /\ old \in Coroutine /\ old.pc = "upserting" /\ Loop(old) /\ Owns(r)
      /\ passages' = passages \cup UNION {req[s].chunks : s \in {r}}
      /\ req' = [req EXCEPT ![r] = c] /\ UNCHANGED <<rows, abandoned>>
  BY UpsertAdds DEF Upsert, KnowledgeInv, KnowledgeTypeOK
<1>2. /\ c \in Coroutine /\ c.pc = "committing" /\ c.document = old.document
      /\ c.chunks = old.chunks /\ c.text = old.text /\ c.index = old.index /\ c.hits = old.hits
  BY <1>1 DEF Coroutine, Places
<1> HIDE DEF c
<1>3. \A s \in Requests : req'[s] = IF s = r THEN c ELSE req[s]
  BY <1>1 DEF KnowledgeInv, KnowledgeTypeOK
<1>4. /\ passages' \subseteq Passage /\ passages \subseteq passages'
      /\ {p \in passages' : p.document = old.document} = old.chunks
      /\ \A d \in Documents : d # old.document => PassagesOf(d)' = PassagesOf(d)
      /\ \A p \in passages' : p \in passages \/ p.document \in Storing({r})
      /\ WindowsOverlap'
  BY <1>1, NewPassages
<1>5. KnowledgeTypeOK'
  BY <1>1, <1>2, <1>4 DEF KnowledgeInv, KnowledgeTypeOK
<1>6. old.document \in Documents /\ old.document # None
  BY <1>1, NoneAssumption DEF Loop, HasDocument
<1>7. Loop(c)
  BY <1>1, <1>2 DEF Loop, HasDocument
<1>8. ASSUME NEW s \in Requests PROVE (Loop(req[s]) /\ Owns(s) /\ req[s].hits \subseteq passages)'
  <2>1. CASE s = r
    <3>1. Owns(r)'
      BY <1>1, <1>2, <1>3, <1>4, <1>6 DEF Owns, PassagesOf, HasDocument
    <3> QED
      BY <2>1, <3>1, <1>2, <1>3, <1>4, <1>7 DEF KnowledgeInv, Loop
  <2>2. CASE s # r
    <3>1. req'[s] = req[s] /\ Loop(req[s]) /\ Owns(s) /\ req[s].hits \subseteq passages
      BY <2>2, <1>3 DEF KnowledgeInv
    <3>2. req[s].pc \in HasDocument => req[s].document \in Documents
      BY <3>1 DEF Loop
    <3>3. req[s].document # None =>
             \A t \in Requests \ {s} : req'[t].document # req[s].document
      BY <2>2, <3>1, <1>2, <1>3 DEF Owns
    <3>4. req[s].document # None =>
             {p \in passages' : p.document = req[s].document} = PassagesOf(req[s].document)
      <4>1. req[s].document # None =>
               req[s].document \in Documents /\ req[s].document # old.document
        BY <2>2, <3>1, <3>2 DEF Owns
      <4>2. \A d \in Documents : d # old.document =>
               {p \in passages' : p.document = d} = PassagesOf(d)
        BY <1>4 DEF PassagesOf
      <4> QED
        BY <4>1, <4>2
    <3>5. Owns(s)'
      BY <3>1, <3>3, <3>4, <1>1 DEF Owns, PassagesOf
    <3> QED
      BY <3>1, <3>5, <1>4 DEF Loop
  <2> QED
    BY <2>1, <2>2
<1>9. PassagesHaveADocument'
  <2>1. Storing(Requests) \subseteq Storing(Requests)' /\ Storing({r}) \subseteq Storing(Requests)'
    BY <1>1, <1>2, <1>3 DEF Storing
  <2> QED
    BY <2>1, <1>1, <1>4 DEF KnowledgeInv, PassagesHaveADocument
<1>10. RowsAreWhole'
  <2>1. {r} \in SUBSET Requests /\ \A s \in {r} : req[s].pc = "upserting"
    BY <1>1
  <2> HIDE DEF old
  <2> QED
    BY <2>1, <1>1, RowsKeepPassages
<1> QED
  BY <1>4, <1>5, <1>8, <1>9, <1>10 DEF KnowledgeInv

\* The row is committed when the passages of its document are all there.
LEMMA CommitDocumentStep ==
    ASSUME KnowledgeInv, NEW r \in Requests, CommitDocument(r)
    PROVE  KnowledgeInv'
<1> DEFINE c   == req[r]
           d   == c.document
           row == [text |-> c.text, status |-> "INDEXED", embedding_count |-> c.index]
<1>1. /\ c \in Coroutine /\ c.pc = "committing" /\ Loop(c) /\ Owns(r)
      /\ rows' = [rows EXCEPT ![d] = row]
      /\ req' = [req EXCEPT ![r] = Idle] /\ UNCHANGED <<passages, abandoned>>
  BY DEF CommitDocument, KnowledgeInv, KnowledgeTypeOK
<1>2. /\ d \in Documents /\ d # None /\ c.text \in Texts /\ c.index \in Nat
      /\ Windows(c.chunks, d, c.text, c.index) /\ Covered(c.chunks, Len(c.text))
      /\ PassagesOf(d) = c.chunks
      /\ \A s \in Requests \ {r} : req[s].document # d
  BY <1>1, NoneAssumption DEF Loop, HasDocument, Owns, Coroutine
<1>3. row \in Row /\ row # None
  BY <1>2, RowAssumption DEF Row
<1>4. /\ \A s \in Requests : req'[s] = IF s = r THEN Idle ELSE req[s]
      /\ \A e \in Documents : rows'[e] = IF e = d THEN row ELSE rows[e]
  BY <1>1 DEF KnowledgeInv, KnowledgeTypeOK
<1>5. row.text = c.text /\ row.status = "INDEXED" /\ row.embedding_count = c.index
  OBVIOUS
<1> HIDE DEF row, c
<1>6. KnowledgeTypeOK'
  BY <1>1, <1>3, IdleIsSound DEF KnowledgeInv, KnowledgeTypeOK
<1>7. ASSUME NEW s \in Requests PROVE (Loop(req[s]) /\ Owns(s) /\ req[s].hits \subseteq passages)'
  <2>1. CASE s = r
    BY <2>1, <1>4, IdleIsSound DEF Loop, Owns
  <2>2. CASE s # r
    <3>1. /\ req'[s] = req[s] /\ Loop(req[s]) /\ Owns(s) /\ req[s].hits \subseteq passages
          /\ req[s].document # d
      BY <2>2, <1>2, <1>4 DEF KnowledgeInv
    <3>2. req[s].document # None =>
             /\ rows'[req[s].document] = None
             /\ \A t \in Requests \ {s} : req'[t].document # req[s].document
      <4>1. req[s].document # None => req[s].document \in Documents
        BY <3>1 DEF Loop, Owns
      <4> QED
        BY <4>1, <3>1, <1>4, IdleIsSound DEF Owns
    <3>3. Owns(s)'
      BY <3>1, <3>2, <1>1 DEF Owns, PassagesOf
    <3> QED
      BY <3>1, <3>3, <1>1 DEF Loop
  <2> QED
    BY <2>1, <2>2
<1>8. RowsAreWhole'
  <2> SUFFICES ASSUME NEW e \in Documents, rows'[e] # None
               PROVE  /\ rows'[e].status = "INDEXED"
                      /\ Windows(PassagesOf(e), e, rows'[e].text, rows'[e].embedding_count)
                      /\ Covered(PassagesOf(e), Len(rows'[e].text))
    BY <1>1 DEF RowsAreWhole, PassagesOf, Windows, Covered
  <2>1. CASE e = d
    BY <2>1, <1>2, <1>4, <1>5
  <2>2. CASE e # d
    BY <2>2, <1>4 DEF KnowledgeInv, RowsAreWhole
  <2> QED
    BY <2>1, <2>2
<1>9. PassagesHaveADocument'
  <2>1. \A e \in Storing(Requests) : e = d \/ e \in Storing(Requests)'
    BY <1>4 DEF Storing, c
  <2>2. \A p \in passages : p.document \in Documents
    BY DEF KnowledgeInv, KnowledgeTypeOK, Passage
  <2> QED
    BY <2>1, <2>2, <1>1, <1>3, <1>4 DEF KnowledgeInv, PassagesHaveADocument
<1>10. WindowsOverlap'
  BY <1>1 DEF KnowledgeInv, WindowsOverlap
<1> QED
  BY <1>6, <1>7, <1>8, <1>9, <1>10 DEF KnowledgeInv

\* Requests end without a COMMIT, and some of their upserts are carried out.
LEMMA Abandon ==
    ASSUME KnowledgeInv, NEW ended \in SUBSET Requests, NEW sent \in SUBSET ended,
           \A r \in sent : req[r].pc = "upserting",
           passages' = passages \cup UNION {req[r].chunks : r \in sent},
           abandoned' = abandoned \cup Storing(ended),
           req' = [r \in Requests |-> IF r \in ended THEN Idle ELSE req[r]],
           rows' = rows
    PROVE  KnowledgeInv'
<1>1. /\ passages' \subseteq Passage /\ passages \subseteq passages'
      /\ \A d \in Documents : (\A r \in sent : req[r].document # d) =>
            PassagesOf(d)' = PassagesOf(d)
      /\ \A p \in passages' : p \in passages \/ p.document \in Storing(sent)
      /\ WindowsOverlap'
  BY NewPassages
<1>2. \A s \in Requests : req'[s] = IF s \in ended THEN Idle ELSE req[s]
  OBVIOUS
<1>3. Storing(sent) \subseteq Storing(ended)
  BY DEF Storing
<1>4. Storing(ended) \subseteq Documents
  BY DEF Storing, KnowledgeInv, Loop, HasDocument
<1>5. KnowledgeTypeOK'
  BY <1>1, <1>4, IdleIsSound DEF KnowledgeInv, KnowledgeTypeOK
<1>6. ASSUME NEW s \in Requests PROVE (Loop(req[s]) /\ Owns(s) /\ req[s].hits \subseteq passages)'
  <2>1. CASE s \in ended
    BY <2>1, <1>2, IdleIsSound DEF Loop, Owns
  <2>2. CASE s \notin ended
    <3>1. req'[s] = req[s] /\ Loop(req[s]) /\ Owns(s) /\ req[s].hits \subseteq passages
      BY <2>2, <1>2 DEF KnowledgeInv
    <3>2. ASSUME req[s].document # None
          PROVE  /\ req[s].document \in Documents
                 /\ \A r \in ended : req[r].document # req[s].document
                 /\ \A t \in Requests \ {s} : req'[t].document # req[s].document
      BY <3>1, <3>2, <2>2, <1>2, IdleIsSound DEF Loop, Owns
    <3>3. ASSUME req[s].document # None
          PROVE  /\ {p \in passages' : p.document = req[s].document} =
                       PassagesOf(req[s].document)
                 /\ req[s].document \notin abandoned'
      <4>1. \A d \in Documents : (\A r \in sent : req[r].document # d) =>
               {p \in passages' : p.document = d} = PassagesOf(d)
        BY <1>1 DEF PassagesOf
      <4>2. {p \in passages' : p.document = req[s].document} = PassagesOf(req[s].document)
        BY <4>1, <3>2, <3>3
      <4>3. req[s].document \notin Storing(ended)
        BY <3>2, <3>3 DEF Storing
      <4> QED
        BY <4>2, <4>3, <3>1, <3>3 DEF Owns
    <3>4. Owns(s)'
      BY <3>1, <3>2, <3>3 DEF Owns, PassagesOf
    <3> QED
      BY <3>1, <3>4, <1>1 DEF Loop
  <2> QED
    BY <2>1, <2>2
<1>7. PassagesHaveADocument'
  <2>1. \A d \in Storing(Requests) : d \in Storing(ended) \/ d \in Storing(Requests)'
    BY <1>2 DEF Storing
  <2> QED
    BY <2>1, <1>1, <1>3 DEF KnowledgeInv, PassagesHaveADocument
<1>8. RowsAreWhole'
  BY RowsKeepPassages
<1> QED
  BY <1>1, <1>5, <1>6, <1>7, <1>8 DEF KnowledgeInv

\* An ingestion fails, after an upsert that was carried out or not.
LEMMA IngestFailsStep ==
    ASSUME KnowledgeInv, NEW r \in Requests, IngestFails(r)
    PROVE  KnowledgeInv'
<1>1. /\ abandoned' = abandoned \cup Storing({r}) /\ rows' = rows
      /\ req' = [s \in Requests |-> IF s \in {r} THEN Idle ELSE req[s]]
  BY DEF IngestFails, KnowledgeInv, KnowledgeTypeOK
<1>2. \/ passages' = passages
      \/ req[r].pc = "upserting" /\ passages' = WithChunks(req[r].chunks)
  BY DEF IngestFails
<1>3. CASE passages' = passages
  <2>1. passages' = passages \cup UNION {req[s].chunks : s \in {}}
    BY <1>3
  <2>2. {r} \in SUBSET Requests /\ {} \in SUBSET {r} /\ \A s \in {} : req[s].pc = "upserting"
    OBVIOUS
  <2> QED
    BY <2>1, <2>2, <1>1, Abandon
<1>4. CASE req[r].pc = "upserting" /\ passages' = WithChunks(req[r].chunks)
  <2>1. passages' = passages \cup UNION {req[s].chunks : s \in {r}}
    BY <1>4, UpsertAdds
  <2>2. /\ {r} \in SUBSET Requests /\ {r} \in SUBSET {r}
        /\ \A s \in {r} : req[s].pc = "upserting"
    BY <1>4
  <2> QED
    BY <2>1, <2>2, <1>1, Abandon
<1> QED
  BY <1>2, <1>3, <1>4

\* All requests end at once.
LEMMA RestartStep ==
    ASSUME KnowledgeInv, NEW rs \in SUBSET {r \in Requests : req[r].pc = "upserting"}, Restart(rs)
    PROVE  KnowledgeInv'
<1>1. /\ rs \in SUBSET Requests /\ \A r \in rs : req[r].pc = "upserting"
      /\ passages' = passages \cup UNION {req[r].chunks : r \in rs}
      /\ abandoned' = abandoned \cup Storing(Requests) /\ rows' = rows
      /\ req' = [r \in Requests |-> IF r \in Requests THEN Idle ELSE req[r]]
  BY DEF Restart
<1> QED
  BY <1>1, Abandon

\* The steps of a request other than the upsert, the COMMIT and a failure.
LEMMA QuietSteps ==
    ASSUME KnowledgeInv, NEW r \in Requests,
           \/ \E file \in Texts \cup {Unreadable} : Ingest(r, file)
           \/ RefuseText(r) \/ (\E d \in Documents : InsertDocument(r, d))
           \/ Chunk(r) \/ Embed(r)
           \/ \E hits \in SUBSET passages : Search(r, hits)
           \/ EndSearch(r)
    PROVE  KnowledgeInv'
<1> DEFINE old == req[r]
<1>1. old \in Coroutine /\ Loop(old) /\ Owns(r) /\ old.hits \subseteq passages
  BY DEF KnowledgeInv, KnowledgeTypeOK
<1>2. ASSUME NEW c \in Coroutine, c.pc \in {"idle", "extracting", "citing"}, c.document = None,
             c.pc = "extracting" => Loop(c), c.hits \subseteq passages, old.pc \in {"idle", "extracting", "citing"},
             req' = [req EXCEPT ![r] = c], UNCHANGED <<rows, passages, abandoned>>
      PROVE  KnowledgeInv'
  <2>1. Loop(c) /\ c.pc \notin HasDocument
    BY <1>2 DEF Loop, HasDocument
  <2> QED
    BY <2>1, <1>2, LocalStep
<1>3. ASSUME NEW file \in Texts \cup {Unreadable}, Ingest(r, file) PROVE KnowledgeInv'
  <2> DEFINE c == [Idle EXCEPT !.pc = "extracting", !.text = file]
  <2>1. /\ c \in Coroutine /\ c.pc = "extracting" /\ c.document = None /\ c.hits = {}
        /\ c.text = file /\ c.start = 0 /\ c.index = 0 /\ c.chunks = {}
    BY DEF Idle, Coroutine, Places
  <2>2. /\ old.pc = "idle" /\ req' = [req EXCEPT ![r] = c]
        /\ UNCHANGED <<rows, passages, abandoned>>
    BY <1>3 DEF Ingest
  <2> HIDE DEF c
  <2>3. Loop(c)
    BY <2>1, NoneAssumption DEF Loop, HasDocument
  <2> QED
    BY <2>1, <2>2, <2>3, <1>2
<1>4. CASE RefuseText(r) \/ EndSearch(r)
  <2>1. /\ old.pc \in {"extracting", "citing"} /\ req' = [req EXCEPT ![r] = Idle]
        /\ UNCHANGED <<rows, passages, abandoned>>
    BY <1>4 DEF RefuseText, EndSearch
  <2>2. Idle.pc = "idle"
    BY DEF Idle
  <2> QED
    BY <2>1, <2>2, <1>2, IdleIsSound
<1>5. ASSUME NEW hits \in SUBSET passages, Search(r, hits) PROVE KnowledgeInv'
  <2> DEFINE c == [Idle EXCEPT !.pc = "citing", !.hits = hits]
  <2>1. hits \subseteq Passage
    BY DEF KnowledgeInv, KnowledgeTypeOK
  <2>2. c \in Coroutine /\ c.pc = "citing" /\ c.document = None /\ c.hits = hits
    BY <2>1 DEF Idle, Coroutine, Places
  <2>3. /\ old.pc = "idle" /\ req' = [req EXCEPT ![r] = c]
        /\ UNCHANGED <<rows, passages, abandoned>>
    BY <1>5 DEF Search
  <2> QED
    BY <2>2, <2>3, <1>2
<1>6. ASSUME NEW d \in Documents, InsertDocument(r, d) PROVE KnowledgeInv'
  <2> DEFINE c == [[old EXCEPT !.pc = "chunking"] EXCEPT !.document = d]
  <2>1. /\ old.pc = "extracting" /\ old.text \notin {Unreadable, <<>>} /\ Fresh(d)
        /\ req' = [req EXCEPT ![r] = c] /\ UNCHANGED <<rows, passages, abandoned>>
    BY <1>1, <1>6 DEF InsertDocument, Coroutine
  <2>2. /\ c \in Coroutine /\ c.pc = "chunking" /\ c.document = d /\ c.text = old.text
        /\ c.hits = old.hits /\ c.chunks = old.chunks /\ c.index = old.index
        /\ c.start = old.start
    BY <1>1 DEF Coroutine, Places
  <2> HIDE DEF c
  <2>3. /\ c.text \in Texts /\ c.start = 0 /\ c.index = 0 /\ c.chunks = {}
        /\ Len(c.text) \in Nat /\ Len(c.text) > 0
    <3>1. c.text \in Texts /\ c.text # <<>> /\ c.start = 0 /\ c.index = 0 /\ c.chunks = {}
      BY <1>1, <2>1, <2>2 DEF Loop, Coroutine
    <3> QED
      BY <3>1, TextsAssumption
  <2>4. Loop(c)
    <3>1. Windows({}, d, c.text, 0) /\ Overlapping({})
      BY DEF Windows, Overlapping
    <3> QED
      BY <2>2, <2>3, <3>1 DEF Loop, HasDocument
  <2>5. c.pc \in HasDocument \ {"committing"}
    BY <2>2 DEF HasDocument
  <2> QED
    BY <1>1, <2>1, <2>2, <2>4, <2>5, LocalStep
<1>7. CASE Chunk(r)
  <2> DEFINE W == Window(old.document, old.text, old.index, old.start)
             done == old.start + Size >= Len(old.text)
             next == IF done THEN old.start ELSE old.start + (Size - Overlap)
             place == IF done THEN "embedding" ELSE "chunking"
             more == old.chunks \cup {W}
             count == old.index + 1
             c == [old EXCEPT !.chunks = more, !.index = count, !.start = next, !.pc = place]
  <2>1. /\ old.pc = "chunking" /\ req' = [req EXCEPT ![r] = c]
        /\ UNCHANGED <<rows, passages, abandoned>>
    BY <1>7 DEF Chunk
  <2>2. /\ old.document \in Documents /\ old.text \in Texts /\ old.index \in Nat
        /\ old.start \in Nat /\ old.start < Len(old.text) /\ old.chunks \subseteq Passage
    BY <1>1, <2>1 DEF Loop, HasDocument, Coroutine
  <2>3. W \in Passage /\ next \in Nat /\ place \in {"chunking", "embedding"}
    BY <2>2, WindowIsInside, ChunkAssumption
  <2> HIDE DEF W, next, place
  <2>4. more \in SUBSET Passage /\ count \in Nat
    BY <2>2, <2>3
  <2> HIDE DEF more, count
  <2>5. c \in Coroutine
    BY <1>1, <2>3, <2>4 DEF Coroutine, Places
  <2>6. /\ c.document = old.document /\ c.text = old.text /\ c.hits = old.hits
        /\ c.chunks = old.chunks \cup {W} /\ c.index = old.index + 1
        /\ c.start = next /\ c.pc = place
    BY <1>1 DEF Coroutine, more, count
  <2> HIDE DEF c
  <2>7. Loop(c)
    <3>1. c.start = IF old.start + Size >= Len(old.text)
                    THEN old.start ELSE old.start + (Size - Overlap)
      BY <2>6 DEF next
    <3>2. c.pc = IF old.start + Size >= Len(old.text) THEN "embedding" ELSE "chunking"
      BY <2>6 DEF place
    <3>3. c.chunks = old.chunks \cup {Window(old.document, old.text, old.index, old.start)}
      BY <2>6 DEF W
    <3> HIDE DEF old
    <3> QED
      BY <1>1, <2>1, <2>5, <2>6, <3>1, <3>2, <3>3, LoopStep
  <2>8. c.pc \in HasDocument \ {"committing"}
    BY <2>3, <2>6 DEF HasDocument
  <2> QED
    BY <1>1, <2>1, <2>2, <2>5, <2>6, <2>7, <2>8, LocalStep
<1>8. CASE Embed(r)
  <2> DEFINE c == [old EXCEPT !.pc = "upserting"]
  <2>1. /\ old.pc = "embedding" /\ req' = [req EXCEPT ![r] = c]
        /\ UNCHANGED <<rows, passages, abandoned>>
    BY <1>8 DEF Embed
  <2>2. /\ c \in Coroutine /\ c.pc = "upserting" /\ c.document = old.document
        /\ c.text = old.text /\ c.hits = old.hits /\ c.chunks = old.chunks
        /\ c.index = old.index
    BY <1>1 DEF Coroutine, Places
  <2> HIDE DEF c
  <2>3. Loop(c) /\ c.document \in Documents /\ c.pc \in HasDocument \ {"committing"}
    BY <1>1, <2>1, <2>2 DEF Loop, HasDocument
  <2> QED
    BY <1>1, <2>1, <2>2, <2>3, LocalStep
<1> QED
  BY <1>3, <1>4, <1>5, <1>6, <1>7, <1>8

\* The invariant holds in every reachable state.
THEOREM KnowledgeInvariance == Spec => []KnowledgeInv
<1>1. Init => KnowledgeInv
  BY InitInv
<1>2. KnowledgeInv /\ [Next]_vars => KnowledgeInv'
  <2> SUFFICES ASSUME KnowledgeInv, [Next]_vars PROVE KnowledgeInv'
    OBVIOUS
  <2>1. ASSUME NEW r \in Requests,
               \/ \E file \in Texts \cup {Unreadable} : Ingest(r, file)
               \/ Ingestion(r)
               \/ \E hits \in SUBSET passages : Search(r, hits)
               \/ EndSearch(r)
        PROVE  KnowledgeInv'
    BY <2>1, QuietSteps, UpsertStep, CommitDocumentStep, IngestFailsStep DEF Ingestion
  <2>2. ASSUME NEW rs \in SUBSET {r \in Requests : req[r].pc = "upserting"}, Restart(rs)
        PROVE  KnowledgeInv'
    BY <2>2, RestartStep
  <2>3. CASE UNCHANGED vars
    <3> USE <2>3 DEF vars
    <3>1. \A r \in Requests : Owns(r)' /\ Loop(req[r])' /\ (req[r].hits \subseteq passages)'
      BY DEF KnowledgeInv, Owns, Loop, PassagesOf
    <3>2. KnowledgeTypeOK' /\ RowsAreWhole' /\ WindowsOverlap' /\ PassagesHaveADocument'
      BY DEF KnowledgeInv, KnowledgeTypeOK, RowsAreWhole, WindowsOverlap, PassagesOf,
             PassagesHaveADocument, Storing
    <3> QED
      BY <3>1, <3>2 DEF KnowledgeInv
  <2> QED
    BY <2>1, <2>2, <2>3 DEF Next
<1> QED
  BY <1>1, <1>2, PTL DEF Spec

\* Rows, vectors and local variables keep their types.
THEOREM KnowledgeTypeCorrectness == Spec => []KnowledgeTypeOK
<1>1. KnowledgeInv => KnowledgeTypeOK
  BY DEF KnowledgeInv
<1> QED
  BY <1>1, KnowledgeInvariance, PTL

\* Words of a passage stand on its pages, because pages do not decrease.
LEMMA WordsOnTheirPages ==
    ASSUME NEW S \in SUBSET Passage, NEW d \in Documents, NEW text \in Texts, NEW n \in Nat,
           Windows(S, d, text, n), NEW w \in 1 .. Len(text), NEW p \in S,
           p.from <= w, w <= p.to
    PROVE  Cites(p, text, w)
<1>1. /\ p.from \in Nat /\ p.to \in Nat /\ 1 <= p.from /\ p.to <= Len(text)
      /\ p.page_start = text[p.from] /\ p.page_end = text[p.to]
  BY DEF Windows, Passage
<1>2. Len(text) \in Nat /\ w \in Nat
  BY TextsAssumption
<1>3. p.from \in 1 .. Len(text) /\ p.to \in 1 .. Len(text)
  BY <1>1, <1>2
<1> QED
  BY <1>1, <1>3, TextsAssumption DEF Cites

\* A document in the database is found in its entirety: every word of any text
\* stands in a window, for any size and overlap of the windows, and whatever
\* fails, no row is committed before its vectors are stored.
THEOREM IngestionSafety == Spec => [](IndexedIsWhole /\ WindowsOverlap)
<1>1. KnowledgeInv => IndexedIsWhole
  <2> SUFFICES ASSUME KnowledgeInv, NEW d \in Documents, rows[d] # None
               PROVE  /\ rows[d].status = "INDEXED"
                      /\ \A k \in 0 .. rows[d].embedding_count - 1 :
                            \E p \in PassagesOf(d) : p.index = k
                      /\ \A p, q \in PassagesOf(d) : p.index = q.index => p = q
                      /\ \A p \in PassagesOf(d) : p.index < rows[d].embedding_count
                      /\ \A w \in 1 .. Len(rows[d].text) :
                            \E p \in PassagesOf(d) : Cites(p, rows[d].text, w)
    BY DEF IndexedIsWhole
  <2>1. /\ rows[d].status = "INDEXED"
        /\ Windows(PassagesOf(d), d, rows[d].text, rows[d].embedding_count)
        /\ Covered(PassagesOf(d), Len(rows[d].text))
    BY DEF KnowledgeInv, RowsAreWhole
  <2>2. /\ rows[d].text \in Texts /\ rows[d].embedding_count \in Nat
        /\ PassagesOf(d) \in SUBSET Passage
    BY DEF KnowledgeInv, KnowledgeTypeOK, Row, PassagesOf
  <2>3. \A w \in 1 .. Len(rows[d].text) : \E p \in PassagesOf(d) : Cites(p, rows[d].text, w)
    BY <2>1, <2>2, WordsOnTheirPages DEF Covered
  <2> QED
    BY <2>1, <2>3 DEF Windows
<1>2. KnowledgeInv => WindowsOverlap
  BY DEF KnowledgeInv
<1> QED
  BY <1>1, <1>2, KnowledgeInvariance, PTL

\* What a search returns stays in the collection and has a document, listed,
\* about to be, or given up after its vectors were sent.
THEOREM SearchSafety == Spec => []HitsHaveADocument
<1>1. KnowledgeInv => HitsHaveADocument
  BY DEF KnowledgeInv, HitsHaveADocument, PassagesHaveADocument
<1> QED
  BY <1>1, KnowledgeInvariance, PTL
=============================================================================
