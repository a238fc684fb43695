------------------------------- MODULE GuiProofs -------------------------------
(* Proofs about the front end.  About GuiChanges, for any finite set of      *)
(* paths and any contents; about GuiRuns, for any number of runs, bridge     *)
(* operations, pages and listings, whatever the size of a page; about        *)
(* GuiPanels, for any projects, worktrees and scheduling domains and any     *)
(* number of requests and workers.                                           *)
EXTENDS GuiChanges, GuiRuns, GuiPanels, FunctionTheorems, FiniteSetTheorems, TLAPS

-----------------------------------------------------------------------------
\* The Changes view: the inductive invariant

\* A row of a poll, and a job of the mutation worker.
IsRow(r) == \E p \in Path : \E staged, unstaged, stamp, snap, at :
    r = [path |-> p, staged |-> staged, unstaged |-> unstaged, stamp |-> stamp, snap |-> snap,
         at |-> at]
IsWrite(w) == \E kind, path, op, snap, saw, met, calm, at :
    w = [kind |-> kind, path |-> path, op |-> op, snap |-> snap, saw |-> saw, met |-> met,
         calm |-> calm, at |-> at]
IsRead(r) == \E p \in Path : \E kind, id, snap, at :
    r = [kind |-> kind, path |-> p, id |-> id, snap |-> snap, at |-> at]

\* A token is minted once: it names one row, and none that is still to come.
TokensMinted ==
    /\ minted \in Nat
    /\ \A p \in Path : tokens[p] # Nothing => tokens[p].tok \in Nat /\ tokens[p].tok <= minted
    /\ \A p, q \in Path :
         tokens[p] # Nothing /\ tokens[q] # Nothing /\ tokens[p].tok = tokens[q].tok => p = q

\* While a prompt opened on a row is open, its token stands for what was shown.
PromptKept ==
    prompt # Nothing /\ prompt.kind = "path" =>
      /\ prompt.id \in Nat /\ prompt.id <= minted
      /\ \A p \in Path : tokens[p] # Nothing /\ tokens[p].tok = prompt.id =>
           tokens[p].snap = prompt.saw

\* A discard carries what was shown.  As long as nothing changed the file, what
\* the worker met is what is there, and once compared it is the snapshot.
Discards ==
    /\ write.kind = "path" => write.snap = write.saw
    /\ write.at \in {"open", "verify", "require", "act"} => write.path \in Path
    /\ write.calm /\ write.at = "verify" => write.met = snapshot(write.path)
    /\ write.calm /\ write.at \in {"require", "act"} => write.snap = snapshot(write.path)
    /\ write.calm /\ write.at = "thrown" => write.met = write.snap

WriteTrue == write # Nothing => IsWrite(write) /\ Discards

\* What the review has on screen, or is reading, is a file of the project.
ReviewOfPaths ==
    /\ loaded # Nothing => loaded.path \in Path
    /\ read # Nothing => IsRead(read)

ChangesInv ==
    /\ DOMAIN file = Path
    /\ TokensMinted /\ PromptKept /\ WriteTrue /\ ReviewOfPaths
    /\ poll # Nothing => \A r \in poll : IsRow(r)

-----------------------------------------------------------------------------
\* The tokens of a poll

\* A finite set can be numbered.
LEMMA Numbered ==
    ASSUME NEW S, IsFiniteSet(S)
    PROVE  /\ Cardinality(S) \in Nat
           /\ \E f \in [S -> 1 .. Cardinality(S)] : \A p, q \in S : p # q => f[p] # f[q]
<1>1. Cardinality(S) \in Nat /\ ExistsBijection(1 .. Cardinality(S), S)
  BY FS_CardinalityType
<1>2. ExistsBijection(S, 1 .. Cardinality(S))
  BY <1>1, Fun_ExistsBijSymmetric
<1>3. PICK f : f \in Bijection(S, 1 .. Cardinality(S))
  BY <1>2 DEF ExistsBijection
<1>4. f \in [S -> 1 .. Cardinality(S)] /\ \A p, q \in S : f[p] = f[q] => p = q
  BY <1>3 DEF Bijection, Injection, IsInjective
<1>5. QED
  BY <1>1, <1>4

\* A row keeps its token only with its snapshot, and a token that is new is
\* one that nobody has seen.
LEMMA Replaced ==
    ASSUME TokensMinted, NEW rows, \A r \in rows : IsRow(r), replace_status_path_selections(rows)
    PROVE  /\ TokensMinted' /\ minted' >= minted
           /\ \A p \in Path : tokens'[p] # Nothing =>
                \/ tokens'[p].tok > minted
                \/ tokens[p] # Nothing /\ tokens'[p].tok = tokens[p].tok
                     /\ tokens'[p].snap = tokens[p].snap
<1> DEFINE fresh == {r.path : r \in {q \in rows : ~KeepsToken(q)}}
           number == CHOOSE f \in [fresh -> 1 .. Cardinality(fresh)] :
                       \A p, q \in fresh : p # q => f[p] # f[q]
           Told(p) == [tok |-> IF p \in fresh THEN minted + number[p] ELSE tokens[p].tok,
                       op |-> status_discard_description(RowOf(rows, p)),
                       snap |-> RowOf(rows, p).snap]
<1>1. \A r \in rows : r.path \in Path
  BY DEF IsRow
<1>2. fresh \subseteq Path /\ IsFiniteSet(fresh)
  <2>1. fresh \subseteq Path
    BY <1>1
  <2>2. QED
    BY <2>1, FS_Subset, ChangesAssumption
<1>3. /\ Cardinality(fresh) \in Nat /\ number \in [fresh -> 1 .. Cardinality(fresh)]
      /\ \A p, q \in fresh : p # q => number[p] # number[q]
  <2> HIDE DEF fresh
  <2>1. /\ Cardinality(fresh) \in Nat
        /\ \E f \in [fresh -> 1 .. Cardinality(fresh)] : \A p, q \in fresh : p # q => f[p] # f[q]
    BY <1>2, Numbered
  <2>2. QED
    BY <2>1
<1>4. /\ minted' = minted + Cardinality(fresh)
      /\ tokens' = [p \in Path |-> IF \A r \in rows : r.path # p THEN Nothing ELSE Told(p)]
  BY DEF replace_status_path_selections
<1>5. ASSUME NEW p \in Path, tokens'[p] # Nothing, p \notin fresh
      PROVE  /\ tokens[p] # Nothing /\ tokens'[p].tok = tokens[p].tok
             /\ tokens'[p].snap = tokens[p].snap
  <2>1. tokens'[p] = Told(p) /\ \E r \in rows : r.path = p
    BY <1>4, <1>5
  <2>2. RowOf(rows, p) \in rows /\ RowOf(rows, p).path = p
    BY <2>1 DEF RowOf
  <2>3. KeepsToken(RowOf(rows, p))
    BY <1>5, <2>2
  <2>4. tokens[p] # Nothing /\ tokens[p].snap = RowOf(rows, p).snap
    BY <2>2, <2>3 DEF KeepsToken
  <2>5. tokens'[p].tok = tokens[p].tok /\ tokens'[p].snap = RowOf(rows, p).snap
    BY <1>5, <2>1
  <2>6. QED
    BY <2>4, <2>5
<1>6. ASSUME NEW p \in Path, tokens'[p] # Nothing, p \in fresh
      PROVE  tokens'[p].tok = minted + number[p]
  BY <1>4, <1>6
<1> HIDE DEF fresh, number
<1>7. minted \in Nat /\ minted' \in Nat /\ minted' >= minted
  BY <1>3, <1>4 DEF TokensMinted
<1>8. ASSUME NEW p \in Path, tokens'[p] # Nothing
      PROVE  tokens'[p].tok \in Nat /\ tokens'[p].tok <= minted'
  <2>1. CASE p \in fresh
    <3>1. number[p] \in 1 .. Cardinality(fresh)
      BY <1>3, <2>1
    <3>2. QED
      BY <1>3, <1>4, <1>6, <1>7, <1>8, <2>1, <3>1
  <2>2. CASE p \notin fresh
    BY <1>5, <1>7, <1>8, <2>2 DEF TokensMinted
  <2>3. QED
    BY <2>1, <2>2
<1>9. ASSUME NEW p \in Path, NEW q \in Path, tokens'[p] # Nothing, tokens'[q] # Nothing,
             tokens'[p].tok = tokens'[q].tok
      PROVE  p = q
  <2>1. CASE p \in fresh /\ q \in fresh
    <3>1. /\ tokens'[p].tok = minted + number[p] /\ tokens'[q].tok = minted + number[q]
          /\ number[p] \in Nat /\ number[q] \in Nat
      BY <1>3, <1>6, <1>9, <2>1
    <3>2. number[p] = number[q]
      <4>1. PICK a \in Nat, b \in Nat : a = number[p] /\ b = number[q]
        BY <3>1
      <4>2. minted + a = minted + b
        BY <1>9, <3>1, <4>1
      <4>3. a = b
        BY ONLY <1>7, <4>2, a \in Nat, b \in Nat
      <4>4. QED
        BY <4>1, <4>3
    <3>3. QED
      BY <1>3, <2>1, <3>2
  <2>2. CASE p \in fresh /\ q \notin fresh
    <3>1. number[p] \in Nat /\ number[p] >= 1
      BY <1>3, <2>2
    <3>2. tokens'[q].tok \in Nat /\ tokens'[q].tok <= minted
      BY <1>5, <1>9, <2>2 DEF TokensMinted
    <3>3. QED
      BY <1>6, <1>7, <1>9, <2>2, <3>1, <3>2
  <2>3. CASE p \notin fresh /\ q \in fresh
    <3>1. number[q] \in Nat /\ number[q] >= 1
      BY <1>3, <2>3
    <3>2. tokens'[p].tok \in Nat /\ tokens'[p].tok <= minted
      BY <1>5, <1>9, <2>3 DEF TokensMinted
    <3>3. QED
      BY <1>6, <1>7, <1>9, <2>3, <3>1, <3>2
  <2>4. CASE p \notin fresh /\ q \notin fresh
    BY <1>5, <1>9, <2>4 DEF TokensMinted
  <2>5. QED
    BY <2>1, <2>2, <2>3, <2>4
<1>10. ASSUME NEW p \in Path, tokens'[p] # Nothing
       PROVE  \/ tokens'[p].tok > minted
              \/ tokens[p] # Nothing /\ tokens'[p].tok = tokens[p].tok
                   /\ tokens'[p].snap = tokens[p].snap
  <2>1. CASE p \in fresh
    <3>1. number[p] \in Nat /\ number[p] >= 1
      BY <1>3, <2>1
    <3>2. QED
      BY <1>6, <1>7, <1>10, <2>1, <3>1
  <2>2. QED
    BY <1>5, <1>10, <2>1
<1>11. TokensMinted'
  BY <1>7, <1>8, <1>9 DEF TokensMinted
<1>12. QED
  BY <1>7, <1>10, <1>11

\* So a prompt keeps to what it was opened on.
LEMMA PromptStays ==
    ASSUME TokensMinted, PromptKept, UNCHANGED prompt, NEW rows, \A r \in rows : IsRow(r),
           replace_status_path_selections(rows)
    PROVE  TokensMinted' /\ PromptKept'
<1>1. /\ TokensMinted' /\ minted' >= minted
      /\ \A p \in Path : tokens'[p] # Nothing =>
           \/ tokens'[p].tok > minted
           \/ tokens[p] # Nothing /\ tokens'[p].tok = tokens[p].tok
                /\ tokens'[p].snap = tokens[p].snap
  BY Replaced
<1>2. ASSUME prompt # Nothing, prompt.kind = "path"
      PROVE  /\ prompt.id \in Nat /\ prompt.id <= minted'
             /\ \A p \in Path : tokens'[p] # Nothing /\ tokens'[p].tok = prompt.id =>
                  tokens'[p].snap = prompt.saw
  <2>1. /\ prompt.id \in Nat /\ prompt.id <= minted /\ minted \in Nat /\ minted' \in Nat
        /\ \A p \in Path : tokens[p] # Nothing /\ tokens[p].tok = prompt.id =>
             tokens[p].snap = prompt.saw
    BY <1>1, <1>2 DEF PromptKept, TokensMinted
  <2>2. \A p \in Path : tokens'[p] # Nothing => tokens'[p].tok \in Nat
    BY <1>1 DEF TokensMinted
  <2>3. QED
    BY <1>1, <2>1, <2>2
<1>3. QED
  BY <1>1, <1>2 DEF PromptKept

LEMMA NoneLeft ==
    ASSUME TokensMinted, PromptKept, UNCHANGED prompt, clear_git_state
    PROVE  TokensMinted' /\ PromptKept'
  BY DEF TokensMinted, PromptKept, clear_git_state

-----------------------------------------------------------------------------
\* The Changes view: the steps

\* A step that leaves the files, the tokens, the prompt and the jobs alone.
LEMMA ChangesCalm ==
    ASSUME ChangesInv, UNCHANGED <<file, tokens, minted, prompt, write>>, ReviewOfPaths',
           poll' # Nothing => \A r \in poll' : IsRow(r)
    PROVE  ChangesInv'
  BY DEF ChangesInv, TokensMinted, PromptKept, WriteTrue, Discards, snapshot

LEMMA ReviewStays ==
    ASSUME ChangesInv, UNCHANGED <<loaded, read>>
    PROVE  ReviewOfPaths'
  BY DEF ChangesInv, ReviewOfPaths

LEMMA WriteStays ==
    ASSUME ChangesInv, UNCHANGED <<file, write>>
    PROVE  DOMAIN file' = Path /\ WriteTrue'
  BY DEF ChangesInv, WriteTrue, Discards, snapshot

\* A row that is read on is still a row.
LEMMA RowReadOn ==
    ASSUME NEW r, IsRow(r), NEW at, NEW snap, NEW stamp
    PROVE  /\ IsRow([r EXCEPT !.at = at, !.snap = snap])
           /\ IsRow([r EXCEPT !.at = at, !.stamp = stamp])
<1>1. PICK p, staged, unstaged, stamp0, snap0, at0 :
        /\ p \in Path
        /\ r = [path |-> p, staged |-> staged, unstaged |-> unstaged, stamp |-> stamp0,
                snap |-> snap0, at |-> at0]
  BY DEF IsRow
<1>2. PICK n, m : /\ n = [r EXCEPT !.at = at, !.snap = snap]
                /\ m = [r EXCEPT !.at = at, !.stamp = stamp]
  OBVIOUS
<1>3. n = [path |-> p, staged |-> staged, unstaged |-> unstaged, stamp |-> stamp0,
           snap |-> snap, at |-> at]
  BY <1>1, <1>2
<1>4. m = [path |-> p, staged |-> staged, unstaged |-> unstaged, stamp |-> stamp,
           snap |-> snap0, at |-> at]
  BY <1>1, <1>2
<1>5. IsRow(n) /\ IsRow(m)
  BY <1>1, <1>3, <1>4 DEF IsRow
<1>6. QED
  BY <1>2, <1>5

LEMMA StatusRowsAreRows == \A r \in StatusRows : IsRow(r)
  BY DEF StatusRows, StatusRow, IsRow

LEMMA refresh_changes_step ==
    ASSUME ChangesInv, refresh_changes
    PROVE  ChangesInv'
  BY StatusRowsAreRows, ChangesCalm, ReviewStays DEF refresh_changes, shell

LEMMA WriteStatus_step ==
    ASSUME ChangesInv, WriteStatus
    PROVE  ChangesInv'
  BY StatusRowsAreRows, ChangesCalm, ReviewStays DEF WriteStatus, shell

LEMMA Fingerprint_step ==
    ASSUME ChangesInv, poll # Nothing, NEW r \in poll, Fingerprint(r)
    PROVE  ChangesInv'
<1>1. PICK n : poll' = (poll \ {r}) \cup {n} /\ IsRow(n)
  <2>1. IsRow(r)
    BY DEF ChangesInv
  <2>2. PICK n : /\ poll' = (poll \ {r}) \cup {n}
                 /\ \/ n = [r EXCEPT !.at = "done", !.snap = cache[r.path].snap]
                    \/ n = [r EXCEPT !.at = "stamped", !.stamp = file[r.path].stamp]
    BY Zenon DEF Fingerprint
  <2>3. QED
    BY <2>1, <2>2, RowReadOn
<1>2. \A q \in poll' : IsRow(q)
  BY <1>1 DEF ChangesInv
<1>3. UNCHANGED <<file, tokens, minted, prompt, write, loaded, read>>
  BY DEF Fingerprint, shell
<1>4. QED
  BY <1>2, <1>3, ChangesCalm, ReviewStays

LEMMA Capture_step ==
    ASSUME ChangesInv, poll # Nothing, NEW r \in poll, Capture(r)
    PROVE  ChangesInv'
<1>1. PICK snap : poll' = (poll \ {r}) \cup {[r EXCEPT !.at = "done", !.snap = snap]}
  BY DEF Capture
<1>2. \A q \in poll' : IsRow(q)
  <2>1. IsRow(r)
    BY DEF ChangesInv
  <2>2. IsRow([r EXCEPT !.at = "done", !.snap = snap])
    BY <2>1, RowReadOn
  <2>3. QED
    BY <1>1, <2>2 DEF ChangesInv
<1>3. UNCHANGED <<file, tokens, minted, prompt, write, loaded, read>>
  BY DEF Capture, shell
<1>4. QED
  BY <1>2, <1>3, ChangesCalm, ReviewStays

LEMMA PollDone_step ==
    ASSUME ChangesInv, PollDone
    PROVE  ChangesInv'
<1>1. TokensMinted' /\ PromptKept'
  BY PromptStays DEF PollDone, ChangesInv
<1>2. poll' = Nothing /\ UNCHANGED <<file, write, loaded, read>>
  BY DEF PollDone
<1>3. QED
  BY <1>1, <1>2, WriteStays, ReviewStays DEF ChangesInv

LEMMA WriteDone_step ==
    ASSUME ChangesInv, WriteDone
    PROVE  ChangesInv'
<1>1. TokensMinted' /\ PromptKept'
  BY PromptStays DEF WriteDone, ChangesInv
<1>2. poll' = Nothing /\ write' = Nothing /\ UNCHANGED file
  BY DEF WriteDone
<1>3. ReviewOfPaths'
  <2>1. CASE UNCHANGED <<loaded, read>>
    BY <2>1, ReviewStays
  <2>2. CASE loaded # Nothing /\ ReadReview(loaded.path)
    <3>1. /\ loaded.path \in Path /\ loaded' = Nothing
          /\ read' = [kind |-> "review", path |-> loaded.path, id |-> request + 1,
                      snap |-> NoSnap, at |-> "go"]
      BY <2>2 DEF ReadReview, ChangesInv, ReviewOfPaths
    <3>2. IsRead(read')
      BY <3>1 DEF IsRead
    <3>3. QED
      BY <3>1, <3>2 DEF ReviewOfPaths
  <2>3. QED
    BY <2>1, <2>2 DEF WriteDone, refresh_review_shown
<1>4. QED
  BY <1>1, <1>2, <1>3 DEF ChangesInv, WriteTrue

LEMMA PollFails_step ==
    ASSUME ChangesInv, PollFails
    PROVE  ChangesInv'
<1>1. TokensMinted' /\ PromptKept'
  BY NoneLeft DEF PollFails, ChangesInv
<1>2. poll' = Nothing /\ UNCHANGED <<file, write, loaded, read>>
  BY DEF PollFails
<1>3. QED
  BY <1>1, <1>2, WriteStays, ReviewStays DEF ChangesInv

LEMMA WriteFails_step ==
    ASSUME ChangesInv, WriteFails
    PROVE  ChangesInv'
<1>1. TokensMinted' /\ PromptKept'
  BY NoneLeft DEF WriteFails, ChangesInv
<1>2. poll' = Nothing /\ write' = Nothing /\ UNCHANGED <<file, loaded, read>>
  BY DEF WriteFails
<1>3. QED
  BY <1>1, <1>2, ReviewStays DEF ChangesInv, WriteTrue

LEMMA OpenPathPrompt_step ==
    ASSUME ChangesInv, NEW p \in Path, OpenPathPrompt(p)
    PROVE  ChangesInv'
<1>1. /\ tokens[p] # Nothing /\ UNCHANGED <<file, tokens, minted, write, poll, loaded, read>>
      /\ prompt' = [kind |-> "path", id |-> tokens[p].tok, op |-> tokens[p].op,
                    saw |-> tokens[p].snap]
  BY DEF OpenPathPrompt
<1>2. /\ prompt'.id = tokens[p].tok /\ prompt'.saw = tokens[p].snap
  BY <1>1
<1>3. TokensMinted' /\ PromptKept'
  BY <1>1, <1>2 DEF ChangesInv, TokensMinted, PromptKept
<1>4. QED
  BY <1>1, <1>3, WriteStays, ReviewStays DEF ChangesInv

LEMMA OpenFilePrompt_step ==
    ASSUME ChangesInv, OpenFilePrompt
    PROVE  ChangesInv'
<1>1. /\ UNCHANGED <<file, tokens, minted, write, poll, loaded, read>>
      /\ prompt'.kind = "file"
  BY DEF OpenFilePrompt
<1>2. TokensMinted' /\ PromptKept'
  BY <1>1 DEF ChangesInv, TokensMinted, PromptKept
<1>3. QED
  BY <1>1, <1>2, WriteStays, ReviewStays DEF ChangesInv

LEMMA discard_path_step ==
    ASSUME ChangesInv, discard_path
    PROVE  ChangesInv'
<1>1. /\ prompt # Nothing /\ prompt.kind = "path" /\ prompt' = Nothing
      /\ UNCHANGED <<file, tokens, minted, poll, loaded, read>>
  BY DEF discard_path
<1>2. WriteTrue'
  <2>1. CASE UNCHANGED write
    BY <1>1, <2>1, WriteStays
  <2>2. ASSUME NEW p \in Path, tokens[p] # Nothing, tokens[p].tok = prompt.id,
               Discard(p, prompt.op, tokens[p].snap, "path")
        PROVE  WriteTrue'
    <3>1. tokens[p].snap = prompt.saw
      BY <1>1, <2>2 DEF ChangesInv, PromptKept
    <3>2. write' = [kind |-> "path", path |-> p, op |-> prompt.op, snap |-> tokens[p].snap,
                    saw |-> prompt.saw, met |-> NoSnap, calm |-> TRUE, at |-> "open"]
      BY <2>2 DEF Discard
    <3>3. IsWrite(write')
      BY <3>2 DEF IsWrite
    <3>4. Discards'
      BY <3>1, <3>2 DEF Discards
    <3>5. QED
      BY <3>3, <3>4 DEF WriteTrue
  <2>3. QED
    BY <2>1, <2>2 DEF discard_path
<1>3. QED
  BY <1>1, <1>2, ReviewStays DEF ChangesInv, TokensMinted, PromptKept

LEMMA discard_review_file_step ==
    ASSUME ChangesInv, discard_review_file
    PROVE  ChangesInv'
<1>1. /\ prompt' = Nothing /\ UNCHANGED <<file, tokens, minted, poll, loaded, read>>
      /\ UNCHANGED write \/ (loaded # Nothing /\ Discard(loaded.path, loaded.op, loaded.snap, "file"))
  BY DEF discard_review_file
<1>2. WriteTrue'
  <2>1. CASE UNCHANGED write
    BY <1>1, <2>1, WriteStays
  <2>2. CASE loaded # Nothing /\ Discard(loaded.path, loaded.op, loaded.snap, "file")
    <3>1. write' = [kind |-> "file", path |-> loaded.path, op |-> loaded.op,
                    snap |-> loaded.snap, saw |-> prompt.saw, met |-> NoSnap, calm |-> TRUE,
                    at |-> "open"]
      BY <2>2 DEF Discard
    <3>2. loaded.path \in Path
      BY <2>2 DEF ChangesInv, ReviewOfPaths
    <3>3. IsWrite(write')
      BY <3>1 DEF IsWrite
    <3>4. Discards'
      BY <3>1, <3>2 DEF Discards
    <3>5. QED
      BY <3>3, <3>4 DEF WriteTrue
  <2>3. QED
    BY <1>1, <2>1, <2>2
<1>3. QED
  BY <1>1, <1>2, ReviewStays DEF ChangesInv, TokensMinted, PromptKept

\* The fields of a job that goes on.
LEMMA WriteAt ==
    ASSUME ChangesInv, write # Nothing, NEW at, write' = [write EXCEPT !.at = at]
    PROVE  /\ Discards /\ IsWrite(write') /\ write'.at = at /\ write'.met = write.met
           /\ write'.calm = write.calm /\ write'.kind = write.kind /\ write'.path = write.path
           /\ write'.snap = write.snap /\ write'.saw = write.saw
<1>1. PICK kind, path, op, snap, saw, met0, calm0, at0 :
        write = [kind |-> kind, path |-> path, op |-> op, snap |-> snap, saw |-> saw,
                 met |-> met0, calm |-> calm0, at |-> at0]
  BY DEF ChangesInv, WriteTrue, IsWrite
<1>2. write' = [kind |-> kind, path |-> path, op |-> op, snap |-> snap, saw |-> saw,
                met |-> met0, calm |-> calm0, at |-> at]
  BY <1>1
<1>3. IsWrite(write')
  BY <1>2 DEF IsWrite
<1>4. Discards
  BY DEF ChangesInv, WriteTrue
<1>5. QED
  BY <1>1, <1>2, <1>3, <1>4

LEMMA WriteMet ==
    ASSUME ChangesInv, write # Nothing, NEW at, NEW met,
           write' = [write EXCEPT !.at = at, !.met = met]
    PROVE  /\ Discards /\ IsWrite(write') /\ write'.at = at /\ write'.met = met
           /\ write'.calm = write.calm /\ write'.kind = write.kind /\ write'.path = write.path
           /\ write'.snap = write.snap /\ write'.saw = write.saw
<1>1. PICK kind, path, op, snap, saw, met0, calm0, at0 :
        write = [kind |-> kind, path |-> path, op |-> op, snap |-> snap, saw |-> saw,
                 met |-> met0, calm |-> calm0, at |-> at0]
  BY DEF ChangesInv, WriteTrue, IsWrite
<1>2. write' = [kind |-> kind, path |-> path, op |-> op, snap |-> snap, saw |-> saw,
                met |-> met, calm |-> calm0, at |-> at]
  BY <1>1
<1>3. IsWrite(write')
  BY <1>2 DEF IsWrite
<1>4. Discards
  BY DEF ChangesInv, WriteTrue
<1>5. QED
  BY <1>1, <1>2, <1>3, <1>4

LEMMA WriteCalm ==
    ASSUME ChangesInv, write # Nothing, NEW calm, write' = [write EXCEPT !.calm = calm]
    PROVE  /\ Discards /\ IsWrite(write') /\ write'.at = write.at /\ write'.met = write.met
           /\ write'.calm = calm /\ write'.kind = write.kind /\ write'.path = write.path
           /\ write'.snap = write.snap /\ write'.saw = write.saw
<1>1. PICK kind, path, op, snap, saw, met0, calm0, at0 :
        write = [kind |-> kind, path |-> path, op |-> op, snap |-> snap, saw |-> saw,
                 met |-> met0, calm |-> calm0, at |-> at0]
  BY DEF ChangesInv, WriteTrue, IsWrite
<1>2. write' = [kind |-> kind, path |-> path, op |-> op, snap |-> snap, saw |-> saw,
                met |-> met0, calm |-> calm, at |-> at0]
  BY <1>1
<1>3. IsWrite(write')
  BY <1>2 DEF IsWrite
<1>4. Discards
  BY DEF ChangesInv, WriteTrue
<1>5. QED
  BY <1>1, <1>2, <1>3, <1>4

\* What a worker's step leaves alone.
WorkersOwn == UNCHANGED <<poll, tokens, minted, prompt, loaded, read>>

LEMMA WorkerKeeps ==
    ASSUME ChangesInv, WorkersOwn, DOMAIN file' = Path, WriteTrue'
    PROVE  ChangesInv'
  BY ReviewStays DEF ChangesInv, WorkersOwn, TokensMinted, PromptKept

\* A job that only goes on to a moment where nothing is claimed of the file.
LEMMA WriteMoves ==
    ASSUME ChangesInv, write # Nothing, NEW at, write' = [write EXCEPT !.at = at],
           at \in {"commit", "done", "committed"}
    PROVE  WriteTrue'
<1>1. /\ IsWrite(write') /\ write'.at = at /\ write'.kind = write.kind
      /\ write'.snap = write.snap /\ write'.saw = write.saw /\ Discards
  BY WriteAt
<1>2. Discards'
  BY <1>1 DEF Discards
<1>3. QED
  BY <1>1, <1>2 DEF WriteTrue

LEMMA OpenIndex_step ==
    ASSUME ChangesInv, OpenIndex
    PROVE  ChangesInv'
<1>1. /\ write # Nothing /\ write.at = "open" /\ WorkersOwn /\ UNCHANGED file
      /\ write' = [write EXCEPT !.at = "verify", !.met = snapshot(write.path)]
  BY DEF OpenIndex, shell, WorkersOwn
<1>2. /\ Discards /\ IsWrite(write') /\ write'.at = "verify"
      /\ write'.met = snapshot(write.path) /\ write'.kind = write.kind
      /\ write'.path = write.path /\ write'.snap = write.snap /\ write'.saw = write.saw
  BY <1>1, WriteMet
<1>3. Discards'
  BY <1>1, <1>2 DEF Discards, snapshot
<1>4. QED
  BY <1>1, <1>2, <1>3, WorkerKeeps DEF WriteTrue, ChangesInv

LEMMA Verify_step ==
    ASSUME ChangesInv, Verify
    PROVE  ChangesInv'
<1>1. /\ write # Nothing /\ write.at = "verify" /\ WorkersOwn /\ UNCHANGED file
      /\ \/ /\ write' = [write EXCEPT !.at = "require"]
            /\ [write.met EXCEPT !.wt = file[write.path].wt] = write.snap
         \/ write' = [write EXCEPT !.at = "done"]
  BY DEF Verify, shell, WorkersOwn
<1>2. WriteTrue'
  <2>1. CASE write' = [write EXCEPT !.at = "done"]
    BY <1>1, <2>1, WriteMoves
  <2>2. CASE /\ write' = [write EXCEPT !.at = "require"]
             /\ [write.met EXCEPT !.wt = file[write.path].wt] = write.snap
    <3>1. /\ Discards /\ IsWrite(write') /\ write'.at = "require"
          /\ write'.calm = write.calm /\ write'.kind = write.kind
          /\ write'.path = write.path /\ write'.snap = write.snap /\ write'.saw = write.saw
      BY <1>1, <2>2, WriteAt
    <3>2. ASSUME write.calm PROVE write.snap = snapshot(write.path)
      <4>1. write.met = snapshot(write.path)
        BY <1>1, <3>1, <3>2 DEF Discards
      <4>2. [snapshot(write.path) EXCEPT !.wt = file[write.path].wt] = snapshot(write.path)
        BY DEF snapshot
      <4>3. QED
        BY <2>2, <4>1, <4>2
    <3>3. Discards'
      BY <1>1, <3>1, <3>2 DEF Discards, snapshot
    <3>4. QED
      BY <3>1, <3>3 DEF WriteTrue
  <2>3. QED
    BY <1>1, <2>1, <2>2
<1>3. QED
  BY <1>1, <1>2, WorkerKeeps DEF ChangesInv

LEMMA Require_step ==
    ASSUME ChangesInv, Require
    PROVE  ChangesInv'
<1>1. /\ write # Nothing /\ write.at = "require" /\ WorkersOwn /\ UNCHANGED file
      /\ \/ write' = [write EXCEPT !.at = "act"]
         \/ write' = [write EXCEPT !.at = "done"]
  BY DEF Require, shell, WorkersOwn
<1>2. WriteTrue'
  <2>1. CASE write' = [write EXCEPT !.at = "done"]
    BY <1>1, <2>1, WriteMoves
  <2>2. CASE write' = [write EXCEPT !.at = "act"]
    <3>1. /\ Discards /\ IsWrite(write') /\ write'.at = "act"
          /\ write'.calm = write.calm /\ write'.kind = write.kind
          /\ write'.path = write.path /\ write'.snap = write.snap /\ write'.saw = write.saw
      BY <1>1, <2>2, WriteAt
    <3>2. Discards'
      BY <1>1, <3>1 DEF Discards, snapshot
    <3>3. QED
      BY <3>1, <3>2 DEF WriteTrue
  <2>3. QED
    BY <1>1, <2>1, <2>2
<1>3. QED
  BY <1>1, <1>2, WorkerKeeps DEF ChangesInv

LEMMA Act_step ==
    ASSUME ChangesInv, Act
    PROVE  ChangesInv'
<1>1. /\ write # Nothing /\ write.at = "act" /\ WorkersOwn /\ DOMAIN file' = Path
      /\ \/ write' = [write EXCEPT !.at = "thrown", !.met = snapshot(write.path)]
         \/ write' = [write EXCEPT !.at = "done"]
  BY DEF Act, shell, WorkersOwn, ChangesInv
<1>2. WriteTrue'
  <2>1. CASE write' = [write EXCEPT !.at = "done"]
    BY <1>1, <2>1, WriteMoves
  <2>2. CASE write' = [write EXCEPT !.at = "thrown", !.met = snapshot(write.path)]
    <3>1. /\ Discards /\ IsWrite(write') /\ write'.at = "thrown"
          /\ write'.calm = write.calm /\ write'.kind = write.kind
          /\ write'.met = snapshot(write.path) /\ write'.snap = write.snap
          /\ write'.saw = write.saw
      BY <1>1, <2>2, WriteMet
    <3>2. Discards'
      BY <1>1, <3>1 DEF Discards
    <3>3. QED
      BY <3>1, <3>2 DEF WriteTrue
  <2>3. QED
    BY <1>1, <2>1, <2>2
<1>3. QED
  BY <1>1, <1>2, WorkerKeeps

LEMMA CommitAdd_step ==
    ASSUME ChangesInv, CommitAdd
    PROVE  ChangesInv'
<1>1. /\ write # Nothing /\ WorkersOwn
      /\ \/ write' = [write EXCEPT !.at = "commit"]
         \/ write' = [write EXCEPT !.at = "done"]
  BY Zenon DEF CommitAdd, shell, WorkersOwn
<1>2. DOMAIN file' = Path
  BY DEF CommitAdd
<1>3. WriteTrue'
  BY <1>1, WriteMoves
<1>4. QED
  BY <1>1, <1>2, <1>3, WorkerKeeps

LEMMA commit_step ==
    ASSUME ChangesInv, commit
    PROVE  ChangesInv'
<1>1. PICK path, op, snap :
        write' = [kind |-> "commit", path |-> path, op |-> op, snap |-> snap, saw |-> NoSnap,
                  met |-> NoSnap, calm |-> TRUE, at |-> "add"]
  BY Zenon DEF commit
<1>2. WorkersOwn /\ UNCHANGED file
  BY DEF commit, WorkersOwn
<1>3. IsWrite(write')
  BY <1>1 DEF IsWrite
<1>4. Discards'
  BY <1>1 DEF Discards
<1>5. QED
  BY <1>2, <1>3, <1>4, WorkerKeeps DEF ChangesInv, WriteTrue

LEMMA GitCommit_step ==
    ASSUME ChangesInv, GitCommit
    PROVE  ChangesInv'
<1>1. /\ write # Nothing /\ WorkersOwn /\ write' = [write EXCEPT !.at = "committed"]
  BY DEF GitCommit, WorkersOwn
<1>2. DOMAIN file' = Path
  BY DEF GitCommit
<1>3. WriteTrue'
  BY <1>1, WriteMoves
<1>4. QED
  BY <1>1, <1>2, <1>3, WorkerKeeps

\* A change of the file a worker has looked at takes back what is claimed of
\* it; a change of another file leaves that alone.
LEMMA Edit_step ==
    ASSUME ChangesInv, NEW p \in Path, Edit(p)
    PROVE  ChangesInv'
<1>1. PICK f : file' = [file EXCEPT ![p] = f]
  BY DEF Edit
<1>2. /\ WorkersOwn
      /\ write' = IF UnderDiscard(p) THEN [write EXCEPT !.calm = FALSE] ELSE write
  BY DEF Edit, shell, WorkersOwn
<1>3. DOMAIN file' = Path /\ \A q \in Path : q # p => file'[q] = file[q]
  BY <1>1 DEF ChangesInv
<1>4. CASE UnderDiscard(p)
  <2>1. /\ write # Nothing /\ write' = [write EXCEPT !.calm = FALSE]
    BY <1>2, <1>4 DEF UnderDiscard
  <2>2. /\ Discards /\ IsWrite(write') /\ ~write'.calm /\ write'.at = write.at
        /\ write'.kind = write.kind /\ write'.path = write.path
        /\ write'.snap = write.snap /\ write'.saw = write.saw
    BY <2>1, WriteCalm
  <2>3. Discards'
    BY <2>2 DEF Discards
  <2>4. QED
    BY <1>2, <1>3, <2>2, <2>3, WorkerKeeps DEF WriteTrue
<1>5. CASE ~UnderDiscard(p)
  <2>1. write' = write
    BY <1>2, <1>5
  <2>2. ASSUME write # Nothing PROVE Discards'
    <3>1. Discards
      BY <2>2 DEF ChangesInv, WriteTrue
    <3>2. write.at \in {"verify", "require", "act"} => write.path \in Path /\ write.path # p
      BY <1>5, <2>2, <3>1 DEF UnderDiscard, Discards
    <3>3. write.at \in {"verify", "require", "act"} => snapshot(write.path)' = snapshot(write.path)
      BY <1>3, <2>1, <3>2 DEF snapshot
    <3>4. QED
      BY <2>1, <3>1, <3>3 DEF Discards
  <2>3. QED
    BY <1>2, <1>3, <2>1, <2>2, WorkerKeeps DEF WriteTrue, ChangesInv
<1>6. QED
  BY <1>4, <1>5

-----------------------------------------------------------------------------
\* The Changes view: the review

LEMMA Review_step ==
    ASSUME ChangesInv, NEW p \in Path, Review(p)
    PROVE  ChangesInv'
<1>1. /\ UNCHANGED <<file, tokens, minted, prompt, write, poll>> /\ loaded' = Nothing
      /\ read' = [kind |-> "review", path |-> p, id |-> request + 1, snap |-> NoSnap, at |-> "go"]
  BY DEF Review, ReadReview
<1>2. IsRead(read')
  BY <1>1 DEF IsRead
<1>3. QED
  BY <1>1, <1>2, ChangesCalm DEF ChangesInv, ReviewOfPaths

LEMMA LoadAgain_step ==
    ASSUME ChangesInv, expand_review_context \/ load_review_file
    PROVE  ChangesInv'
<1>1. PICK kind, snap :
        /\ loaded # Nothing /\ UNCHANGED <<file, tokens, minted, prompt, write, poll>>
        /\ UNCHANGED loaded \/ loaded' = Nothing
        /\ read' = [kind |-> kind, path |-> loaded.path, id |-> loaded.id, snap |-> snap, at |-> "go"]
  BY Zenon DEF expand_review_context, load_review_file, shell
<1>2. loaded.path \in Path
  BY <1>1 DEF ChangesInv, ReviewOfPaths
<1>3. IsRead(read')
  BY <1>1, <1>2 DEF IsRead
<1>4. QED
  BY <1>1, <1>2, <1>3, ChangesCalm DEF ChangesInv, ReviewOfPaths

LEMMA ReadFile_step ==
    ASSUME ChangesInv, ReadFile
    PROVE  ChangesInv'
<1>1. PICK at, snap : read' = [read EXCEPT !.at = at, !.snap = snap]
  BY DEF ReadFile
<1>2. read # Nothing /\ UNCHANGED <<file, tokens, minted, prompt, write, poll, loaded>>
  BY DEF ReadFile, shell
<1>0. IsRead(read)
  BY <1>2 DEF ChangesInv, ReviewOfPaths
<1>3. PICK p \in Path : \E kind, id, snap0, at0 :
        read = [kind |-> kind, path |-> p, id |-> id, snap |-> snap0, at |-> at0]
  BY <1>0 DEF IsRead
<1>4. PICK kind, id, snap0, at0 :
        read = [kind |-> kind, path |-> p, id |-> id, snap |-> snap0, at |-> at0]
  BY <1>3
<1>7. read' = [kind |-> kind, path |-> p, id |-> id, snap |-> snap, at |-> at]
  BY <1>1, <1>4
<1>5. IsRead(read')
  BY <1>7 DEF IsRead
<1>6. QED
  BY <1>2, <1>5, ChangesCalm DEF ChangesInv, ReviewOfPaths

LEMMA ReadDone_step ==
    ASSUME ChangesInv, ReadDone
    PROVE  ChangesInv'
<1>1. read # Nothing /\ UNCHANGED <<file, tokens, minted, prompt, write, poll>>
  BY DEF ReadDone
<1>0. IsRead(read)
  BY <1>1 DEF ChangesInv, ReviewOfPaths
<1>5. PICK p \in Path : \E kind, id, snap, at :
        read = [kind |-> kind, path |-> p, id |-> id, snap |-> snap, at |-> at]
  BY <1>0 DEF IsRead
<1>2. PICK kind, id, snap, at :
        read = [kind |-> kind, path |-> p, id |-> id, snap |-> snap, at |-> at]
  BY <1>5
<1>3. ReviewOfPaths'
  <2>1. CASE read.at = "read"
    <3>1. read' = Nothing /\ loaded'.path = read.path
      BY <2>1 DEF ReadDone
    <3>2. QED
      BY <1>2, <3>1 DEF ReviewOfPaths
  <2>2. CASE read.at = "stale"
    <3>1. read' = [read EXCEPT !.kind = "file", !.at = "go"] /\ loaded' = Nothing
      BY <2>2 DEF ReadDone
    <3>2. read' = [kind |-> "file", path |-> p, id |-> id, snap |-> snap, at |-> "go"]
      BY <1>2, <3>1
    <3>3. IsRead(read')
      BY <3>2 DEF IsRead
    <3>4. QED
      BY <3>1, <3>3 DEF ReviewOfPaths
  <2>3. CASE read.at \notin {"read", "stale"}
    <3>1. read' = Nothing /\ UNCHANGED loaded
      BY <2>3 DEF ReadDone
    <3>2. QED
      BY <3>1 DEF ReviewOfPaths, ChangesInv
  <2>4. QED
    BY <2>1, <2>2, <2>3
<1>4. QED
  BY <1>1, <1>3, ChangesCalm DEF ChangesInv

-----------------------------------------------------------------------------
\* The Changes view: the theorem

LEMMA ChangesStart == ChangesInit => ChangesInv
<1> SUFFICES ASSUME ChangesInit PROVE ChangesInv
  OBVIOUS
<1>1. /\ minted = 0 /\ \A p \in Path : tokens[p] = Nothing
      /\ prompt = Nothing /\ write = Nothing /\ poll = Nothing /\ read = Nothing /\ loaded = Nothing
      /\ DOMAIN file = Path
  BY DEF ChangesInit
<1>2. QED
  BY <1>1 DEF ChangesInv, TokensMinted, PromptKept, WriteTrue, ReviewOfPaths

LEMMA ChangesKeeps == ChangesInv /\ [ChangesNext]_changesVars => ChangesInv'
<1> SUFFICES ASSUME ChangesInv, [ChangesNext]_changesVars PROVE ChangesInv'
  OBVIOUS
<1>1. CASE UNCHANGED changesVars
  BY <1>1, ChangesCalm, ReviewStays DEF changesVars, ChangesInv
<1>2. CASE refresh_changes \/ PollDone \/ PollFails \/ WriteStatus \/ WriteDone \/ WriteFails
  BY <1>2, refresh_changes_step, PollDone_step, PollFails_step, WriteStatus_step,
     WriteDone_step, WriteFails_step
<1>3. CASE poll # Nothing /\ \E r \in poll : Fingerprint(r) \/ Capture(r)
  BY <1>3, Fingerprint_step, Capture_step
<1>4. CASE OpenFilePrompt \/ discard_path \/ discard_review_file
  BY <1>4, OpenFilePrompt_step, discard_path_step, discard_review_file_step
<1>5. CASE OpenIndex \/ Verify \/ Require \/ Act \/ commit \/ CommitAdd \/ GitCommit
  BY <1>5, OpenIndex_step, Verify_step, Require_step, Act_step, commit_step, CommitAdd_step,
     GitCommit_step
<1>6. ASSUME NEW p \in Path, OpenPathPrompt(p) \/ Review(p) \/ Edit(p) PROVE ChangesInv'
  BY <1>6, OpenPathPrompt_step, Review_step, Edit_step
<1>7. ASSUME NEW p \in Path, Toggle(p) PROVE ChangesInv'
  BY <1>7, ChangesCalm, ReviewStays DEF Toggle, ChangesInv
<1>8. CASE expand_review_context \/ load_review_file \/ ReadFile \/ ReadDone
  BY <1>8, LoadAgain_step, ReadFile_step, ReadDone_step
<1>9. QED
  BY <1>1, <1>2, <1>3, <1>4, <1>5, <1>6, <1>7, <1>8 DEF ChangesNext

\* For any files, contents and order of polls, prompts, edits and commits: what
\* a confirmed discard throws away is what was on record for it, and for a row
\* of the list what the row stood for when its prompt was opened, unless the
\* file is changed between the worker's look at it and its act (backend.rs
\* discard_path, discard.rs).
THEOREM ChangesAreAsShown == ChangesSpec => []WritesWhatWasShown
<1>1. ChangesInv => WritesWhatWasShown
  BY DEF ChangesInv, WriteTrue, Discards, WritesWhatWasShown
<1>2. ChangesSpec => []ChangesInv
  BY ChangesStart, ChangesKeeps, PTL DEF ChangesSpec
<1>3. QED
  BY <1>1, <1>2, PTL

-----------------------------------------------------------------------------
\* The runs pages: the bridge

Words == {"", "approve", "deny", "cancel", "retry", "decided", "run_ended", "run_still_active",
          "store", "artifact_not_text", "input", "excerpt", "answered", "ended", "pending", "none"}
Answer == [kind : {"blank", "ok", "refused"}, of : Words, saw : Words]
BridgeOp == [req : Nat, slot : Slots, what : {"approve", "deny", "cancel", "retry", "load"},
             at : {"work", "settle"}, out : Answer]
Bridge == [next : Nat, newest : [Slots -> Nat], status : Answer, detail : Answer, run : Answer,
           excerpt : Answer, outcome : Answer]
Issued == [req : Nat, out : Answer]

\* The answer that a reply shows, and the newest question of a slot is answered.
Heard(out) == IF out.kind = "ok" THEN out ELSE NoAnswer
Quiet(b, o, slot) == \A op \in o : op.slot = slot => op.req # b.newest[slot]

\* Bridge b with operations o outstanding, the answers i: an operation is known
\* by its number, and what was asked last is what the answer is to.
Numbers(b, o, i) ==
    /\ \A slot \in Slots : b.newest[slot] <= b.next /\ i[slot].req <= b.newest[slot]
    /\ \A op \in o : /\ op.req >= 1 /\ op.req <= b.newest[op.slot]
                     /\ op.slot = "Decision" <=> op.what # "load"
                     /\ op.at = "work" => op.out = NoAnswer
    /\ \A op, other \in o : op.req = other.req => op = other

Newest(b, o, i) ==
    /\ \A op \in o : op.req = b.newest[op.slot] =>
         /\ op.at = "work" => i[op.slot].req < op.req
         /\ op.at = "settle" => i[op.slot].req = op.req /\ i[op.slot].out = op.out
    /\ \A slot \in Slots : Quiet(b, o, slot) => i[slot].req = b.newest[slot]

AnswersHeld(b, o, i) ==
    /\ Quiet(b, o, "RunDetail") => b.run = Heard(i["RunDetail"].out)
    /\ Quiet(b, o, "ArtifactExcerpt") => b.excerpt = Heard(i["ArtifactExcerpt"].out)
    /\ Quiet(b, o, "Decision") => b.outcome = i["Decision"].out
    /\ Quiet(b, o, "ApprovalInput") => b.detail \in {NoAnswer, Heard(i["ApprovalInput"].out)}

\* One decision at most is accepted; once the page has its outcome, the newest
\* read of the run is one that began after it.
Accepted(out) == out.kind = "ok" /\ out.of \in {"approve", "deny"}
Taken(op) == op.slot = "Decision" /\ Accepted(op.out)
ShowsAnswered(out) == out.kind = "ok" => out.saw = "answered"

OneTaken(b, o, answered) ==
    /\ \A op \in o : Taken(op) => answered /\ ~Accepted(b.outcome)
    /\ \A op, other \in o : Taken(op) /\ Taken(other) => op = other
    /\ Accepted(b.outcome) => answered

ReadAfter(b, o) ==
    Accepted(b.outcome) =>
      /\ \A op \in o : op.slot = "RunDetail" /\ op.req = b.newest["RunDetail"] =>
           ShowsAnswered(op.out)
      /\ Quiet(b, o, "RunDetail") => ShowsAnswered(b.run)

AnswersInv(b, o, i, answered) ==
    /\ b \in Bridge /\ o \subseteq BridgeOp /\ i \in [Slots -> Issued]
    /\ Numbers(b, o, i) /\ Newest(b, o, i) /\ AnswersHeld(b, o, i) /\ OneTaken(b, o, answered)

BridgeInv(b, o, i, answered) == AnswersInv(b, o, i, answered) /\ ReadAfter(b, o)

LEMMA NoAnswerIs == NoAnswer \in Answer /\ NoAnswer.kind = "blank"
  BY DEF NoAnswer, Answer, Words

\* A question that is asked.
LEMMA DispatchKeeps ==
    ASSUME NEW b, NEW o, NEW i, NEW answered, AnswersInv(b, o, i, answered),
           NEW slot \in Slots, NEW what \in {"approve", "deny", "cancel", "retry", "load"},
           slot = "Decision" <=> what # "load", slot = "RunDetail" \/ ReadAfter(b, o)
    PROVE  BridgeInv(DispatchOn(b, o, slot, what).bridge, DispatchOn(b, o, slot, what).ops,
                     i, answered)
<1>1. PICK c, op, p :
        /\ c = [b EXCEPT !.next = @ + 1, !.newest[slot] = b.next + 1]
        /\ op = [req |-> b.next + 1, slot |-> slot, what |-> what, at |-> "work", out |-> NoAnswer]
        /\ p = o \cup {op}
  OBVIOUS
<1>2. b \in Bridge /\ o \subseteq BridgeOp /\ i \in [Slots -> Issued]
  BY DEF AnswersInv
<1>3. b.next \in Nat /\ b.newest \in [Slots -> Nat]
  BY <1>2 DEF Bridge
<1>4. /\ c \in Bridge /\ c.next = b.next + 1 /\ c.newest = [b.newest EXCEPT ![slot] = b.next + 1]
      /\ c.run = b.run /\ c.excerpt = b.excerpt /\ c.outcome = b.outcome /\ c.detail = b.detail
  <2>1. PICK m : m = [b.newest EXCEPT ![slot] = b.next + 1]
    OBVIOUS
  <2>2. m \in [Slots -> Nat]
    BY <1>3, <2>1
  <2>3. c = [b EXCEPT !.next = b.next + 1, !.newest = m]
    BY <1>1, <1>2, <2>1 DEF Bridge
  <2>4. QED
    BY <1>2, <1>3, <2>1, <2>2, <2>3 DEF Bridge
<1>5. /\ op \in BridgeOp /\ op.req = b.next + 1 /\ op.slot = slot /\ op.what = what
      /\ op.at = "work" /\ op.out = NoAnswer
  BY <1>1, <1>3, NoAnswerIs DEF BridgeOp
<1>6. /\ c.newest[slot] = b.next + 1
      /\ \A s \in Slots \ {slot} : c.newest[s] = b.newest[s]
      /\ \A s \in Slots : c.newest[s] >= b.newest[s] /\ b.newest[s] <= b.next
                          /\ b.newest[s] \in Nat /\ i[s].req \in Nat /\ i[s].req <= b.newest[s]
  <2>1. \A s \in Slots : b.newest[s] <= b.next /\ i[s].req <= b.newest[s] /\ i[s].req \in Nat
    BY <1>2 DEF AnswersInv, Numbers, Issued
  <2>2. QED
    BY <1>3, <1>4, <2>1
<1>7. \A q \in o : /\ q.req \in Nat /\ q.slot \in Slots /\ q.req >= 1
                   /\ q.req <= b.newest[q.slot] /\ q.req <= b.next /\ q \in BridgeOp
                   /\ q.slot = "Decision" <=> q.what # "load"
                   /\ q.at = "work" => q.out = NoAnswer
  BY <1>2, <1>3, <1>6 DEF AnswersInv, Numbers, BridgeOp
<1>8. Numbers(c, p, i)
  <2>1. \A s \in Slots : c.newest[s] <= c.next /\ i[s].req <= c.newest[s]
    BY <1>3, <1>4, <1>6
  <2>2. \A q \in p : /\ q.req >= 1 /\ q.req <= c.newest[q.slot]
                     /\ q.slot = "Decision" <=> q.what # "load"
                     /\ q.at = "work" => q.out = NoAnswer
    BY <1>1, <1>3, <1>4, <1>5, <1>6, <1>7
  <2>3. \A q \in o : q.req # op.req
    BY <1>3, <1>5, <1>7
  <2>4. \A q, r \in p : q.req = r.req => q = r
    BY <1>1, <2>3 DEF AnswersInv, Numbers
  <2>5. QED
    BY <2>1, <2>2, <2>4 DEF Numbers
<1>9. \A s \in Slots \ {slot} : Quiet(c, p, s) => Quiet(b, o, s)
  BY <1>1, <1>6 DEF Quiet
<1>10. ~Quiet(c, p, slot)
  BY <1>1, <1>5, <1>6 DEF Quiet
<1>11. \A q \in o : q.req = c.newest[q.slot] => q.slot # slot /\ q.req = b.newest[q.slot]
  BY <1>3, <1>6, <1>7
<1>12. Newest(c, p, i)
  <2>1. \A q \in o : q.req = c.newest[q.slot] =>
          /\ q.at = "work" => i[q.slot].req < q.req
          /\ q.at = "settle" => i[q.slot].req = q.req /\ i[q.slot].out = q.out
    BY <1>11 DEF AnswersInv, Newest
  <2>2. op.at = "work" /\ i[op.slot].req < op.req
    BY <1>3, <1>5, <1>6
  <2>3. \A s \in Slots : Quiet(c, p, s) => i[s].req = c.newest[s]
    BY <1>6, <1>9, <1>10 DEF AnswersInv, Newest
  <2>4. \A q \in p : q \in o \/ q = op
    BY <1>1
  <2>5. QED
    BY <2>1, <2>2, <2>3, <2>4 DEF Newest
<1>13. AnswersHeld(c, p, i)
  BY <1>4, <1>9, <1>10 DEF AnswersInv, AnswersHeld, Slots
<1>14. \A q \in p : q \in o \/ q = op
  BY <1>1
<1>15. ~Taken(op) /\ ShowsAnswered(op.out)
  BY <1>5, NoAnswerIs DEF Taken, Accepted, ShowsAnswered
<1>16. OneTaken(c, p, answered)
  BY <1>4, <1>14, <1>15 DEF AnswersInv, OneTaken
<1>17. ReadAfter(c, p)
  <2>1. ASSUME Accepted(c.outcome), NEW q \in p, q.slot = "RunDetail",
               q.req = c.newest["RunDetail"]
        PROVE  ShowsAnswered(q.out)
    <3>1. CASE q \in o
      BY <1>4, <1>11, <2>1, <3>1 DEF ReadAfter
    <3>2. QED
      BY <1>14, <1>15, <2>1, <3>1
  <2>2. Accepted(c.outcome) => (Quiet(c, p, "RunDetail") => ShowsAnswered(c.run))
    BY <1>4, <1>9, <1>10 DEF ReadAfter, Slots
  <2>3. QED
    BY <2>1, <2>2 DEF ReadAfter
<1>18. BridgeInv(c, p, i, answered)
  <2>1. p \subseteq BridgeOp
    BY <1>1, <1>2, <1>5
  <2>2. QED
    BY <1>2, <1>4, <1>8, <1>12, <1>13, <1>16, <1>17, <2>1 DEF BridgeInv, AnswersInv
<1>19. /\ DispatchOn(b, o, slot, what).bridge = c
       /\ DispatchOn(b, o, slot, what).ops = p
  BY <1>1 DEF DispatchOn
<1>20. QED
  BY <1>18, <1>19
\* A worker is done: its answer is issued, unless a newer one of its kind is.
Worked(o, op, out, p) == p = (o \ {op}) \cup {[op EXCEPT !.at = "settle", !.out = out]}
Told(i, op, out, j) ==
    j = IF op.req > i[op.slot].req
        THEN [i EXCEPT ![op.slot] = [req |-> op.req, out |-> out]] ELSE i

LEMMA WorkKeeps ==
    ASSUME NEW b, NEW o, NEW i, NEW answered, NEW j, NEW p, NEW op \in o, NEW out \in Answer,
           NEW then, BridgeInv(b, o, i, answered), op.at = "work",
           Worked(o, op, out, p), Told(i, op, out, j),
           answered => then,
           op.slot = "Decision" /\ Accepted(out) => then /\ ~answered,
           answered /\ op.slot = "RunDetail" => ShowsAnswered(out)
    PROVE  BridgeInv(b, p, j, then)
<1>1. b \in Bridge /\ o \subseteq BridgeOp /\ i \in [Slots -> Issued] /\ op \in BridgeOp
  BY DEF BridgeInv, AnswersInv
<1>2. PICK n : n = [op EXCEPT !.at = "settle", !.out = out]
  OBVIOUS
<1>17. /\ p = (o \ {op}) \cup {n}
      /\ j = IF op.req > i[op.slot].req
             THEN [i EXCEPT ![op.slot] = [req |-> op.req, out |-> out]] ELSE i
  BY <1>2 DEF Worked, Told
<1>3. /\ n \in BridgeOp /\ n.req = op.req /\ n.slot = op.slot /\ n.what = op.what
      /\ n.at = "settle" /\ n.out = out /\ op.slot \in Slots /\ op.req \in Nat
  BY <1>1, <1>2 DEF BridgeOp
<1>4. \A q \in p : q = n \/ q \in o \ {op}
  BY <1>17
<1>5. p \subseteq BridgeOp
  BY <1>1, <1>17, <1>3
<1>6. j \in [Slots -> Issued]
  BY <1>1, <1>17, <1>3 DEF Issued
<1>7. /\ \A s \in Slots \ {op.slot} : j[s] = i[s]
      /\ op.req > i[op.slot].req => j[op.slot].req = op.req /\ j[op.slot].out = out
      /\ ~(op.req > i[op.slot].req) => j[op.slot] = i[op.slot]
      /\ i[op.slot].req \in Nat /\ b.newest[op.slot] \in Nat /\ op.req <= b.newest[op.slot]
  BY <1>1, <1>17, <1>3 DEF Issued, Bridge, BridgeInv, AnswersInv, Numbers
<1>8. \A q \in o : q.req = op.req => q = op
  BY DEF BridgeInv, AnswersInv, Numbers
<1>9. Numbers(b, p, j)
  <2>1. \A s \in Slots : b.newest[s] <= b.next /\ j[s].req <= b.newest[s]
    BY <1>7 DEF BridgeInv, AnswersInv, Numbers
  <2>2. \A q \in p : /\ q.req >= 1 /\ q.req <= b.newest[q.slot]
                     /\ q.slot = "Decision" <=> q.what # "load"
                     /\ q.at = "work" => q.out = NoAnswer
    BY <1>3, <1>4 DEF BridgeInv, AnswersInv, Numbers
  <2>3. \A q, r \in p : q.req = r.req => q = r
    BY <1>3, <1>4, <1>8 DEF BridgeInv, AnswersInv, Numbers
  <2>4. QED
    BY <2>1, <2>2, <2>3 DEF Numbers
<1>10. \A s \in Slots : Quiet(b, p, s) <=> Quiet(b, o, s)
  <2>1. \A q \in o : q # op => q \in p
    BY <1>17
  <2>2. n \in p
    BY <1>17
  <2>3. QED
    BY <1>3, <1>4, <2>1, <2>2 DEF Quiet
<1>11. op.req = b.newest[op.slot] => op.req > i[op.slot].req
  BY <1>7 DEF BridgeInv, AnswersInv, Newest
<1>12. \A s \in Slots : Quiet(b, o, s) => j[s] = i[s]
  <2>1. CASE op.req = b.newest[op.slot]
    BY <1>7, <2>1 DEF Quiet
  <2>2. ASSUME op.req # b.newest[op.slot], Quiet(b, o, op.slot)
        PROVE  j[op.slot] = i[op.slot]
    <3>1. i[op.slot].req = b.newest[op.slot]
      BY <1>3, <2>2 DEF BridgeInv, AnswersInv, Newest
    <3>2. QED
      BY <1>3, <1>7, <3>1
  <2>3. QED
    BY <1>7, <2>1, <2>2
<1>13. Newest(b, p, j)
  <2>1. ASSUME NEW q \in p, q.req = b.newest[q.slot]
        PROVE  /\ q.at = "work" => j[q.slot].req < q.req
               /\ q.at = "settle" => j[q.slot].req = q.req /\ j[q.slot].out = q.out
    <3>1. CASE q = n
      BY <1>3, <1>7, <1>11, <2>1, <3>1
    <3>2. CASE q \in o \ {op} /\ q.slot # op.slot
      <4>1. j[q.slot] = i[q.slot]
        BY <1>1, <1>7, <3>2 DEF BridgeOp
      <4>2. QED
        BY <2>1, <3>2, <4>1 DEF BridgeInv, AnswersInv, Newest
    <3>3. CASE q \in o \ {op} /\ q.slot = op.slot
      <4>1. q.req # op.req /\ q.req \in Nat
        BY <1>1, <1>8, <3>3 DEF BridgeOp
      <4>2. op.req < q.req
        BY <1>3, <1>7, <2>1, <3>3, <4>1
      <4>3. CASE q.at = "work"
        BY <1>3, <1>7, <2>1, <3>3, <4>2, <4>3 DEF BridgeInv, AnswersInv, Newest
      <4>4. CASE q.at = "settle"
        <5>1. i[q.slot].req = q.req /\ i[q.slot].out = q.out
          BY <2>1, <3>3, <4>4 DEF BridgeInv, AnswersInv, Newest
        <5>2. QED
          BY <1>3, <1>7, <3>3, <4>1, <4>2, <4>4, <5>1
      <4>5. QED
        BY <1>1, <3>3, <4>3, <4>4 DEF BridgeOp
    <3>4. QED
      BY <1>4, <3>1, <3>2, <3>3
  <2>2. \A s \in Slots : Quiet(b, p, s) => j[s].req = b.newest[s]
    BY <1>10, <1>12 DEF BridgeInv, AnswersInv, Newest
  <2>3. QED
    BY <2>1, <2>2 DEF Newest
<1>14. AnswersHeld(b, p, j)
  BY <1>10, <1>12 DEF BridgeInv, AnswersInv, AnswersHeld, Slots
<1>15. OneTaken(b, p, then) /\ ReadAfter(b, p)
  <2>1. \A q \in p : Taken(q) => then /\ ~Accepted(b.outcome)
    BY <1>3, <1>4 DEF BridgeInv, AnswersInv, OneTaken, ReadAfter, Taken
  <2>2. \A q, r \in p : Taken(q) /\ Taken(r) => q = r
    BY <1>3, <1>4 DEF BridgeInv, AnswersInv, OneTaken, ReadAfter, Taken
  <2>3. Accepted(b.outcome) => /\ then
                               /\ Quiet(b, p, "RunDetail") => ShowsAnswered(b.run)
    BY <1>10 DEF BridgeInv, AnswersInv, OneTaken, ReadAfter, Slots
  <2>4. ASSUME Accepted(b.outcome), NEW q \in p, q.slot = "RunDetail",
               q.req = b.newest["RunDetail"]
        PROVE  ShowsAnswered(q.out)
    BY <1>3, <1>4, <2>4 DEF BridgeInv, AnswersInv, OneTaken, ReadAfter
  <2>5. QED
    BY <2>1, <2>2, <2>3, <2>4 DEF OneTaken, ReadAfter
<1>16. QED
  BY <1>1, <1>5, <1>6, <1>9, <1>13, <1>14, <1>15 DEF BridgeInv, AnswersInv

\* A reply that settles: what bridge c is to the bridge b before it.
Replied(b, op, c) ==
    /\ c \in Bridge /\ c.next = b.next /\ c.newest = b.newest
    /\ IF op.req # b.newest[op.slot]
       THEN c.run = b.run /\ c.excerpt = b.excerpt /\ c.outcome = b.outcome /\ c.detail = b.detail
       ELSE /\ c.run = IF op.slot = "RunDetail" THEN Heard(op.out) ELSE b.run
            /\ c.excerpt = IF op.slot = "ArtifactExcerpt" THEN Heard(op.out) ELSE b.excerpt
            /\ c.outcome = IF op.slot = "Decision" THEN op.out ELSE b.outcome
            /\ c.detail = IF op.slot = "Decision" THEN NoAnswer
                          ELSE IF op.slot = "ApprovalInput" THEN Heard(op.out) ELSE b.detail

LEMMA SettleKeeps ==
    ASSUME NEW b, NEW o, NEW i, NEW answered, NEW c, NEW op \in o,
           BridgeInv(b, o, i, answered), op.at = "settle", Replied(b, op, c)
    PROVE  /\ Numbers(c, o \ {op}, i) /\ Newest(c, o \ {op}, i) /\ AnswersHeld(c, o \ {op}, i)
           /\ c.outcome = b.outcome => BridgeInv(c, o \ {op}, i, answered)
           /\ c.outcome # b.outcome =>
                BridgeInv(DispatchOn(c, o \ {op}, "RunDetail", "load").bridge,
                          DispatchOn(c, o \ {op}, "RunDetail", "load").ops, i, answered)
<1> DEFINE p == o \ {op}
<1>1. b \in Bridge /\ o \subseteq BridgeOp /\ i \in [Slots -> Issued] /\ op \in BridgeOp
  BY DEF BridgeInv, AnswersInv
<1>2. c \in Bridge /\ c.next = b.next /\ c.newest = b.newest /\ op.slot \in Slots
  BY <1>1 DEF Replied, BridgeOp
<1>3. Numbers(c, p, i)
  BY <1>2 DEF BridgeInv, AnswersInv, Numbers
<1>4. \A s \in Slots : Quiet(c, p, s) <=>
         Quiet(b, o, s) \/ (s = op.slot /\ op.req = b.newest[s])
  <2>1. \A q \in o : q.req = op.req => q = op
    BY DEF BridgeInv, AnswersInv, Numbers
  <2>2. QED
    BY <1>2, <2>1 DEF Quiet
<1>5. op.req = b.newest[op.slot] => i[op.slot].req = op.req /\ i[op.slot].out = op.out
  BY DEF BridgeInv, AnswersInv, Newest
<1>6. Newest(c, p, i)
  <2>1. \A q \in p : q.req = c.newest[q.slot] =>
          /\ q.at = "work" => i[q.slot].req < q.req
          /\ q.at = "settle" => i[q.slot].req = q.req /\ i[q.slot].out = q.out
    BY <1>2 DEF BridgeInv, AnswersInv, Newest
  <2>2. \A s \in Slots : Quiet(c, p, s) => i[s].req = c.newest[s]
    BY <1>2, <1>4, <1>5 DEF BridgeInv, AnswersInv, Newest
  <2>3. QED
    BY <2>1, <2>2 DEF Newest
<1>7. AnswersHeld(c, p, i)
  <2>1. CASE op.req # b.newest[op.slot]
    <3>1. \A s \in Slots : Quiet(c, p, s) => Quiet(b, o, s)
      BY <1>4, <2>1
    <3>2. QED
      BY <2>1, <3>1 DEF BridgeInv, AnswersInv, AnswersHeld, Replied, Slots
  <2>2. CASE op.req = b.newest[op.slot]
    <3>1. /\ Quiet(c, p, "RunDetail") /\ op.slot # "RunDetail" => Quiet(b, o, "RunDetail")
          /\ Quiet(c, p, "ArtifactExcerpt") /\ op.slot # "ArtifactExcerpt" =>
               Quiet(b, o, "ArtifactExcerpt")
          /\ Quiet(c, p, "Decision") /\ op.slot # "Decision" => Quiet(b, o, "Decision")
          /\ Quiet(c, p, "ApprovalInput") /\ op.slot # "ApprovalInput" =>
               Quiet(b, o, "ApprovalInput")
      BY <1>4 DEF Slots
    <3>2. QED
      BY <1>5, <2>2, <3>1 DEF BridgeInv, AnswersInv, AnswersHeld, Replied, Slots
  <2>3. QED
    BY <2>1, <2>2
<1>8. ASSUME c.outcome = b.outcome PROVE OneTaken(c, p, answered) /\ ReadAfter(c, p)
  <2>1. /\ \A q \in p : Taken(q) => answered /\ ~Accepted(c.outcome)
        /\ \A q, r \in p : Taken(q) /\ Taken(r) => q = r
    BY <1>8 DEF BridgeInv, AnswersInv, OneTaken, ReadAfter
  <2>2. ASSUME Accepted(c.outcome)
        PROVE  /\ answered
               /\ \A q \in p : q.slot = "RunDetail" /\ q.req = c.newest["RunDetail"] =>
                    ShowsAnswered(q.out)
    BY <1>2, <1>8, <2>2 DEF BridgeInv, AnswersInv, OneTaken, ReadAfter
  <2>3. ASSUME Accepted(c.outcome), Quiet(c, p, "RunDetail") PROVE ShowsAnswered(c.run)
    <3>1. CASE op.slot = "RunDetail" /\ op.req = b.newest["RunDetail"]
      <4>1. ShowsAnswered(op.out)
        BY <1>8, <2>3, <3>1 DEF BridgeInv, AnswersInv, OneTaken, ReadAfter
      <4>2. c.run = Heard(op.out)
        BY <3>1 DEF Replied
      <4>3. QED
        BY <4>1, <4>2, NoAnswerIs DEF ShowsAnswered, Heard
    <3>2. CASE ~(op.slot = "RunDetail" /\ op.req = b.newest["RunDetail"])
      <4>1. c.run = b.run
        BY <3>2 DEF Replied
      <4>2. Quiet(b, o, "RunDetail")
        BY <1>4, <2>3, <3>2 DEF Slots
      <4>3. QED
        BY <1>8, <2>3, <4>1, <4>2 DEF BridgeInv, AnswersInv, OneTaken, ReadAfter
    <3>3. QED
      BY <3>1, <3>2
  <2>4. QED
    BY <2>1, <2>2, <2>3 DEF OneTaken, ReadAfter
<1>9. ASSUME c.outcome # b.outcome
      PROVE  BridgeInv(DispatchOn(c, p, "RunDetail", "load").bridge,
                       DispatchOn(c, p, "RunDetail", "load").ops, i, answered)
  <2>1. op.slot = "Decision" /\ op.req = b.newest["Decision"] /\ c.outcome = op.out
    BY <1>9 DEF Replied
  <2>2. OneTaken(c, p, answered)
    BY <2>1 DEF BridgeInv, AnswersInv, OneTaken, Taken
  <2>3. AnswersInv(c, p, i, answered)
    BY <1>1, <1>2, <1>3, <1>6, <1>7, <2>2 DEF AnswersInv
  <2>4. QED
    BY <2>3, DispatchKeeps DEF Slots
<1>10. QED
  BY <1>2, <1>1, <1>3, <1>6, <1>7, <1>8, <1>9 DEF BridgeInv, AnswersInv

\* What a reply that settles makes of the bridge.
LEMMA SettledReplies ==
    ASSUME NEW b \in Bridge, NEW op \in BridgeOp, NEW answer \in BOOLEAN, NEW status \in BOOLEAN,
           answer <=> op.req = b.newest[op.slot], NEW said, NEW c,
           said = IF status THEN [b EXCEPT !.status = op.out] ELSE b,
           c = IF answer THEN AnsweredRun(said, op) ELSE said
    PROVE  Replied(b, op, c)
<1>1. /\ said \in Bridge /\ said.next = b.next /\ said.newest = b.newest /\ said.run = b.run
      /\ said.excerpt = b.excerpt /\ said.outcome = b.outcome /\ said.detail = b.detail
  BY DEF Bridge, BridgeOp
<1>2. op.slot \in Slots /\ op.out \in Answer /\ Heard(op.out) \in Answer
  BY NoAnswerIs DEF BridgeOp, Heard
<1>3. CASE ~answer
  BY <1>1, <1>3 DEF Replied
<1>4. CASE answer /\ op.slot = "Decision"
  <2>1. c = [said EXCEPT !.outcome = op.out, !.detail = NoAnswer]
    BY <1>4, Zenon DEF AnsweredRun
  <2>2. QED
    BY <1>1, <1>2, <1>4, <2>1, NoAnswerIs DEF Replied, Bridge
<1>5. CASE answer /\ op.slot = "ApprovalInput"
  <2>1. "Decision" # "ApprovalInput" /\ "RunDetail" # "ApprovalInput"
    OBVIOUS
  <2>2. c = [said EXCEPT !.detail = Heard(op.out)]
    BY <1>5, <2>1, Zenon DEF AnsweredRun, Heard
  <2>3. QED
    BY <1>1, <1>2, <1>5, <2>2 DEF Replied, Bridge
<1>6. CASE answer /\ op.slot = "RunDetail"
  <2>1. "Decision" # "RunDetail" /\ "ApprovalInput" # "RunDetail"
    OBVIOUS
  <2>2. c = [said EXCEPT !.run = Heard(op.out)]
    BY <1>6, <2>1, Zenon DEF AnsweredRun, Heard
  <2>3. QED
    BY <1>1, <1>2, <1>6, <2>2 DEF Replied, Bridge
<1>7. CASE answer /\ op.slot = "ArtifactExcerpt"
  <2>1. /\ "Decision" # "ArtifactExcerpt" /\ "ApprovalInput" # "ArtifactExcerpt"
        /\ "RunDetail" # "ArtifactExcerpt"
    OBVIOUS
  <2>2. c = [said EXCEPT !.excerpt = Heard(op.out)]
    BY <1>7, <2>1, Zenon DEF AnsweredRun, Heard
  <2>3. QED
    BY <1>1, <1>2, <1>7, <2>2 DEF Replied, Bridge
<1>8. QED
  BY <1>2, <1>3, <1>4, <1>5, <1>6, <1>7 DEF Slots

-----------------------------------------------------------------------------
\* The runs pages: the page on one run

AskState == {"none", "pending", "answered"}
IsAnswered(a) == Len(a) >= 1 /\ a[Subject] = "answered"

StoreTyped ==
    /\ runs \in Seq({"active", "ended"}) /\ asks \in Seq(AskState) /\ Len(runs) = Len(asks)
    /\ surface \in {"page", "list", "queue"}

PageInv ==
    /\ surface = "page" \/ ops # {} => Len(runs) >= 1
    /\ BridgeInv(bridge, ops, issued, IsAnswered(asks))

LEMMA AnswerStands ==
    ASSUME NEW b, NEW o, NEW i, NEW answered, NEW then, BridgeInv(b, o, i, answered),
           answered => then
    PROVE  BridgeInv(b, o, i, then)
  BY DEF BridgeInv, AnswersInv, OneTaken

\* What a step of the store can do: runs are added at the end, and an answer
\* given stays given.
StoreMoves ==
    /\ StoreTyped' /\ Len(runs') >= Len(runs)
    /\ \A r \in RunNumber : asks[r] = "answered" => asks'[r] = "answered"
    /\ \A r \in RunNumber : asks[r] # "none" => asks'[r] # "none"

LEMMA AnswersStay ==
    ASSUME StoreTyped, StoreMoves
    PROVE  IsAnswered(asks) => IsAnswered(asks')
  BY DEF StoreTyped, StoreMoves, IsAnswered, RunNumber, Subject

LEMMA StoreStands ==
    ASSUME StoreTyped, UNCHANGED <<surface, runs, asks>>
    PROVE  StoreMoves
<1>1. surface' = surface /\ runs' = runs /\ asks' = asks
  OBVIOUS
<1>2. StoreTyped'
  BY <1>1 DEF StoreTyped
<1>3. Len(runs') >= Len(runs)
  BY <1>1 DEF StoreTyped
<1>4. QED
  BY <1>1, <1>2, <1>3 DEF StoreMoves

LEMMA StoreGrows ==
    ASSUME StoreTyped, runs' = Append(runs, "active"), asks' = Append(asks, "none"),
           surface' = surface
    PROVE  StoreMoves
<1>1. /\ runs \in Seq({"active", "ended"}) /\ asks \in Seq(AskState) /\ Len(runs) = Len(asks)
      /\ Len(runs) \in Nat
  BY DEF StoreTyped
<1>2. runs' \in Seq({"active", "ended"}) /\ Len(runs') = Len(runs) + 1
  BY <1>1
<1>3. asks' \in Seq(AskState) /\ Len(asks') = Len(asks) + 1
  BY <1>1 DEF AskState
<1>4. \A r \in RunNumber : asks'[r] = asks[r]
  BY <1>1 DEF RunNumber
<1>5. StoreTyped'
  BY <1>1, <1>2, <1>3 DEF StoreTyped
<1>6. Len(runs') >= Len(runs)
  BY ONLY <1>1, <1>2
<1>7. QED
  BY <1>4, <1>5, <1>6 DEF StoreMoves

LEMMA ShownFields ==
    ASSUME NEW of \in Words, NEW saw \in Words
    PROVE  /\ Shown(of, saw) \in Answer
           /\ Shown(of, saw).kind = "ok" /\ Shown(of, saw).of = of /\ Shown(of, saw).saw = saw
  BY DEF Shown, Answer

LEMMA RefusedFields ==
    ASSUME NEW why \in Words
    PROVE  RefusedFor(why) \in Answer /\ RefusedFor(why).kind = "refused"
  BY DEF RefusedFor, Answer, Words

\* What a worker's answer has to be for the page to be right in the end.
Honest(op, out) ==
    /\ out \in Answer /\ Finish(op, out)
    /\ op.slot = "Decision" /\ Accepted(out) => IsAnswered(asks') /\ ~IsAnswered(asks)
    /\ IsAnswered(asks) /\ op.slot = "RunDetail" => ShowsAnswered(out)

LEMMA RefusesHonestly ==
    ASSUME StoreTyped, NEW op, NEW why \in Words, Refuses(op, why),
           surface' = surface
    PROVE  Honest(op, RefusedFor(why)) /\ StoreMoves
<1>1. Honest(op, RefusedFor(why))
  <2>1. RefusedFor(why) \in Answer /\ RefusedFor(why).kind = "refused"
    BY RefusedFields
  <2>2. QED
    BY <2>1 DEF Refuses, Honest, Accepted, ShowsAnswered
<1>2. QED
  BY <1>1, StoreStands DEF Refuses

LEMMA WorksHonestly ==
    ASSUME StoreTyped, PageInv, NEW op \in ops, Work(op)
    PROVE  (\E out : Honest(op, out)) /\ StoreMoves
<1>1. op \in BridgeOp /\ (op.slot = "Decision" <=> op.what # "load")
  BY DEF PageInv, BridgeInv, AnswersInv, Numbers
<1>2. Len(runs) >= 1 /\ Len(runs) = Len(asks) /\ Len(runs) \in Nat
  BY DEF PageInv, StoreTyped
<1>3. /\ asks[Subject] \in AskState /\ runs[Subject] \in {"active", "ended"}
      /\ \A r \in RunNumber : asks[r] \in AskState
      /\ Subject = 1 /\ Subject \in RunNumber
  BY <1>2 DEF StoreTyped, Subject, RunNumber
<1>4. surface' = surface
  BY DEF Work
<1>13. /\ "" \in Words /\ "answered" \in Words /\ "ended" \in Words /\ "cancel" \in Words
         /\ "retry" \in Words /\ "input" \in Words /\ "excerpt" \in Words
         /\ "approve" \in Words /\ "deny" \in Words
  BY DEF Words
<1>5. CASE decide_approval(op)
  <2>1. CASE asks[Subject] # "pending"
    BY <1>4, <1>5, <2>1, RefusesHonestly DEF decide_approval, Words
  <2>2. CASE asks[Subject] = "pending"
    <3>1. /\ asks' = [asks EXCEPT ![Subject] = "answered"] /\ runs' = runs
          /\ Finish(op, Shown(op.what, "answered")) /\ op.what \in {"approve", "deny"}
      BY <1>5, <2>2 DEF decide_approval, Refuses
    <3>2. StoreMoves
      BY <1>2, <1>3, <1>4, <2>2, <3>1 DEF StoreMoves, StoreTyped, RunNumber, AskState
    <3>3. IsAnswered(asks') /\ ~IsAnswered(asks)
      BY <1>2, <1>3, <2>2, <3>1 DEF IsAnswered, StoreTyped
    <3>4. Shown(op.what, "answered") \in Answer
      BY <1>13, <3>1, ShownFields
    <3>5. op.slot # "RunDetail"
      BY <1>1, <3>1
    <3>6. QED
      BY <3>1, <3>2, <3>3, <3>4, <3>5 DEF Honest
  <2>3. QED
    BY <2>1, <2>2
<1>6. CASE cancel_run(op)
  <2>1. CASE runs[Subject] = "ended"
    BY <1>4, <1>6, <2>1, RefusesHonestly DEF cancel_run, Words
  <2>2. CASE runs[Subject] = "active"
    <3>1. /\ runs' = [runs EXCEPT ![Subject] = "ended"]
          /\ asks' = [asks EXCEPT ![Subject] = IF @ = "pending" THEN "answered" ELSE @]
          /\ Finish(op, Shown("cancel", "ended")) /\ op.what = "cancel"
      BY <1>6, <2>2 DEF cancel_run, Refuses
    <3>2. StoreMoves
      BY <1>2, <1>3, <1>4, <2>2, <3>1 DEF StoreMoves, StoreTyped, RunNumber, AskState
    <3>3. Shown("cancel", "ended") \in Answer /\ Shown("cancel", "ended").of = "cancel"
      BY <1>13, ShownFields
    <3>4. op.slot # "RunDetail"
      BY <1>1, <3>1
    <3>5. QED
      BY <3>1, <3>2, <3>3, <3>4 DEF Honest, Accepted
  <2>3. QED
    BY <1>3, <2>1, <2>2
<1>7. CASE retry_run(op)
  <2>1. retry_blocked \in Words
    BY DEF retry_blocked, Words
  <2>2. CASE retry_blocked # ""
    BY <1>4, <1>7, <2>1, <2>2, RefusesHonestly DEF retry_run
  <2>3. CASE retry_blocked = ""
    <3>1. /\ runs' = Append(runs, "active") /\ asks' = Append(asks, "none")
          /\ Finish(op, Shown("retry", "")) /\ op.what = "retry"
      BY <1>7, <2>3 DEF retry_run, Refuses
    <3>2. StoreMoves
      BY <1>4, <3>1, StoreGrows
    <3>3. Shown("retry", "") \in Answer /\ Shown("retry", "").of = "retry"
      BY <1>13, ShownFields
    <3>4. op.slot # "RunDetail"
      BY <1>1, <3>1
    <3>5. QED
      BY <3>1, <3>2, <3>3, <3>4 DEF Honest, Accepted
  <2>4. QED
    BY <2>2, <2>3
<1>8. CASE run_detail_in(op)
  <2>1. retry_blocked \in Words /\ asks[Subject] \in Words
    BY <1>3 DEF retry_blocked, Words, AskState
  <2>2. /\ Shown(retry_blocked, asks[Subject]) \in Answer
        /\ Shown(retry_blocked, asks[Subject]).saw = asks[Subject]
    BY <2>1, ShownFields
  <2>3. /\ Finish(op, Shown(retry_blocked, asks[Subject])) /\ op.slot = "RunDetail"
        /\ runs' = runs /\ asks' = asks
    BY <1>8 DEF run_detail_in
  <2>4. Honest(op, Shown(retry_blocked, asks[Subject]))
    BY <2>2, <2>3 DEF Honest, ShowsAnswered, IsAnswered
  <2>5. QED
    BY <1>4, <2>3, <2>4, StoreStands
<1>9. CASE approval_input(op)
  <2>1. Shown("input", "") \in Answer
    BY <1>13, ShownFields
  <2>2. /\ Finish(op, Shown("input", "")) /\ op.slot = "ApprovalInput"
        /\ runs' = runs /\ asks' = asks
    BY <1>9 DEF approval_input
  <2>3. Honest(op, Shown("input", ""))
    BY <2>1, <2>2 DEF Honest
  <2>4. QED
    BY <1>4, <2>2, <2>3, StoreStands
<1>10. CASE artifact_excerpt_in(op)
  <2>1. CASE Refuses(op, "artifact_not_text")
    BY <1>4, <2>1, RefusesHonestly DEF Words
  <2>2. CASE ~Refuses(op, "artifact_not_text")
    <3>1. Shown("excerpt", "") \in Answer
      BY <1>13, ShownFields
    <3>2. /\ Finish(op, Shown("excerpt", "")) /\ op.slot = "ArtifactExcerpt"
          /\ runs' = runs /\ asks' = asks
      BY <1>10, <2>2 DEF artifact_excerpt_in
    <3>3. Honest(op, Shown("excerpt", ""))
      BY <3>1, <3>2 DEF Honest
    <3>4. QED
      BY <1>4, <3>2, <3>3, StoreStands
  <2>3. QED
    BY <2>1, <2>2
<1>11. CASE open_store_fails(op)
  BY <1>4, <1>11, RefusesHonestly DEF open_store_fails, Words
<1>12. QED
  BY <1>5, <1>6, <1>7, <1>8, <1>9, <1>10, <1>11 DEF Work

-----------------------------------------------------------------------------
\* The runs pages: the list and the queue

PageReq == [req : Nat, kind : {"replace", "append"}, cursor : Nat, at : {"read", "apply", "fail"},
            rows : Seq(Nat), more : Nat]
QueueReq == [req : Nat, at : {"read", "apply", "fail"}, rows : SUBSET Nat]

\* The requests of a model are numbered as they are made.
Ticketed(next, out) ==
    /\ \A p \in out : p.req <= next
    /\ \A p, other \in out : p.req = other.req => p = other

\* Rows without a hole; the last one is the cursor the next page begins below.
Descends(rows) == \A i \in 1..(Len(rows) - 1) : rows[i + 1] = rows[i] - 1
EndsAt(rows, cursor) == cursor # 0 => Len(rows) >= 1 /\ rows[Len(rows)] = cursor

Follows(p, l) ==
    /\ p.kind = "append" => p.cursor # 0
    /\ p.kind = "append" /\ p.req = l.next => p.cursor = l.cursor
    /\ p.at = "apply" =>
         /\ Descends(p.rows) /\ EndsAt(p.rows, p.more)
         /\ p.cursor # 0 /\ Len(p.rows) >= 1 => p.rows[1] = p.cursor - 1

ListInv(l) ==
    /\ l \in [rows : Seq(Nat), cursor : Nat, loading : BOOLEAN, next : Nat, out : SUBSET PageReq]
    /\ Ticketed(l.next, l.out) /\ Descends(l.rows) /\ EndsAt(l.rows, l.cursor)
    /\ \A p \in l.out : Follows(p, l)

\* What a listing of the queue holds was asked, and is still asked unless it was
\* answered; what it left out was answered.
Lists(q, l, a) ==
    q.at = "apply" /\ q.req = l.next =>
      /\ \A r \in q.rows : r \in 1..Len(a) /\ a[r] # "none" /\ r \notin l.gone
      /\ \A r \in l.rows \ q.rows : a[r] = "answered"

QueueInv(l, a) ==
    /\ l \in [rows : SUBSET Nat, gone : SUBSET Nat, loading : BOOLEAN, next : Nat,
              out : SUBSET QueueReq]
    /\ Ticketed(l.next, l.out)
    /\ \A r \in l.rows : r \in 1..Len(a) /\ a[r] # "none" /\ r \notin l.gone
    /\ \A r \in l.gone : r \in 1..Len(a) /\ a[r] = "answered"
    /\ \A q \in l.out : Lists(q, l, a)

LEMMA Renumbered ==
    ASSUME NEW out, NEW next \in Nat, NEW p, Ticketed(next, out), \A q \in out : q.req \in Nat,
           p.req = next + 1
    PROVE  Ticketed(next + 1, out \cup {p}) /\ \A q \in out : q.req # next + 1
<1>1. \A q \in out : q.req \in Nat /\ q.req <= next
  BY DEF Ticketed
<1>2. \A q \in out : q.req <= next + 1 /\ q.req # next + 1
  BY <1>1
<1>3. QED
  BY <1>2 DEF Ticketed

\* Replacing a request by itself read, or dropping it.
LEMMA Exchanged ==
    ASSUME NEW out, NEW next, NEW p \in out, NEW n, Ticketed(next, out), n.req = p.req
    PROVE  Ticketed(next, (out \ {p}) \cup {n}) /\ Ticketed(next, out \ {p})
  BY DEF Ticketed

LEMMA RequestKeeps ==
    ASSUME NEW l, NEW m, NEW p, ListInv(l), p \in PageReq, p.req = l.next + 1, p.at = "read",
           p.kind = "append" => p.cursor = l.cursor /\ p.cursor # 0,
           m = [l EXCEPT !.next = l.next + 1, !.loading = TRUE, !.out = l.out \cup {p}]
    PROVE  ListInv(m)
<1>1. /\ l \in [rows : Seq(Nat), cursor : Nat, loading : BOOLEAN, next : Nat, out : SUBSET PageReq]
      /\ l.next \in Nat /\ l.out \subseteq PageReq /\ \A q \in l.out : q.req \in Nat
  BY DEF ListInv, PageReq
<1>2. /\ m \in [rows : Seq(Nat), cursor : Nat, loading : BOOLEAN, next : Nat, out : SUBSET PageReq]
      /\ m.next = l.next + 1 /\ m.out = l.out \cup {p} /\ m.rows = l.rows /\ m.cursor = l.cursor
  <2>1. PICK out, next, loading : out = l.out \cup {p} /\ next = l.next + 1 /\ loading = TRUE
    OBVIOUS
  <2>2. out \subseteq PageReq /\ next \in Nat /\ loading \in BOOLEAN
    BY <1>1, <2>1
  <2>3. m = [l EXCEPT !.next = next, !.loading = loading, !.out = out]
    BY <2>1
  <2>4. QED
    BY <1>1, <2>1, <2>2, <2>3
<1>3. Ticketed(m.next, m.out) /\ \A q \in l.out : q.req # m.next
  <2>1. Ticketed(l.next, l.out)
    BY DEF ListInv
  <2>2. QED
    BY <1>1, <1>2, <2>1, Renumbered
<1>4. \A q \in m.out : Follows(q, m)
  <2>1. \A q \in l.out : Follows(q, m)
    BY <1>3 DEF ListInv, Follows
  <2>2. Follows(p, m)
    BY <1>2 DEF Follows
  <2>3. QED
    BY <1>2, <2>1, <2>2
<1>5. QED
  BY <1>2, <1>3, <1>4 DEF ListInv

\* What a page of the store's runs is.
LEMMA PageOfRuns ==
    ASSUME NEW cursor \in Nat, runs \in Seq({"active", "ended"}), PageSize \in Nat \ {0}
    PROVE  LET l == list_runs(cursor)
           IN /\ l.rows \in Seq(Nat) /\ l.next \in Nat
              /\ Descends(l.rows) /\ EndsAt(l.rows, l.next)
              /\ cursor # 0 /\ Len(l.rows) >= 1 => l.rows[1] = cursor - 1
<1> DEFINE top == IF cursor = 0 THEN Len(runs) ELSE cursor - 1
           size == IF top < PageSize THEN top ELSE PageSize
           all == [i \in 1..top |-> top + 1 - i]
           rows == SubSeq(all, 1, size)
           next == IF top > PageSize THEN all[PageSize] ELSE 0
<1>1. /\ top \in Nat /\ size \in Nat /\ size <= top
      /\ top > PageSize => size = PageSize /\ size >= 1
      /\ cursor # 0 => top = cursor - 1
  OBVIOUS
<1>2. list_runs(cursor).rows = rows /\ list_runs(cursor).next = next
  BY DEF list_runs
<1> HIDE DEF top, size
<1>3. all \in Seq(Nat) /\ Len(all) = top /\ \A i \in 1..top : all[i] = top + 1 - i
  <2>1. all \in [1..top -> Nat]
    BY <1>1
  <2>2. all \in Seq(Nat) /\ Len(all) = top
    BY <1>1, <2>1
  <2>3. QED
    BY <2>2
<1> HIDE DEF all
<1>4. rows \in Seq(Nat) /\ Len(rows) = size /\ \A i \in 1..size : rows[i] = top + 1 - i
  <2>1. rows \in Seq(Nat) /\ Len(rows) = size /\ \A i \in 1..size : rows[i] = all[i]
    BY <1>1, <1>3
  <2>2. QED
    BY <1>1, <1>3, <2>1
<1> HIDE DEF rows
<1>5. Descends(rows)
  <2>1. ASSUME NEW i \in 1..(Len(rows) - 1) PROVE rows[i + 1] = rows[i] - 1
    <3>1. i \in 1..size /\ i + 1 \in 1..size /\ i \in Nat
      BY <1>1, <1>4
    <3>2. rows[i] = top + 1 - i /\ rows[i + 1] = top + 1 - (i + 1)
      BY <1>4, <3>1
    <3>3. QED
      BY ONLY <1>1, <3>1, <3>2
  <2>2. QED
    BY <2>1 DEF Descends
<1>6. next \in Nat /\ EndsAt(rows, next)
  <2>1. CASE top > PageSize
    <3>1. PageSize \in 1..top /\ PageSize \in Nat /\ size = PageSize /\ size \in 1..size
      BY <1>1, <2>1
    <3>2. next = top + 1 - PageSize /\ rows[size] = top + 1 - size
      BY <1>3, <1>4, <2>1, <3>1
    <3>3. QED
      BY <1>1, <1>4, <2>1, <3>1, <3>2 DEF EndsAt
  <2>2. CASE ~(top > PageSize)
    BY <2>2 DEF EndsAt
  <2>3. QED
    BY <2>1, <2>2
<1>7. cursor # 0 /\ Len(rows) >= 1 => rows[1] = cursor - 1
  BY <1>1, <1>4
<1>8. QED
  BY <1>2, <1>4, <1>5, <1>6, <1>7

\* A page that is read, or whose read fails.
Begun(n) ==
    n.at = "apply" =>
      /\ Descends(n.rows) /\ EndsAt(n.rows, n.more)
      /\ n.cursor # 0 /\ Len(n.rows) >= 1 => n.rows[1] = n.cursor - 1
ReadInto(l, p, n, m) == m = [l EXCEPT !.out = (l.out \ {p}) \cup {n}]

LEMMA ReadKeeps ==
    ASSUME NEW l, NEW m, NEW p \in l.out, NEW n, ListInv(l), n \in PageReq,
           n.req = p.req, n.kind = p.kind, n.cursor = p.cursor,
           Begun(n), ReadInto(l, p, n, m)
    PROVE  ListInv(m)
<1>1. /\ l \in [rows : Seq(Nat), cursor : Nat, loading : BOOLEAN, next : Nat, out : SUBSET PageReq]
      /\ l.out \subseteq PageReq
  BY DEF ListInv
<1>2. /\ m \in [rows : Seq(Nat), cursor : Nat, loading : BOOLEAN, next : Nat, out : SUBSET PageReq]
      /\ m.next = l.next /\ m.out = (l.out \ {p}) \cup {n} /\ m.rows = l.rows /\ m.cursor = l.cursor
  <2>1. PICK out : out = (l.out \ {p}) \cup {n}
    OBVIOUS
  <2>2. out \subseteq PageReq
    BY <1>1, <2>1
  <2>3. m = [l EXCEPT !.out = out]
    BY <2>1 DEF ReadInto
  <2>4. QED
    BY <1>1, <2>1, <2>2, <2>3
<1>3. Ticketed(m.next, m.out)
  <2>1. Ticketed(l.next, l.out)
    BY DEF ListInv
  <2>2. QED
    <3>1. Ticketed(l.next, (l.out \ {p}) \cup {n})
      BY <2>1, Exchanged
    <3>2. QED
      BY ONLY <1>2, <3>1
<1>4. Follows(n, m)
  <2>1. Follows(p, l)
    BY DEF ListInv
  <2>2. QED
    BY <1>2, <2>1 DEF Follows, Begun
<1>5. \A q \in l.out : Follows(q, m)
  BY <1>2 DEF ListInv, Follows
<1>6. QED
  BY <1>2, <1>3, <1>4, <1>5 DEF ListInv

LEMMA DescendsOn ==
    ASSUME NEW rows \in Seq(Nat), NEW more \in Seq(Nat), NEW cursor \in Nat \ {0}, NEW next \in Nat,
           Descends(rows), Descends(more), EndsAt(rows, cursor), EndsAt(more, next),
           Len(more) >= 1 => more[1] = cursor - 1
    PROVE  Descends(rows \o more) /\ EndsAt(rows \o more, next)
<1>1. /\ Len(rows) \in Nat /\ Len(more) \in Nat /\ Len(rows) >= 1 /\ rows[Len(rows)] = cursor
  BY DEF EndsAt
<1>2. /\ rows \o more \in Seq(Nat) /\ Len(rows \o more) = Len(rows) + Len(more)
      /\ \A i \in 1..Len(rows) : (rows \o more)[i] = rows[i]
      /\ \A i \in 1..Len(more) : (rows \o more)[Len(rows) + i] = more[i]
  OBVIOUS
<1>3. PICK both, a, b : both = rows \o more /\ a = Len(rows) /\ b = Len(more)
  OBVIOUS
<1>4. /\ a \in Nat /\ b \in Nat /\ a >= 1 /\ Len(both) = a + b
      /\ \A i \in 1..a : both[i] = rows[i]
      /\ \A i \in 1..b : both[a + i] = more[i]
  BY <1>1, <1>2, <1>3
<1>5. \A i \in 1..b : a + i \in Nat /\ both[a + i] = more[i]
  BY <1>4
<1>6. ASSUME NEW i \in 1..(a + b - 1) PROVE both[i + 1] = both[i] - 1
  <2>1. CASE i < a
    <3>1. i \in 1..a /\ i + 1 \in 1..a /\ i \in 1..(a - 1)
      BY <1>4, <2>1
    <3>2. rows[i + 1] = rows[i] - 1
      BY <1>3, <3>1 DEF Descends
    <3>3. QED
      BY <1>4, <3>1, <3>2
  <2>2. CASE i = a
    <3>1. 1 \in 1..b /\ i \in 1..a /\ b >= 1
      BY <1>4, <2>2
    <3>2. both[a + 1] = more[1] /\ both[a] = cursor
      BY <1>1, <1>3, <1>4, <2>2, <3>1
    <3>3. QED
      BY <1>3, <2>2, <3>1, <3>2
  <2>3. CASE i > a
    <3>1. PICK k \in Nat : i = a + k
      <4>1. i - a \in Nat /\ i = a + (i - a)
        BY <1>4, <2>3
      <4>2. QED
        BY <4>1
    <3>2. k \in 1..b /\ k + 1 \in 1..b /\ k \in 1..(b - 1) /\ i + 1 = a + (k + 1)
      BY <1>4, <2>3, <3>1
    <3>3. both[a + k] = more[k] /\ both[a + (k + 1)] = more[k + 1]
      BY <1>4, <3>2
    <3>4. more[k + 1] = more[k] - 1
      BY <1>3, <3>2 DEF Descends
    <3>5. QED
      BY <3>1, <3>2, <3>3, <3>4
  <2>4. QED
    BY <1>4, <2>1, <2>2, <2>3
<1>7. Descends(both)
  BY <1>4, <1>6 DEF Descends
<1>8. EndsAt(both, next)
  <2>1. ASSUME next # 0 PROVE b >= 1 /\ both[a + b] = next
    BY <1>3, <1>4, <2>1 DEF EndsAt
  <2>2. QED
    BY <1>4, <2>1 DEF EndsAt
<1>9. QED
  BY <1>3, <1>7, <1>8

\* A page that arrives: the rows of the newest request only.
LEMMA PageKeeps ==
    ASSUME NEW l, NEW m, NEW p \in l.out, ListInv(l), p.at \in {"apply", "fail"},
           NEW loading \in BOOLEAN, NEW cursor, NEW rows,
           m = [l EXCEPT !.out = l.out \ {p}, !.loading = loading, !.cursor = cursor,
                         !.rows = rows],
           p.req # l.next => cursor = l.cursor /\ rows = l.rows,
           p.req = l.next /\ p.at = "fail" => cursor = 0 /\ rows = l.rows,
           p.req = l.next /\ p.at = "apply" =>
             cursor = p.more /\ rows = IF p.kind = "replace" THEN p.rows ELSE l.rows \o p.rows
    PROVE  ListInv(m)
<1>1. /\ l \in [rows : Seq(Nat), cursor : Nat, loading : BOOLEAN, next : Nat, out : SUBSET PageReq]
      /\ l.out \subseteq PageReq /\ p \in PageReq
  BY DEF ListInv
<1>2. /\ cursor \in Nat /\ rows \in Seq(Nat) /\ Descends(rows) /\ EndsAt(rows, cursor)
  <2>1. l.rows \in Seq(Nat) /\ l.cursor \in Nat /\ Descends(l.rows) /\ EndsAt(l.rows, l.cursor)
    BY DEF ListInv
  <2>2. CASE p.req # l.next
    BY <2>1, <2>2
  <2>3. CASE p.req = l.next /\ p.at = "fail"
    BY <2>1, <2>3 DEF EndsAt
  <2>4. CASE p.req = l.next /\ p.at = "apply"
    <3>1. /\ p.rows \in Seq(Nat) /\ p.more \in Nat /\ p.cursor \in Nat
          /\ p.kind \in {"replace", "append"} /\ Follows(p, l)
      BY <1>1 DEF ListInv, PageReq
    <3>2. Descends(p.rows) /\ EndsAt(p.rows, p.more)
      BY <2>4, <3>1 DEF Follows
    <3>3. CASE p.kind = "replace"
      BY <2>4, <3>1, <3>2, <3>3
    <3>4. CASE p.kind = "append"
      <4>1. /\ rows = l.rows \o p.rows /\ cursor = p.more
            /\ l.cursor # 0 /\ p.cursor = l.cursor
            /\ Len(p.rows) >= 1 => p.rows[1] = l.cursor - 1
        BY <2>4, <3>1, <3>4 DEF Follows
      <4>2. Descends(l.rows \o p.rows) /\ EndsAt(l.rows \o p.rows, p.more)
        BY <2>1, <3>1, <3>2, <4>1, DescendsOn
      <4>3. QED
        BY <2>1, <3>1, <4>1, <4>2
    <3>5. QED
      BY <3>1, <3>3, <3>4
  <2>5. QED
    BY <2>2, <2>3, <2>4
<1>3. /\ m \in [rows : Seq(Nat), cursor : Nat, loading : BOOLEAN, next : Nat, out : SUBSET PageReq]
      /\ m.next = l.next /\ m.out = l.out \ {p} /\ m.rows = rows /\ m.cursor = cursor
  <2>1. PICK out : out = l.out \ {p}
    OBVIOUS
  <2>2. out \subseteq PageReq
    BY <1>1, <2>1
  <2>3. m = [l EXCEPT !.out = out, !.loading = loading, !.cursor = cursor, !.rows = rows]
    BY <2>1
  <2>4. QED
    BY <1>1, <1>2, <2>1, <2>2, <2>3
<1>4. Ticketed(m.next, m.out)
  BY <1>3, Exchanged DEF ListInv
<1>5. \A q \in m.out : Follows(q, m)
  <2>1. ASSUME NEW q \in m.out PROVE Follows(q, m)
    <3>1. q \in l.out /\ Follows(q, l) /\ (q.req = p.req => q = p) /\ q # p
      BY <1>3 DEF ListInv, Ticketed
    <3>2. CASE p.req = l.next
      BY <1>3, <3>1, <3>2 DEF Follows
    <3>3. CASE p.req # l.next
      BY <1>3, <3>1, <3>3 DEF Follows
    <3>4. QED
      BY <3>2, <3>3
  <2>2. QED
    BY <2>1
<1>6. QED
  BY <1>2, <1>3, <1>4, <1>5 DEF ListInv

\* The queue is asked again.
LEMMA ListingKeeps ==
    ASSUME NEW l, NEW m, NEW a, NEW q, QueueInv(l, a), q \in QueueReq, q.req = l.next + 1,
           q.at = "read",
           m = [l EXCEPT !.next = l.next + 1, !.loading = TRUE, !.out = l.out \cup {q}]
    PROVE  QueueInv(m, a)
<1>1. /\ l \in [rows : SUBSET Nat, gone : SUBSET Nat, loading : BOOLEAN, next : Nat,
                out : SUBSET QueueReq]
      /\ l.next \in Nat /\ l.out \subseteq QueueReq /\ \A r \in l.out : r.req \in Nat
  BY DEF QueueInv, QueueReq
<1>2. /\ m \in [rows : SUBSET Nat, gone : SUBSET Nat, loading : BOOLEAN, next : Nat,
                out : SUBSET QueueReq]
      /\ m.next = l.next + 1 /\ m.out = l.out \cup {q} /\ m.rows = l.rows /\ m.gone = l.gone
  <2>1. PICK out, next, loading : out = l.out \cup {q} /\ next = l.next + 1 /\ loading = TRUE
    OBVIOUS
  <2>2. out \subseteq QueueReq /\ next \in Nat /\ loading \in BOOLEAN
    BY <1>1, <2>1
  <2>3. m = [l EXCEPT !.next = next, !.loading = loading, !.out = out]
    BY <2>1
  <2>4. QED
    BY <1>1, <2>1, <2>2, <2>3
<1>3. Ticketed(m.next, m.out) /\ \A r \in l.out : r.req # m.next
  <2>1. Ticketed(l.next, l.out)
    BY DEF QueueInv
  <2>2. QED
    BY <1>1, <1>2, <2>1, Renumbered
<1>4. \A r \in m.out : Lists(r, m, a)
  BY <1>2, <1>3 DEF Lists
<1>5. QED
  BY <1>2, <1>3, <1>4 DEF QueueInv

\* The queue is read, or cannot be.
LEMMA ListedKeeps ==
    ASSUME NEW l, NEW m, NEW a, NEW q \in l.out, NEW n, QueueInv(l, a), n \in QueueReq,
           n.req = q.req, a \in Seq(AskState),
           n.at = "apply" => n.rows = {r \in 1..Len(a) : a[r] = "pending"},
           m = [l EXCEPT !.out = (l.out \ {q}) \cup {n}]
    PROVE  QueueInv(m, a)
<1>1. /\ l \in [rows : SUBSET Nat, gone : SUBSET Nat, loading : BOOLEAN, next : Nat,
                out : SUBSET QueueReq]
      /\ l.out \subseteq QueueReq
  BY DEF QueueInv
<1>2. /\ m \in [rows : SUBSET Nat, gone : SUBSET Nat, loading : BOOLEAN, next : Nat,
                out : SUBSET QueueReq]
      /\ m.next = l.next /\ m.out = (l.out \ {q}) \cup {n} /\ m.rows = l.rows /\ m.gone = l.gone
  <2>1. PICK out : out = (l.out \ {q}) \cup {n}
    OBVIOUS
  <2>2. out \subseteq QueueReq
    BY <1>1, <2>1
  <2>3. m = [l EXCEPT !.out = out]
    BY <2>1
  <2>4. QED
    BY <1>1, <2>1, <2>2, <2>3
<1>3. Ticketed(m.next, m.out)
  BY <1>2, Exchanged DEF QueueInv
<1>4. Lists(n, m, a)
  <2>1. ASSUME n.at = "apply" PROVE Lists(n, m, a)
    <3>1. \A r \in n.rows : r \in 1..Len(a) /\ a[r] # "none" /\ r \notin m.gone
      BY <1>2, <2>1 DEF QueueInv
    <3>2. ASSUME NEW r \in m.rows \ n.rows PROVE a[r] = "answered"
      <4>1. r \in 1..Len(a) /\ a[r] # "none" /\ a[r] # "pending"
        BY <1>2, <2>1 DEF QueueInv
      <4>2. a[r] \in AskState
        BY <4>1
      <4>3. QED
        BY <4>1, <4>2 DEF AskState
    <3>3. QED
      BY <3>1, <3>2 DEF Lists
  <2>2. QED
    BY <2>1 DEF Lists
<1>5. \A r \in l.out : Lists(r, m, a)
  BY <1>2 DEF QueueInv, Lists
<1>6. QED
  BY <1>2, <1>3, <1>4, <1>5 DEF QueueInv

\* A listing that arrives: the newest one only.
LEMMA ArrivalKeeps ==
    ASSUME NEW l, NEW m, NEW a, NEW q \in l.out, QueueInv(l, a), q.at \in {"apply", "fail"},
           NEW loading \in BOOLEAN, NEW rows, NEW gone,
           m = [l EXCEPT !.out = l.out \ {q}, !.loading = loading, !.rows = rows, !.gone = gone],
           ~(q.req = l.next /\ q.at = "apply") => rows = l.rows /\ gone = l.gone,
           q.req = l.next /\ q.at = "apply" =>
             rows = q.rows /\ gone = l.gone \cup (l.rows \ q.rows)
    PROVE  QueueInv(m, a)
<1>1. /\ l \in [rows : SUBSET Nat, gone : SUBSET Nat, loading : BOOLEAN, next : Nat,
                out : SUBSET QueueReq]
      /\ l.out \subseteq QueueReq /\ q \in QueueReq
  BY DEF QueueInv
<1>2. l.rows \subseteq Nat /\ l.gone \subseteq Nat /\ q.rows \subseteq Nat
  BY <1>1 DEF QueueReq
<1>3. Lists(q, l, a)
  BY DEF QueueInv
<1>4. /\ rows \subseteq Nat /\ gone \subseteq Nat
      /\ \A r \in rows : r \in 1..Len(a) /\ a[r] # "none" /\ r \notin gone
      /\ \A r \in gone : r \in 1..Len(a) /\ a[r] = "answered"
  <2>1. CASE ~(q.req = l.next /\ q.at = "apply")
    BY <1>2, <2>1 DEF QueueInv
  <2>2. CASE q.req = l.next /\ q.at = "apply"
    BY <1>2, <1>3, <2>2 DEF QueueInv, Lists
  <2>3. QED
    BY <2>1, <2>2
<1>5. /\ m \in [rows : SUBSET Nat, gone : SUBSET Nat, loading : BOOLEAN, next : Nat,
                out : SUBSET QueueReq]
      /\ m.next = l.next /\ m.out = l.out \ {q} /\ m.rows = rows /\ m.gone = gone
  <2>1. PICK out : out = l.out \ {q}
    OBVIOUS
  <2>2. out \subseteq QueueReq
    BY <1>1, <2>1
  <2>3. m = [l EXCEPT !.out = out, !.loading = loading, !.rows = rows, !.gone = gone]
    BY <2>1
  <2>4. QED
    BY <1>1, <1>4, <2>1, <2>2, <2>3
<1>6. Ticketed(m.next, m.out)
  BY <1>5, Exchanged DEF QueueInv
<1>7. \A r \in m.out : Lists(r, m, a)
  <2>1. ASSUME NEW r \in m.out PROVE Lists(r, m, a)
    <3>1. r \in l.out /\ Lists(r, l, a) /\ r.req # q.req
      BY <1>5 DEF QueueInv, Ticketed
    <3>2. QED
      BY <1>5, <3>1 DEF Lists
  <2>2. QED
    BY <2>1
<1>8. QED
  BY <1>4, <1>5, <1>6, <1>7 DEF QueueInv

\* The store moves on under the queue.
LEMMA QueueStands ==
    ASSUME NEW l, NEW a, NEW b, QueueInv(l, a), Len(a) \in Nat, Len(b) \in Nat, Len(b) >= Len(a),
           \A r \in 1..Len(a) : a[r] = "answered" => b[r] = "answered",
           \A r \in 1..Len(a) : a[r] # "none" => b[r] # "none"
    PROVE  QueueInv(l, b)
<1>1. \A r \in 1..Len(a) : r \in 1..Len(b)
  OBVIOUS
<1>2. ASSUME NEW q \in l.out PROVE Lists(q, l, b)
  <2>1. Lists(q, l, a)
    BY DEF QueueInv
  <2>2. \A r \in l.rows : r \in 1..Len(a)
    BY DEF QueueInv
  <2>3. QED
    BY <1>1, <2>1, <2>2 DEF Lists
<1>3. QED
  BY <1>1, <1>2 DEF QueueInv

-----------------------------------------------------------------------------
\* The runs pages: every step

RunsInv == StoreTyped /\ PageInv /\ ListInv(list) /\ QueueInv(queue, asks)

\* What leaves one part of the pages alone.
LEMMA RunsCalm ==
    ASSUME RunsInv
    PROVE  /\ UNCHANGED <<surface, runs, asks>> => StoreTyped' /\ StoreMoves
           /\ UNCHANGED <<surface, runs, asks, bridge, ops, issued>> => PageInv'
           /\ UNCHANGED list => ListInv(list')
           /\ UNCHANGED queue /\ StoreMoves => QueueInv(queue', asks')
<1>1. UNCHANGED <<surface, runs, asks>> => StoreTyped' /\ StoreMoves
  BY StoreStands DEF RunsInv, StoreMoves
<1>2. UNCHANGED <<surface, runs, asks, bridge, ops, issued>> => PageInv'
  BY DEF RunsInv, PageInv
<1>3. ASSUME UNCHANGED queue, StoreMoves PROVE QueueInv(queue', asks')
  <2>1. /\ Len(asks) \in Nat /\ Len(asks') \in Nat /\ Len(asks') >= Len(asks)
        /\ RunNumber = 1..Len(asks) /\ QueueInv(queue, asks) /\ queue' = queue
    BY <1>3 DEF RunsInv, StoreTyped, StoreMoves, RunNumber
  <2>2. QueueInv(queue, asks')
    <3>1. /\ \A r \in 1..Len(asks) : asks[r] = "answered" => asks'[r] = "answered"
          /\ \A r \in 1..Len(asks) : asks[r] # "none" => asks'[r] # "none"
      BY <1>3, <2>1 DEF StoreMoves
    <3>2. QED
      BY <2>1, <3>1, QueueStands
  <2>3. QED
    BY <2>1, <2>2
<1>4. QED
  BY <1>1, <1>2, <1>3 DEF RunsInv

\* The page asks.
LEMMA AskedKeeps ==
    ASSUME RunsInv, NEW slot \in Slots,
           NEW what \in {"approve", "deny", "cancel", "retry", "load"},
           slot = "Decision" <=> what # "load", surface = "page",
           dispatch_answering(slot, what), UNCHANGED <<surface, runs, asks, issued, list, queue>>
    PROVE  RunsInv'
<1>1. BridgeInv(DispatchOn(bridge, ops, slot, what).bridge, DispatchOn(bridge, ops, slot, what).ops,
                issued, IsAnswered(asks))
  BY DispatchKeeps DEF RunsInv, PageInv, BridgeInv
<1>2. BridgeInv(bridge', ops', issued', IsAnswered(asks'))
  BY <1>1 DEF dispatch_answering
<1>3. PageInv'
  BY <1>2 DEF RunsInv, PageInv
<1>4. QED
  BY <1>3, RunsCalm DEF RunsInv

LEMMA Press_step ==
    ASSUME RunsInv, NEW what \in {"approve", "deny", "cancel", "retry"}, Press(what)
    PROVE  RunsInv'
<1>1. "Decision" \in Slots /\ what # "load"
  BY DEF Slots
<1>2. QED
  BY <1>1, AskedKeeps DEF Press

LEMMA Load_step ==
    ASSUME RunsInv, NEW slot \in Slots, Load(slot)
    PROVE  RunsInv'
<1>1. slot # "Decision"
  BY DEF Load
<1>2. QED
  BY <1>1, AskedKeeps DEF Load

LEMMA Work_step ==
    ASSUME RunsInv, NEW op \in ops, Work(op)
    PROVE  RunsInv'
<1>1. StoreTyped /\ PageInv /\ BridgeInv(bridge, ops, issued, IsAnswered(asks))
  BY DEF RunsInv, PageInv
<1>2. StoreMoves /\ (IsAnswered(asks) => IsAnswered(asks'))
  BY <1>1, WorksHonestly, AnswersStay
<1>3. PICK out : Honest(op, out)
  BY <1>1, WorksHonestly
<1>4. /\ ops' = (ops \ {op}) \cup {[op EXCEPT !.at = "settle", !.out = out]}
      /\ issued' = IF op.req > issued[op.slot].req
                   THEN [issued EXCEPT ![op.slot] = [req |-> op.req, out |-> out]] ELSE issued
      /\ out \in Answer
      /\ op.slot = "Decision" /\ Accepted(out) => IsAnswered(asks') /\ ~IsAnswered(asks)
      /\ IsAnswered(asks) /\ op.slot = "RunDetail" => ShowsAnswered(out)
  BY <1>3 DEF Honest, Finish, Done, Truth
<1>5. op.at = "work" /\ UNCHANGED <<surface, bridge, page, list, queue>>
  BY DEF Work
<1>6. BridgeInv(bridge, ops', issued', IsAnswered(asks'))
  <2>1. PICK p, j, now, then :
          p = ops' /\ j = issued' /\ now = IsAnswered(asks) /\ then = IsAnswered(asks')
    OBVIOUS
  <2>2. BridgeInv(bridge, ops, issued, now)
    BY ONLY <1>1, <2>1
  <2>3. Worked(ops, op, out, p) /\ Told(issued, op, out, j)
    BY ONLY <1>4, <2>1 DEF Worked, Told
  <2>4. /\ now => then
        /\ op.slot = "Decision" /\ Accepted(out) => then /\ ~now
        /\ now /\ op.slot = "RunDetail" => ShowsAnswered(out)
    BY ONLY <1>2, <1>4, <2>1, Zenon
  <2>5. BridgeInv(bridge, p, j, then)
    BY <1>4, <1>5, <2>2, <2>3, <2>4, WorkKeeps
  <2>6. QED
    BY ONLY <2>1, <2>5, Zenon
<1>7. PageInv'
  <2>1. Len(runs) >= 1 /\ Len(runs') >= Len(runs) /\ Len(runs) \in Nat /\ Len(runs') \in Nat
    BY <1>1, <1>2 DEF PageInv, StoreMoves, StoreTyped
  <2>2. Len(runs') >= 1
    BY ONLY <2>1
  <2>3. QED
    BY <1>5, <1>6, <2>2 DEF PageInv
<1>8. QED
  BY <1>2, <1>5, <1>7, RunsCalm DEF RunsInv, StoreMoves

LEMMA settle_step ==
    ASSUME RunsInv, NEW op \in ops, settle(op)
    PROVE  RunsInv'
<1>1. StoreTyped /\ PageInv /\ BridgeInv(bridge, ops, issued, IsAnswered(asks))
  BY DEF RunsInv, PageInv
<1>2. op \in BridgeOp /\ bridge \in Bridge /\ op.at = "settle" /\ ops # {}
  BY <1>1 DEF BridgeInv, AnswersInv, settle
<1>3. UNCHANGED <<surface, runs, asks, issued, list, queue>>
  BY DEF settle
<1>4. PICK said, c :
        /\ said = IF settlement(op).status THEN [bridge EXCEPT !.status = op.out] ELSE bridge
        /\ c = IF settlement(op).answer THEN AnsweredRun(said, op) ELSE said
  OBVIOUS
<1>5. Replied(bridge, op, c)
  <2>1. PICK answer \in BOOLEAN, status \in BOOLEAN :
          answer = settlement(op).answer /\ status = settlement(op).status
    BY DEF settlement
  <2>2. answer <=> op.req = bridge.newest[op.slot]
    BY <2>1 DEF settlement
  <2>3. /\ said = IF status THEN [bridge EXCEPT !.status = op.out] ELSE bridge
        /\ c = IF answer THEN AnsweredRun(said, op) ELSE said
    BY <1>4, <2>1
  <2>4. QED
    BY <1>2, <2>2, <2>3, SettledReplies
<1>6. /\ c.outcome # bridge.outcome =>
           /\ bridge' = DispatchOn(c, ops \ {op}, "RunDetail", "load").bridge
           /\ ops' = DispatchOn(c, ops \ {op}, "RunDetail", "load").ops
      /\ c.outcome = bridge.outcome => bridge' = c /\ ops' = ops \ {op}
  BY <1>4, Zenon DEF settle, OutcomeChanged
<1>7. BridgeInv(bridge', ops', issued, IsAnswered(asks))
  <2>1. CASE c.outcome = bridge.outcome
    <3>1. BridgeInv(c, ops \ {op}, issued, IsAnswered(asks))
      BY <1>1, <1>2, <1>5, <2>1, SettleKeeps
    <3>2. QED
      BY <1>6, <2>1, <3>1
  <2>2. CASE c.outcome # bridge.outcome
    <3>1. BridgeInv(DispatchOn(c, ops \ {op}, "RunDetail", "load").bridge,
                    DispatchOn(c, ops \ {op}, "RunDetail", "load").ops, issued, IsAnswered(asks))
      BY <1>1, <1>2, <1>5, <2>2, SettleKeeps
    <3>2. QED
      BY <1>6, <2>2, <3>1
  <2>3. QED
    BY <2>1, <2>2
<1>8. PageInv'
  BY <1>1, <1>2, <1>3, <1>7 DEF PageInv
<1>9. QED
  BY <1>3, <1>8, RunsCalm DEF RunsInv

\* A step of the list or the queue leaves the rest alone.
LEMMA ListOnly ==
    ASSUME RunsInv, UNCHANGED <<surface, runs, asks, bridge, ops, page, issued, queue>>,
           ListInv(list')
    PROVE  RunsInv'
<1>1. StoreTyped' /\ StoreMoves /\ PageInv'
  BY RunsCalm
<1>2. QED
  BY <1>1, RunsCalm DEF RunsInv

LEMMA QueueOnly ==
    ASSUME RunsInv, UNCHANGED <<surface, runs, asks, bridge, ops, page, issued, list>>,
           QueueInv(queue', asks)
    PROVE  RunsInv'
<1>1. StoreTyped' /\ PageInv' /\ ListInv(list')
  BY RunsCalm
<1>2. QED
  BY <1>1 DEF RunsInv

LEMMA EmptyRows == <<>> \in Seq(Nat) /\ Len(<<>>) = 0
  OBVIOUS

LEMMA begin_request_step ==
    ASSUME RunsInv, NEW kind \in {"replace", "append"}, NEW cursor \in Nat,
           begin_request(kind, cursor), kind = "append" => cursor = list.cursor /\ cursor # 0
    PROVE  ListInv(list')
<1>1. ListInv(list) /\ list.next \in Nat
  BY DEF RunsInv, ListInv
<1>2. PICK p : p = [req |-> list.next + 1, kind |-> kind, cursor |-> cursor, at |-> "read",
                    rows |-> <<>>, more |-> 0]
  OBVIOUS
<1>3. /\ p \in PageReq /\ p.req = list.next + 1 /\ p.kind = kind /\ p.cursor = cursor
      /\ p.at = "read"
  BY <1>1, <1>2, EmptyRows DEF PageReq
<1>4. list' = [list EXCEPT !.next = list.next + 1, !.loading = TRUE, !.out = list.out \cup {p}]
  BY <1>2 DEF begin_request
<1>5. QED
  BY <1>1, <1>3, <1>4, RequestKeeps

LEMMA load_page_step ==
    ASSUME RunsInv, RunsAssumption, NEW p \in list.out, load_page(p)
    PROVE  ListInv(list')
<1>1. ListInv(list) /\ p \in PageReq
  BY DEF RunsInv, ListInv
<1>2. PICK l : l = list_runs(p.cursor)
  OBVIOUS
<1>3. /\ l.rows \in Seq(Nat) /\ l.next \in Nat /\ Descends(l.rows) /\ EndsAt(l.rows, l.next)
      /\ p.cursor # 0 /\ Len(l.rows) >= 1 => l.rows[1] = p.cursor - 1
  BY <1>1, <1>2, PageOfRuns DEF RunsInv, StoreTyped, RunsAssumption, PageReq
<1>4. CASE list' = [list EXCEPT !.out = (list.out \ {p}) \cup
                {[p EXCEPT !.at = "apply", !.rows = l.rows, !.more = l.next]}]
  <2>1. PICK n : n = [p EXCEPT !.at = "apply", !.rows = l.rows, !.more = l.next]
    OBVIOUS
  <2>2. /\ n \in PageReq /\ n.req = p.req /\ n.kind = p.kind /\ n.cursor = p.cursor
        /\ n.rows = l.rows /\ n.more = l.next
    BY <1>1, <1>3, <2>1 DEF PageReq
  <2>3. list' = [list EXCEPT !.out = (list.out \ {p}) \cup {n}]
    BY <1>4, <2>1
  <2>4. PICK m : m = list'
    OBVIOUS
  <2>5. ListInv(m)
    <3>1. Begun(n) /\ ReadInto(list, p, n, m)
      BY <1>3, <2>2, <2>3, <2>4 DEF Begun, ReadInto
    <3>2. QED
      BY <1>1, <2>2, <3>1, ReadKeeps
  <2>6. QED
    BY ONLY <2>4, <2>5
<1>5. CASE list' = [list EXCEPT !.out = (list.out \ {p}) \cup {[p EXCEPT !.at = "fail"]}]
  <2>1. PICK n : n = [p EXCEPT !.at = "fail"]
    OBVIOUS
  <2>2. /\ n \in PageReq /\ n.req = p.req /\ n.kind = p.kind /\ n.cursor = p.cursor
        /\ n.at = "fail"
    BY <1>1, <2>1 DEF PageReq
  <2>3. list' = [list EXCEPT !.out = (list.out \ {p}) \cup {n}]
    BY <1>5, <2>1
  <2>4. PICK m : m = list'
    OBVIOUS
  <2>5. ListInv(m)
    <3>1. Begun(n) /\ ReadInto(list, p, n, m)
      BY <2>2, <2>3, <2>4 DEF Begun, ReadInto
    <3>2. QED
      BY <1>1, <2>2, <3>1, ReadKeeps
  <2>6. QED
    BY ONLY <2>4, <2>5
<1>6. QED
  BY <1>2, <1>4, <1>5 DEF load_page

LEMMA ApplyPage_step ==
    ASSUME RunsInv, NEW p \in list.out, ApplyPage(p)
    PROVE  ListInv(list')
<1>1. /\ ListInv(list) /\ p \in PageReq /\ p.at \in {"apply", "fail"}
      /\ list \in [rows : Seq(Nat), cursor : Nat, loading : BOOLEAN, next : Nat,
                   out : SUBSET PageReq]
  BY DEF RunsInv, ListInv, ApplyPage
<1>2. PICK l : l = [list EXCEPT !.out = list.out \ {p}]
  OBVIOUS
<1>3. /\ l.rows = list.rows /\ l.cursor = list.cursor /\ l.loading = list.loading
      /\ list.loading \in BOOLEAN
  BY <1>1, <1>2
<1>4. CASE p.req # list.next
  <2>1. list' = l
    BY <1>2, <1>4 DEF ApplyPage, IsNewest
  <2>2. list' = [list EXCEPT !.out = list.out \ {p}, !.loading = list.loading,
                             !.cursor = list.cursor, !.rows = list.rows]
    BY <1>1, <1>2, <2>1
  <2>3. QED
    BY <1>1, <1>3, <1>4, <2>2, PageKeeps
<1>5. CASE p.req = list.next /\ p.at = "fail"
  <2>1. list' = [l EXCEPT !.loading = FALSE, !.cursor = 0]
    BY <1>2, <1>5 DEF ApplyPage, IsNewest
  <2>2. list' = [list EXCEPT !.out = list.out \ {p}, !.loading = FALSE, !.cursor = 0,
                             !.rows = list.rows]
    BY <1>1, <1>2, <2>1
  <2>3. FALSE \in BOOLEAN
    OBVIOUS
  <2>4. QED
    BY <1>1, <1>5, <2>2, <2>3, PageKeeps
<1>6. CASE p.req = list.next /\ p.at = "apply"
  <2>1. PICK rows : rows = IF p.kind = "replace" THEN p.rows ELSE list.rows \o p.rows
    OBVIOUS
  <2>2. list' = [l EXCEPT !.loading = FALSE, !.cursor = p.more, !.rows = rows]
    BY <1>2, <1>3, <1>6, <2>1 DEF ApplyPage, IsNewest
  <2>3. list' = [list EXCEPT !.out = list.out \ {p}, !.loading = FALSE, !.cursor = p.more,
                             !.rows = rows]
    BY <1>1, <1>2, <2>2
  <2>4. FALSE \in BOOLEAN
    OBVIOUS
  <2>5. QED
    BY <1>1, <1>6, <2>1, <2>3, <2>4, PageKeeps
<1>7. QED
  BY <1>1, <1>4, <1>5, <1>6

LEMMA refresh_queue_step ==
    ASSUME RunsInv, refresh_queue
    PROVE  QueueInv(queue', asks)
<1>1. QueueInv(queue, asks) /\ queue.next \in Nat
  BY DEF RunsInv, QueueInv
<1>2. PICK q : q = [req |-> queue.next + 1, at |-> "read", rows |-> {}]
  OBVIOUS
<1>3. q \in QueueReq /\ q.req = queue.next + 1 /\ q.at = "read"
  BY <1>1, <1>2 DEF QueueReq
<1>4. queue' = [queue EXCEPT !.next = queue.next + 1, !.loading = TRUE, !.out = queue.out \cup {q}]
  BY <1>2 DEF refresh_queue
<1>5. QED
  BY <1>1, <1>3, <1>4, ListingKeeps

LEMMA load_pending_step ==
    ASSUME RunsInv, NEW q \in queue.out, load_pending(q)
    PROVE  QueueInv(queue', asks)
<1>1. QueueInv(queue, asks) /\ q \in QueueReq /\ asks \in Seq(AskState) /\ RunNumber = 1..Len(asks)
  BY DEF RunsInv, QueueInv, StoreTyped, RunNumber
<1>2. PICK pending : pending = {r \in 1..Len(asks) : asks[r] = "pending"}
  OBVIOUS
<1>3. pending \subseteq Nat
  BY <1>1, <1>2
<1>4. CASE queue' = [queue EXCEPT !.out = (queue.out \ {q}) \cup
                {[q EXCEPT !.at = "apply", !.rows = pending]}]
  <2>1. PICK n : n = [q EXCEPT !.at = "apply", !.rows = pending]
    OBVIOUS
  <2>2. n \in QueueReq /\ n.req = q.req /\ n.rows = pending
    BY <1>1, <1>3, <2>1 DEF QueueReq
  <2>3. queue' = [queue EXCEPT !.out = (queue.out \ {q}) \cup {n}]
    BY <1>4, <2>1
  <2>4. QED
    BY <1>1, <1>2, <2>2, <2>3, ListedKeeps
<1>5. CASE queue' = [queue EXCEPT !.out = (queue.out \ {q}) \cup {[q EXCEPT !.at = "fail"]}]
  <2>1. PICK n : n = [q EXCEPT !.at = "fail"]
    OBVIOUS
  <2>2. n \in QueueReq /\ n.req = q.req /\ n.at = "fail"
    BY <1>1, <2>1 DEF QueueReq
  <2>3. queue' = [queue EXCEPT !.out = (queue.out \ {q}) \cup {n}]
    BY <1>5, <2>1
  <2>4. QED
    BY <1>1, <2>2, <2>3, ListedKeeps
<1>6. QED
  <2>1. pending = {r \in RunNumber : asks[r] = "pending"}
    BY <1>1, <1>2
  <2>2. QED
    BY <1>4, <1>5, <2>1 DEF load_pending

LEMMA apply_queue_step ==
    ASSUME RunsInv, NEW q \in queue.out, apply_queue(q)
    PROVE  QueueInv(queue', asks)
<1>1. /\ QueueInv(queue, asks) /\ q \in QueueReq /\ q.at \in {"apply", "fail"}
      /\ queue \in [rows : SUBSET Nat, gone : SUBSET Nat, loading : BOOLEAN, next : Nat,
                    out : SUBSET QueueReq]
  BY DEF RunsInv, QueueInv, apply_queue
<1>2. PICK l : l = [queue EXCEPT !.out = queue.out \ {q}]
  OBVIOUS
<1>3. queue.loading \in BOOLEAN /\ FALSE \in BOOLEAN
  BY <1>1
<1>4. CASE q.req # queue.next
  <2>1. queue' = l
    BY <1>2, <1>4 DEF apply_queue, QueueNewest
  <2>2. queue' = [queue EXCEPT !.out = queue.out \ {q}, !.loading = queue.loading,
                               !.rows = queue.rows, !.gone = queue.gone]
    BY <1>1, <1>2, <2>1
  <2>3. QED
    BY <1>1, <1>3, <1>4, <2>2, ArrivalKeeps
<1>5. CASE q.req = queue.next /\ q.at = "fail"
  <2>1. queue' = [l EXCEPT !.loading = FALSE]
    BY <1>2, <1>5 DEF apply_queue, QueueNewest
  <2>2. queue' = [queue EXCEPT !.out = queue.out \ {q}, !.loading = FALSE,
                               !.rows = queue.rows, !.gone = queue.gone]
    BY <1>1, <1>2, <2>1
  <2>3. QED
    BY <1>1, <1>3, <1>5, <2>2, ArrivalKeeps
<1>6. CASE q.req = queue.next /\ q.at = "apply"
  <2>1. PICK gone : gone = queue.gone \cup (queue.rows \ q.rows)
    OBVIOUS
  <2>2. queue' = [l EXCEPT !.loading = FALSE, !.rows = q.rows, !.gone = gone]
    BY <1>2, <1>6, <2>1 DEF apply_queue, QueueNewest
  <2>3. queue' = [queue EXCEPT !.out = queue.out \ {q}, !.loading = FALSE, !.rows = q.rows,
                               !.gone = gone]
    BY <1>1, <1>2, <2>2
  <2>4. QED
    BY <1>1, <1>3, <1>6, <2>1, <2>3, ArrivalKeeps
<1>7. QED
  BY <1>1, <1>4, <1>5, <1>6

LEMMA Elsewhere_step ==
    ASSUME RunsInv, Elsewhere
    PROVE  RunsInv'
<1>1. StoreTyped /\ UNCHANGED <<surface, bridge, ops, page, issued, list, queue>>
  BY DEF RunsInv, Elsewhere
<1>2. StoreMoves
  <2>1. /\ runs \in Seq({"active", "ended"}) /\ asks \in Seq(AskState) /\ Len(runs) = Len(asks)
        /\ Len(runs) \in Nat /\ surface' = surface
    BY <1>1 DEF StoreTyped
  <2>2. ASSUME NEW r \in RunNumber, asks[r] \in {"none", "pending"},
               NEW to \in {"pending", "answered"}, asks' = [asks EXCEPT ![r] = to], runs' = runs
        PROVE  StoreMoves
    BY <1>1, <2>1, <2>2 DEF StoreMoves, StoreTyped, RunNumber, AskState
  <2>3. ASSUME NEW r \in RunNumber, runs' = [runs EXCEPT ![r] = "ended"], asks' = asks
        PROVE  StoreMoves
    BY <1>1, <2>1, <2>3 DEF StoreMoves, StoreTyped, RunNumber, AskState
  <2>4. CASE runs' = Append(runs, "active") /\ asks' = Append(asks, "none")
    BY <1>1, <2>4, StoreGrows
  <2>5. QED
    BY <2>2, <2>3, <2>4 DEF Elsewhere
<1>3. PageInv'
  <2>1. BridgeInv(bridge', ops', issued', IsAnswered(asks'))
    <3>1. IsAnswered(asks) => IsAnswered(asks')
      BY <1>1, <1>2, AnswersStay
    <3>2. BridgeInv(bridge, ops, issued, IsAnswered(asks'))
      BY <3>1, AnswerStands DEF RunsInv, PageInv
    <3>3. QED
      BY <1>1, <3>2
  <2>2. Len(runs) \in Nat /\ Len(runs') \in Nat /\ Len(runs') >= Len(runs)
    BY <1>1, <1>2 DEF StoreTyped, StoreMoves
  <2>3. surface' = "page" \/ ops' # {} => Len(runs') >= 1
    BY <1>1, <2>2 DEF RunsInv, PageInv
  <2>4. QED
    BY <2>1, <2>3 DEF PageInv
<1>4. QED
  BY <1>1, <1>2, <1>3, RunsCalm DEF RunsInv, StoreMoves

LEMMA RunsStart == ASSUME RunsAssumption, RunsInit PROVE RunsInv
<1>1. PICK size \in Nat : /\ size = IF surface = "list" THEN MaxRuns - 1 ELSE 1
                          /\ surface = "page" => size >= 1
  <2>1. (IF surface = "list" THEN MaxRuns - 1 ELSE 1) \in Nat
    BY DEF RunsAssumption
  <2>2. QED
    BY <2>1
<1>2. /\ runs = [r \in 1..size |-> "active"]
      /\ asks = [r \in DOMAIN runs |-> IF r = 1 THEN "pending" ELSE "none"]
  BY <1>1 DEF RunsInit
<1>3. runs \in Seq({"active", "ended"}) /\ Len(runs) = size /\ DOMAIN runs = 1..size
  BY <1>2
<1>4. asks \in Seq(AskState) /\ Len(asks) = size
  <2>1. asks \in [1..size -> AskState]
    BY <1>2, <1>3 DEF AskState
  <2>2. QED
    BY <2>1
<1>5. StoreTyped
  BY <1>3, <1>4 DEF StoreTyped, RunsInit, RunsAssumption
<1>6. PageInv
  <2>1. PICK newest, was : newest = [s \in Slots |-> 0] /\ was = [req |-> 0, out |-> NoAnswer]
    OBVIOUS
  <2>2. /\ bridge = [next |-> 0, newest |-> newest, status |-> NoAnswer, detail |-> NoAnswer,
                     run |-> NoAnswer, excerpt |-> NoAnswer, outcome |-> NoAnswer]
        /\ ops = {} /\ issued = [s \in Slots |-> was]
    BY <2>1 DEF RunsInit
  <2>3. /\ newest \in [Slots -> Nat] /\ \A s \in Slots : newest[s] = 0
        /\ was \in Issued /\ was.req = 0 /\ was.out = NoAnswer
        /\ issued \in [Slots -> Issued] /\ \A s \in Slots : issued[s] = was
    BY <2>1, <2>2, NoAnswerIs DEF Issued
  <2>4. /\ bridge \in Bridge /\ bridge.next = 0 /\ bridge.newest = newest
        /\ bridge.detail = NoAnswer /\ bridge.run = NoAnswer /\ bridge.excerpt = NoAnswer
        /\ bridge.outcome = NoAnswer
    BY <2>2, <2>3, NoAnswerIs DEF Bridge
  <2>5. Numbers(bridge, ops, issued) /\ Newest(bridge, ops, issued)
    BY <2>2, <2>3, <2>4 DEF Numbers, Newest
  <2>6. AnswersHeld(bridge, ops, issued)
    BY <2>2, <2>3, <2>4, NoAnswerIs DEF AnswersHeld, Heard, Slots
  <2>7. ~Accepted(bridge.outcome)
    BY <2>4, NoAnswerIs DEF Accepted
  <2>8. OneTaken(bridge, ops, IsAnswered(asks)) /\ ReadAfter(bridge, ops)
    BY <2>2, <2>7 DEF OneTaken, ReadAfter
  <2>9. QED
    BY <1>1, <1>3, <2>2, <2>3, <2>4, <2>5, <2>6, <2>8 DEF PageInv, BridgeInv, AnswersInv
<1>7. ListInv(list)
  <2>1. list = [rows |-> <<>>, cursor |-> 0, loading |-> FALSE, next |-> 0, out |-> {}]
    BY DEF RunsInit
  <2>2. QED
    BY <2>1, EmptyRows DEF ListInv, Ticketed, Descends, EndsAt
<1>8. QueueInv(queue, asks)
  <2>1. queue = [rows |-> {}, gone |-> {}, loading |-> FALSE, next |-> 0, out |-> {}]
    BY DEF RunsInit
  <2>2. QED
    BY <2>1 DEF QueueInv, Ticketed
<1>9. QED
  BY <1>5, <1>6, <1>7, <1>8 DEF RunsInv

LEMMA RunsStep == ASSUME RunsAssumption, RunsInv, [RunsNext]_runsVars PROVE RunsInv'
<1>1. CASE UNCHANGED runsVars
  BY <1>1, ListOnly DEF runsVars, RunsInv
<1>2. ASSUME NEW what \in {"approve", "deny", "cancel", "retry"}, Press(what) PROVE RunsInv'
  BY <1>2, Press_step
<1>3. ASSUME NEW slot \in Slots, Load(slot) PROVE RunsInv'
  BY <1>3, Load_step
<1>4. ASSUME NEW op \in ops, Work(op) PROVE RunsInv'
  BY <1>4, Work_step
<1>5. ASSUME NEW op \in ops, settle(op) PROVE RunsInv'
  BY <1>5, settle_step
<1>6. CASE refresh_list
  <2>1. ListInv(list')
    BY <1>6, begin_request_step DEF refresh_list
  <2>2. QED
    BY <1>6, <2>1, ListOnly DEF refresh_list
<1>7. CASE load_more
  <2>1. list.cursor \in Nat /\ list.cursor # 0
    BY <1>7 DEF RunsInv, ListInv, load_more
  <2>2. ListInv(list')
    BY <1>7, <2>1, begin_request_step DEF load_more
  <2>3. QED
    BY <1>7, <2>2, ListOnly DEF load_more
<1>8. ASSUME NEW p \in list.out, load_page(p) PROVE RunsInv'
  BY <1>8, load_page_step, ListOnly DEF load_page
<1>9. ASSUME NEW p \in list.out, ApplyPage(p) PROVE RunsInv'
  BY <1>9, ApplyPage_step, ListOnly DEF ApplyPage
<1>10. CASE refresh_queue
  BY <1>10, refresh_queue_step, QueueOnly DEF refresh_queue
<1>11. ASSUME NEW q \in queue.out, load_pending(q) PROVE RunsInv'
  BY <1>11, load_pending_step, QueueOnly DEF load_pending
<1>12. ASSUME NEW q \in queue.out, apply_queue(q) PROVE RunsInv'
  BY <1>12, apply_queue_step, QueueOnly DEF apply_queue
<1>13. CASE Elsewhere
  BY <1>13, Elsewhere_step
<1>14. QED
  BY <1>1, <1>2, <1>3, <1>4, <1>5, <1>6, <1>7, <1>8, <1>9, <1>10, <1>11, <1>12, <1>13 DEF RunsNext

\* The runs pages of the window: once nothing is outstanding every answer shown
\* is the answer to the newest question of its kind, an accepted decision is
\* shown as answered, the run list has no hole and the queue brings back no
\* request that was answered; however many runs, operations and pages there are,
\* and in whatever order their replies come.
THEOREM RunPagesAgree == RunsSpec => []RunPagesTrue
<1>1. RunsInit => RunsInv
  BY RunsStart, RunsAssumption
<1>2. RunsInv /\ [RunsNext]_runsVars => RunsInv'
  BY RunsStep, RunsAssumption
<1>3. RunsInv => RunPagesTrue
  <2>1. SUFFICES ASSUME RunsInv PROVE RunPagesTrue
    OBVIOUS
  <2>2. BridgeInv(bridge, ops, issued, IsAnswered(asks))
    BY <2>1 DEF RunsInv, PageInv
  <2>3. ops = {} => \A slot \in Slots : Quiet(bridge, ops, slot)
    BY DEF Quiet
  <2>4. AnswersNewest
    BY <2>2, <2>3 DEF BridgeInv, AnswersInv, AnswersHeld, AnswersNewest, Said, Heard, Slots
  <2>5. DecisionShown
    BY <2>2, <2>3 DEF BridgeInv, ReadAfter, DecisionShown, Accepted, ShowsAnswered, Slots
  <2>6. ListContiguous
    BY <2>1 DEF RunsInv, ListInv, Descends, ListContiguous
  <2>7. QueueForward
    BY <2>1 DEF RunsInv, QueueInv, QueueForward
  <2>8. QED
    BY <2>4, <2>5, <2>6, <2>7 DEF RunPagesTrue
<1>4. QED
  BY <1>1, <1>2, <1>3, PTL DEF RunsSpec

-----------------------------------------------------------------------------
\* The panels of the shell: the inductive invariant

\* The panels whose replies are numbered, and the reads of a repository's state.
Spinning == Loads \cup Reviews
TreeReads == TreeWrites \cup {"status"}

PanelRow == [of : Project \cup {None}, loading : BOOLEAN, ver : Nat]
ScopeName == {Scope[p] : p \in Project} \cup Project \cup {None}
JobRecord == [kind : Kinds, p : Project \cup {None}, scope : ScopeName,
              by : Project \cup {None}, listed : BOOLEAN, cur : BOOLEAN, ran : BOOLEAN,
              ok : BOOLEAN, seen : [Project -> Nat]]
UiRecord == [opened : Project \cup {None}, busy : BOOLEAN, known : BOOLEAN,
             panel : [Panels -> PanelRow], rows : [Project -> Nat], work : SUBSET JobRecord,
             starts : Nat]

\* A job that reads or writes the working tree is registered under the domain
\* of its project, so that no status read overlaps a write of the same project.
Registered(w) ==
    /\ w.kind # "catalog" => w.p \in Project
    /\ w.kind \in TreeReads => w.listed /\ w.scope = Scope[w.p]
    /\ w.kind = "checks" => w.listed
Apart(u) ==
    \A w, x \in u.work : w.kind = "status" /\ x.kind \in TreeWrites => w.p # x.p

\* A status read has seen what the shell was told of its project, and a write
\* has seen no more than there is; l is what has landed, t what there is.
SeenEnough(u, l, t) ==
    \A w \in u.work :
      /\ w.kind = "status" /\ w.ran /\ w.ok => l[w.p] <= w.seen[w.p]
      /\ w.kind \in TreeWrites => \A q \in Project : w.seen[q] <= t[q]

\* A reload of the catalog that will be shown has seen all that has landed.
CatalogFresh(u, l) ==
    \A w \in u.work :
      w.kind = "catalog" /\ w.cur /\ w.ran /\ w.ok => \A q \in Project : l[q] <= w.seen[q]

\* The lists of branches and worktrees never spin; the checks panel, which a
\* change of project may leave spinning, waits for every reply about it.
SpinsKnown(u) ==
    /\ ~u.panel["branches"].loading /\ ~u.panel["worktrees"].loading
    /\ u.panel["checks"].loading =>
         /\ "checks" \in menu
         /\ \A w \in u.work : w.kind = "checks" /\ w.p = u.panel["checks"].of => w.cur

JobsTrue(u, l, t) ==
    /\ u \in UiRecord
    /\ \A w \in u.work : Registered(w)
    /\ Apart(u) /\ SeenEnough(u, l, t)
JobsInv(u, l, t) == JobsTrue(u, l, t) /\ SpinsKnown(u)

\* A spinner of panel k has its reply.
Spins(u, k) ==
    (u.opened # None /\ u.panel[k].of = u.opened /\ u.panel[k].loading)
      => \E w \in u.work : w.kind = k /\ w.p = u.opened /\ w.cur

Versions(l, t) ==
    /\ l \in [Project -> Nat] /\ t \in [Project -> Nat]
    /\ \A q \in Project : l[q] <= t[q]

PanelsInv ==
    /\ JobsInv(ui, landed.tree, world.tree) /\ CatalogFresh(ui, landed.tree)
    /\ \A k \in Spinning : Spins(ui, k)
    /\ Versions(landed.tree, world.tree)
    /\ world = [tree |-> world.tree, checks |-> world.checks]
    /\ landed = [tree |-> landed.tree, checks |-> landed.checks]
    /\ world.checks \in [Project -> Nat]
    /\ menu \subseteq Kinds

-----------------------------------------------------------------------------
\* What the pieces of the handlers do to the record

Lowered(w, x, k) ==
    /\ x.kind = w.kind /\ x.p = w.p /\ x.scope = w.scope /\ x.listed = w.listed
    /\ x.ran = w.ran /\ x.ok = w.ok /\ x.seen = w.seen
    /\ x.cur <=> (w.cur /\ w.kind # k)
SameBut(u, v) == v.opened = u.opened /\ v.known = u.known /\ v.rows = u.rows

RetiredFrom(u, k, v) ==
    /\ v \in UiRecord /\ SameBut(u, v) /\ v.panel = u.panel
    /\ \A x \in v.work : \E w \in u.work : Lowered(w, x, k)
    /\ \A w \in u.work : w.kind # k => w \in v.work

\* Retiring a class of requests takes their turn from the replies in flight.
LEMMA RetireIs ==
    ASSUME NEW u \in UiRecord, NEW k
    PROVE  RetiredFrom(u, k, Retire(u, k))
<1> DEFINE down(w) == [w EXCEPT !.cur = @ /\ w.kind # k]
           v == Retire(u, k)
<1>1. v = [u EXCEPT !.work = {down(w) : w \in u.work}]
  BY DEF Retire
<1>2. \A w \in JobRecord :
        /\ down(w) = [kind |-> w.kind, p |-> w.p, scope |-> w.scope, by |-> w.by,
                      listed |-> w.listed, cur |-> (w.cur /\ w.kind # k), ran |-> w.ran,
                      ok |-> w.ok, seen |-> w.seen]
        /\ w = [kind |-> w.kind, p |-> w.p, scope |-> w.scope, by |-> w.by,
                listed |-> w.listed, cur |-> w.cur, ran |-> w.ran, ok |-> w.ok, seen |-> w.seen]
  BY DEF JobRecord
<1>3. \A w \in JobRecord : down(w) \in JobRecord /\ Lowered(w, down(w), k)
  <2>1. TAKE w \in JobRecord
  <2>2. PICK x : x = down(w)
    OBVIOUS
  <2>3. (w.cur /\ w.kind # k) \in BOOLEAN
    OBVIOUS
  <2>4. x = [kind |-> w.kind, p |-> w.p, scope |-> w.scope, by |-> w.by,
             listed |-> w.listed, cur |-> (w.cur /\ w.kind # k), ran |-> w.ran,
             ok |-> w.ok, seen |-> w.seen]
    BY <1>2, <2>2
  <2>5. x \in JobRecord
    BY <2>4, <2>3 DEF JobRecord
  <2>6. Lowered(w, x, k)
    BY <2>4 DEF Lowered
  <2>7. QED
    BY <2>2, <2>5, <2>6
<1>4. \A w \in JobRecord : w.kind # k => down(w) = w
  <2>1. TAKE w \in JobRecord
  <2>2. HAVE w.kind # k
  <2>3. (w.cur /\ w.kind # k) = w.cur
    BY <2>2 DEF JobRecord
  <2>4. QED
    BY <1>2, <2>3
<1>5. u.work \subseteq JobRecord
  BY DEF UiRecord
<1> HIDE DEF down
<1>6. {down(w) : w \in u.work} \subseteq JobRecord
  BY <1>3, <1>5
<1>7. v \in UiRecord /\ SameBut(u, v) /\ v.panel = u.panel
        /\ v.work = {down(w) : w \in u.work}
  BY <1>1, <1>6 DEF UiRecord, SameBut
<1>8. \A x \in v.work : \E w \in u.work : Lowered(w, x, k)
  BY <1>7, <1>3, <1>5
<1>9. \A w \in u.work : w.kind # k => w \in v.work
  <2>1. TAKE w \in u.work
  <2>2. HAVE w.kind # k
  <2>3. down(w) = w
    BY <1>4, <1>5, <2>2
  <2>4. QED
    BY <1>7, <2>3
<1>10. QED
  BY <1>7, <1>8, <1>9 DEF RetiredFrom

\* Showing a row changes one panel.
LEMMA ShowIs ==
    ASSUME NEW u \in UiRecord, NEW k \in Panels, NEW row \in PanelRow
    PROVE  LET v == Show(u, k, row) IN
           /\ v \in UiRecord /\ SameBut(u, v) /\ v.work = u.work
           /\ v.panel[k] = row /\ \A j \in Panels : j # k => v.panel[j] = u.panel[j]
<1> DEFINE v == Show(u, k, row)
<1>1. v = [u EXCEPT !.panel = [u.panel EXCEPT ![k] = row]]
  BY DEF Show, UiRecord
<1>2. u.panel \in [Panels -> PanelRow]
  BY DEF UiRecord
<1>3. [u.panel EXCEPT ![k] = row] \in [Panels -> PanelRow]
  BY <1>2
<1>4. v \in UiRecord /\ SameBut(u, v) /\ v.work = u.work
        /\ v.panel = [u.panel EXCEPT ![k] = row]
  BY <1>1, <1>3 DEF UiRecord, SameBut
<1>5. QED
  BY <1>4, <1>2

LEMMA SpawnIs ==
    ASSUME NEW u \in UiRecord, NEW n \in JobRecord
    PROVE  LET v == Spawn(u, n) IN
           /\ v \in UiRecord /\ SameBut(u, v) /\ v.work = u.work \cup {n} /\ v.panel = u.panel
<1>1. u.work \cup {n} \subseteq JobRecord
  BY DEF UiRecord
<1>2. QED
  BY <1>1 DEF Spawn, UiRecord, SameBut

LEMMA FinishIs ==
    ASSUME NEW u \in UiRecord, NEW w
    PROVE  LET v == finish_job(u, w) IN
           /\ v \in UiRecord /\ SameBut(u, v) /\ v.work = u.work \ {w} /\ v.panel = u.panel
BY DEF finish_job, UiRecord, SameBut

LEMMA BlankIs == Blank \in [Project -> Nat]
BY DEF Blank

\* A job is started under the domain of its project.
LEMMA JobScopeIs ==
    ASSUME NEW u, NEW p \in Project
    PROVE  JobScope(u, p) \in ScopeName /\ (u.opened = p => JobScope(u, p) = Scope[p])
BY DEF JobScope, ScopeName

-----------------------------------------------------------------------------
\* What every piece of a handler keeps

\* A panel is only ever set to what it shows of the open project, or emptied.
Stays(u, v) ==
    /\ v.opened = u.opened /\ v.rows = u.rows /\ v.panel["git"] = u.panel["git"]
    /\ \A k \in Panels \ {"worktrees"} :
         v.panel[k] # u.panel[k] /\ v.panel[k].of # None => v.panel[k].of = v.opened
Keeps(u, v, l, t) ==
    /\ JobsInv(v, l, t)
    /\ CatalogFresh(u, l) => CatalogFresh(v, l)
    /\ \A k \in Spinning : Spins(u, k) => Spins(v, k)
    /\ Stays(u, v)

LEMMA KeepsItself ==
    ASSUME NEW u, NEW l, NEW t, JobsInv(u, l, t)
    PROVE  Keeps(u, u, l, t)
BY DEF Keeps, Stays

LEMMA KeepsOn ==
    ASSUME NEW u, NEW v, NEW w, NEW l, NEW t, Keeps(u, v, l, t), Keeps(v, w, l, t)
    PROVE  Keeps(u, w, l, t)
<1>1. Stays(u, w)
  <2>1. Stays(u, v) /\ Stays(v, w)
    BY DEF Keeps
  <2>2. QED
    BY <2>1 DEF Stays
<1>2. QED
  BY <1>1 DEF Keeps

\* Retiring a class leaves every job as true as it was.
LEMMA RetiredJobs ==
    ASSUME NEW u, NEW v, NEW k, NEW l, NEW t, JobsTrue(u, l, t), RetiredFrom(u, k, v)
    PROVE  /\ JobsTrue(v, l, t)
           /\ CatalogFresh(u, l) => CatalogFresh(v, l)
           /\ k = "catalog" => CatalogFresh(v, l)
           /\ \A j \in Spinning : j # k /\ Spins(u, j) => Spins(v, j)
<1>1. v \in UiRecord /\ v.opened = u.opened /\ v.panel = u.panel
  BY DEF RetiredFrom, SameBut
<1>2. \A x \in v.work : \E w \in u.work :
        /\ x.kind = w.kind /\ x.p = w.p /\ x.scope = w.scope /\ x.listed = w.listed
        /\ x.ran = w.ran /\ x.ok = w.ok /\ x.seen = w.seen
        /\ x.cur <=> (w.cur /\ w.kind # k)
  BY DEF RetiredFrom, Lowered
<1>3. \A x \in v.work : Registered(x)
  BY <1>2 DEF JobsTrue, Registered
<1>4. Apart(v)
  <2>1. SUFFICES ASSUME NEW x \in v.work, NEW y \in v.work, x.kind = "status",
                        y.kind \in TreeWrites
                 PROVE  x.p # y.p
    BY DEF Apart
  <2>2. PICK a \in u.work : x.kind = a.kind /\ x.p = a.p
    BY <1>2
  <2>3. PICK b \in u.work : y.kind = b.kind /\ y.p = b.p
    BY <1>2
  <2>4. QED
    BY <2>1, <2>2, <2>3 DEF JobsTrue, Apart
<1>5. SeenEnough(v, l, t)
  <2>1. SUFFICES ASSUME NEW x \in v.work
                 PROVE  /\ x.kind = "status" /\ x.ran /\ x.ok => l[x.p] <= x.seen[x.p]
                        /\ x.kind \in TreeWrites => \A q \in Project : x.seen[q] <= t[q]
    BY DEF SeenEnough
  <2>2. PICK a \in u.work :
          x.kind = a.kind /\ x.p = a.p /\ x.ran = a.ran /\ x.ok = a.ok /\ x.seen = a.seen
    BY <1>2
  <2>3. QED
    BY <2>2 DEF JobsTrue, SeenEnough
<1>6. CatalogFresh(u, l) => CatalogFresh(v, l)
  <2>1. SUFFICES ASSUME CatalogFresh(u, l), NEW x \in v.work,
                        x.kind = "catalog", x.cur, x.ran, x.ok
                 PROVE  \A q \in Project : l[q] <= x.seen[q]
    BY DEF CatalogFresh
  <2>2. PICK a \in u.work : x.kind = a.kind /\ x.ran = a.ran /\ x.ok = a.ok /\ x.seen = a.seen
                            /\ (x.cur => a.cur)
    BY <1>2
  <2>3. QED
    BY <2>1, <2>2 DEF CatalogFresh
<1>7. k = "catalog" => CatalogFresh(v, l)
  BY <1>2 DEF CatalogFresh
<1>8. \A j \in Spinning : j # k /\ Spins(u, j) => Spins(v, j)
  BY <1>1 DEF Spins, RetiredFrom
<1>9. QED
  BY <1>1, <1>3, <1>4, <1>5, <1>6, <1>7, <1>8 DEF JobsTrue

\* Fewer jobs are as true.
LEMMA FewerJobs ==
    ASSUME NEW u, NEW v, NEW l, NEW t, JobsTrue(u, l, t), v \in UiRecord,
           v.work \subseteq u.work
    PROVE  /\ JobsTrue(v, l, t)
           /\ CatalogFresh(u, l) => CatalogFresh(v, l)
<1>1. \A x \in v.work : x \in u.work
  OBVIOUS
<1>2. \A x \in v.work : Registered(x)
  BY <1>1 DEF JobsTrue
<1>3. Apart(v)
  BY <1>1 DEF JobsTrue, Apart
<1>4. SeenEnough(v, l, t)
  BY <1>1 DEF JobsTrue, SeenEnough
<1>5. CatalogFresh(u, l) => CatalogFresh(v, l)
  BY <1>1 DEF CatalogFresh
<1>6. QED
  BY <1>2, <1>3, <1>4, <1>5 DEF JobsTrue

\* A job that has not run is true of anything, if it may be started.
NewJob(u, n) ==
    /\ n \in JobRecord /\ ~n.ran /\ n.seen = Blank /\ Registered(n)
    /\ n.kind = "status" => \A x \in u.work : x.kind \in TreeWrites => x.p # n.p
    /\ n.kind \in TreeWrites => \A x \in u.work : x.kind = "status" => x.p # n.p

LEMMA MoreJobs ==
    ASSUME NEW u, NEW v, NEW n, NEW l, NEW t, Versions(l, t), JobsTrue(u, l, t),
           v \in UiRecord, v.work = u.work \cup {n}, NewJob(u, n)
    PROVE  /\ JobsTrue(v, l, t)
           /\ CatalogFresh(u, l) => CatalogFresh(v, l)
<1>1. \A x \in v.work : x \in u.work \/ x = n
  OBVIOUS
<1>2. \A x \in v.work : Registered(x)
  BY <1>1 DEF JobsTrue, NewJob
<1>3. "status" \notin TreeWrites
  BY DEF TreeWrites
<1>4. Apart(v)
  <2>1. SUFFICES ASSUME NEW x \in v.work, NEW y \in v.work, x.kind = "status",
                        y.kind \in TreeWrites
                 PROVE  x.p # y.p
    BY DEF Apart
  <2>2. CASE x \in u.work /\ y \in u.work
    BY <2>1, <2>2 DEF JobsTrue, Apart
  <2>3. CASE x = n /\ y \in u.work
    BY <2>1, <2>3 DEF NewJob
  <2>4. CASE x \in u.work /\ y = n
    BY <2>1, <2>4 DEF NewJob
  <2>5. QED
    BY <1>1, <1>3, <2>1, <2>2, <2>3, <2>4
<1>5. SeenEnough(v, l, t)
  <2>1. SUFFICES ASSUME NEW x \in v.work
                 PROVE  /\ x.kind = "status" /\ x.ran /\ x.ok => l[x.p] <= x.seen[x.p]
                        /\ x.kind \in TreeWrites => \A q \in Project : x.seen[q] <= t[q]
    BY DEF SeenEnough
  <2>2. CASE x \in u.work
    BY <2>2 DEF JobsTrue, SeenEnough
  <2>3. CASE x = n
    <3>1. ~x.ran
      BY <2>3 DEF NewJob
    <3>2. \A q \in Project : x.seen[q] <= t[q]
      BY <2>3 DEF NewJob, Blank, Versions
    <3>3. QED
      BY <3>1, <3>2
  <2>4. QED
    BY <1>1, <2>2, <2>3
<1>6. CatalogFresh(u, l) => CatalogFresh(v, l)
  BY <1>1 DEF CatalogFresh, NewJob
<1>7. QED
  BY <1>2, <1>4, <1>5, <1>6 DEF JobsTrue

-----------------------------------------------------------------------------
\* Clearing, retiring and starting

LEMMA KindFacts ==
    /\ Spinning \subseteq Panels /\ Spinning \subseteq Kinds
    /\ "git" \notin Spinning /\ "checks" \in Spinning
    /\ Loads \subseteq Spinning /\ "review" \in Spinning
    /\ "catalog" \notin Spinning /\ "status" \notin Spinning /\ "check" \notin Spinning
    /\ \A k \in Spinning : k \notin TreeReads
    /\ Empty \in PanelRow /\ Empty.of = None /\ ~Empty.loading
    /\ {"git", "review", "branches", "worktrees", "history", "issues", "checks"} \subseteq Panels
BY DEF Spinning, Panels, Kinds, Loads, Reviews, TreeReads, TreeWrites, Snapshots, Empty, PanelRow

\* The reply of another class still comes.
LEMMA SpinsOn ==
    ASSUME NEW u, NEW v, NEW k, v.opened = u.opened, v.panel[k] = u.panel[k],
           \A w \in u.work : w.kind = k => w \in v.work
    PROVE  Spins(u, k) => Spins(v, k)
BY DEF Spins

\* A panel that is answered or emptied waits for nothing.
LEMMA SettledKeeps ==
    ASSUME NEW u, NEW l, NEW t, JobsInv(u, l, t), NEW k \in Spinning,
           NEW row \in PanelRow, ~row.loading, row.of \in {None, u.opened}
    PROVE  LET v == Show(Retire(u, k), k, row) IN
           /\ Keeps(u, v, l, t) /\ Spins(v, k) /\ v.known = u.known
           /\ v.panel[k] = row /\ \A j \in Panels : j # k => v.panel[j] = u.panel[j]
<1> DEFINE r == Retire(u, k)
           v == Show(r, k, row)
<1>0. v = Show(Retire(u, k), k, row)
  OBVIOUS
<1>1. u \in UiRecord /\ k \in Panels
  BY KindFacts DEF JobsInv, JobsTrue
<1>2. RetiredFrom(u, k, r)
  BY <1>1, RetireIs
<1>3. r \in UiRecord /\ SameBut(u, r) /\ r.panel = u.panel
  BY <1>2 DEF RetiredFrom
<1> HIDE DEF r
<1>4. /\ v \in UiRecord /\ SameBut(r, v) /\ v.work = r.work /\ v.panel[k] = row
      /\ \A j \in Panels : j # k => v.panel[j] = r.panel[j]
  BY <1>1, <1>3, ShowIs
<1> HIDE DEF v
<1>5. RetiredFrom(u, k, r) /\ JobsTrue(u, l, t)
  BY <1>2 DEF JobsInv
<1>6. JobsTrue(r, l, t) /\ (CatalogFresh(u, l) => CatalogFresh(r, l))
  BY <1>5, RetiredJobs
<1>7. JobsTrue(v, l, t) /\ (CatalogFresh(u, l) => CatalogFresh(v, l))
  BY <1>6, <1>4, FewerJobs
<1>8. Spins(v, k)
  BY <1>4, KindFacts DEF Spins
<1>9. \A j \in Spinning : Spins(u, j) => Spins(v, j)
  <2>1. TAKE j \in Spinning
  <2>2. CASE j = k
    BY <2>2, <1>8
  <2>3. CASE j # k
    <3>1. j \in Panels
      BY KindFacts
    <3>2. \A w \in u.work : w.kind = j => w \in v.work
      BY <1>2, <1>4, <2>3 DEF RetiredFrom
    <3>3. QED
      BY <3>1, <3>2, <2>3, <1>3, <1>4, SpinsOn DEF SameBut
  <2>4. QED
    BY <2>2, <2>3
<1>10. SpinsKnown(v)
  <2>1. /\ v.panel["branches"].loading => u.panel["branches"].loading
        /\ v.panel["worktrees"].loading => u.panel["worktrees"].loading
        /\ v.panel["checks"].loading => v.panel["checks"] = u.panel["checks"] /\ k # "checks"
    BY <1>3, <1>4, KindFacts
  <2>2. SUFFICES ASSUME v.panel["checks"].loading
                 PROVE  /\ "checks" \in menu
                        /\ \A x \in v.work :
                             x.kind = "checks" /\ x.p = v.panel["checks"].of => x.cur
    BY <2>1 DEF JobsInv, SpinsKnown
  <2>3. \A x \in v.work : \E w \in u.work : Lowered(w, x, k)
    BY <1>2, <1>4 DEF RetiredFrom
  <2>4. QED
    BY <2>1, <2>2, <2>3 DEF JobsInv, SpinsKnown, Lowered
<1>11. Stays(u, v) /\ v.known = u.known
  BY <1>1, <1>3, <1>4, KindFacts DEF Stays, SameBut
<1>12. Keeps(u, v, l, t)
  BY <1>7, <1>9, <1>10, <1>11 DEF Keeps, JobsInv
<1>13. QED
  BY <1>0, <1>12, <1>8, <1>11, <1>4, <1>3

LEMMA ClearedKeeps ==
    ASSUME NEW u, NEW l, NEW t, JobsInv(u, l, t), NEW k \in Spinning
    PROVE  LET v == Cleared(u, k) IN
           /\ Keeps(u, v, l, t) /\ Spins(v, k) /\ v.known = u.known
           /\ v.panel[k] = Empty /\ \A j \in Panels : j # k => v.panel[j] = u.panel[j]
BY SettledKeeps, KindFacts DEF Cleared

\* What a request that is not refused may count on.
LEMMA NotSkipped ==
    ASSUME NEW u, NEW l, NEW t, JobsInv(u, l, t), NEW k, NEW p \in Project, u.opened = p,
           ~Refused(u, k, p, JobScope(u, p))
    PROVE  /\ k = "status" => \A x \in u.work : x.kind \in TreeWrites => x.p # p
           /\ k \in TreeWrites => \A x \in u.work : x.kind = "status" => x.p # p
           /\ k = "checks" => \A x \in u.work : x.kind = "checks" => x.p # p
<1>1. JobScope(u, p) = Scope[p]
  BY JobScopeIs
<1>2. \A x \in u.work : Registered(x)
  BY DEF JobsInv, JobsTrue
<1>3. \A x \in u.work : x.listed => /\ ~(x.scope = Scope[p] /\ jobs_conflict(x.kind, k))
                                    /\ ~(x.kind = k /\ x.p = p)
  BY <1>1 DEF Refused
<1>4. \A x \in u.work : x.kind \in TreeReads /\ x.p = p => ~jobs_conflict(x.kind, k)
  BY <1>2, <1>3 DEF Registered
<1>5. \A w \in TreeWrites : jobs_conflict(w, "status") /\ jobs_conflict("status", w)
  BY DEF jobs_conflict, Mutations, Snapshots
<1>6. \A x \in u.work : x.kind = "checks" => x.listed
  BY <1>2 DEF Registered
<1>7. k = "status" => \A x \in u.work : x.kind \in TreeWrites => x.p # p
  BY <1>4, <1>5 DEF TreeReads
<1>8. k \in TreeWrites => \A x \in u.work : x.kind = "status" => x.p # p
  BY <1>4, <1>5 DEF TreeReads
<1>9. k = "checks" => \A x \in u.work : x.kind = "checks" => x.p # p
  BY <1>3, <1>6
<1>10. QED
  BY <1>7, <1>8, <1>9

\* A panel that starts to spin has its reply on the way.
LEMMA StartedKeeps ==
    ASSUME NEW u, NEW l, NEW t, JobsInv(u, l, t), Versions(l, t),
           NEW k \in {"history", "issues", "checks", "review"},
           NEW p \in Project, u.opened = p, ~Skipped(u, k, p),
           NEW row \in PanelRow, row.of = p
    PROVE  LET v == StartJob(Show(Retire(u, k), k, row), k, p) IN
           Keeps(u, v, l, t) /\ Spins(v, k)
<1> DEFINE r == Retire(u, k)
           s == Show(r, k, row)
           n == Worker(k, p, JobScope(s, p), s.opened, TRUE)
           v == Spawn(s, n)
<1>0. v = StartJob(Show(Retire(u, k), k, row), k, p)
  BY DEF StartJob
<1>1. u \in UiRecord /\ k \in Panels /\ k \in Spinning /\ k \in Kinds
  BY KindFacts DEF JobsInv, JobsTrue, Loads
<1>2. RetiredFrom(u, k, r)
  BY <1>1, RetireIs
<1>3. r \in UiRecord /\ SameBut(u, r) /\ r.panel = u.panel
  BY <1>2 DEF RetiredFrom
<1> HIDE DEF r
<1>4. /\ s \in UiRecord /\ SameBut(r, s) /\ s.work = r.work /\ s.panel[k] = row
      /\ \A j \in Panels : j # k => s.panel[j] = r.panel[j]
  BY <1>1, <1>3, ShowIs
<1> HIDE DEF s
<1>5. JobsTrue(r, l, t) /\ (CatalogFresh(u, l) => CatalogFresh(r, l))
  BY <1>2, RetiredJobs DEF JobsInv
<1>6. JobsTrue(s, l, t) /\ (CatalogFresh(u, l) => CatalogFresh(s, l))
  BY <1>5, <1>4, FewerJobs
<1>7. s.opened = p
  BY <1>3, <1>4 DEF SameBut
<1>8. /\ n \in JobRecord /\ n.kind = k /\ n.p = p /\ n.listed /\ n.cur /\ ~n.ran
      /\ n.seen = Blank
  <2>1. p \in Project \cup {None} /\ s.opened \in Project \cup {None}
    BY <1>7
  <2>2. JobScope(s, p) \in ScopeName
    BY JobScopeIs
  <2>3. QED
    BY <1>1, <2>1, <2>2, BlankIs DEF Worker, JobRecord
<1> HIDE DEF n
<1>9. NewJob(s, n)
  BY <1>8, <1>1, KindFacts DEF NewJob, Registered, TreeReads
<1>10. /\ v \in UiRecord /\ SameBut(s, v) /\ v.work = s.work \cup {n} /\ v.panel = s.panel
  BY <1>4, <1>8, SpawnIs
<1> HIDE DEF v
<1>11. JobsTrue(v, l, t) /\ (CatalogFresh(u, l) => CatalogFresh(v, l))
  BY <1>6, <1>9, <1>10, MoreJobs
<1>12. v.opened = p /\ v.rows = u.rows
  BY <1>3, <1>4, <1>10 DEF SameBut
<1>13. Spins(v, k)
  BY <1>8, <1>10, <1>12 DEF Spins
<1>14. \A j \in Spinning : Spins(u, j) => Spins(v, j)
  <2>1. TAKE j \in Spinning
  <2>2. CASE j = k
    BY <2>2, <1>13
  <2>3. CASE j # k
    <3>1. j \in Panels
      BY KindFacts
    <3>2. \A w \in u.work : w.kind = j => w \in v.work
      BY <1>2, <1>4, <1>10, <2>3 DEF RetiredFrom
    <3>3. QED
      BY <3>1, <3>2, <2>3, <1>3, <1>4, <1>10, <1>12, SpinsOn
  <2>4. QED
    BY <2>2, <2>3
<1>15. SpinsKnown(v)
  <2>1. /\ v.panel["branches"].loading => u.panel["branches"].loading
        /\ v.panel["worktrees"].loading => u.panel["worktrees"].loading
        /\ k # "checks" => v.panel["checks"] = u.panel["checks"]
    BY <1>3, <1>4, <1>10, KindFacts
  <2>2. k \in menu /\ ~Refused(u, k, p, JobScope(u, p))
    BY DEF Skipped
  <2>3. SUFFICES ASSUME v.panel["checks"].loading
                 PROVE  /\ "checks" \in menu
                        /\ \A x \in v.work :
                             x.kind = "checks" /\ x.p = v.panel["checks"].of => x.cur
    BY <2>1 DEF JobsInv, SpinsKnown
  <2>4. \A x \in v.work : x = n \/ \E w \in u.work : Lowered(w, x, k)
    BY <1>2, <1>4, <1>10 DEF RetiredFrom
  <2>5. CASE k = "checks"
    <3>1. \A w \in u.work : w.kind = "checks" => w.p # p
      BY <2>2, <2>5, NotSkipped
    <3>2. v.panel["checks"].of = p
      BY <1>4, <1>10, <2>5
    <3>3. QED
      BY <2>2, <2>4, <2>5, <3>1, <3>2, <1>8 DEF Lowered
  <2>6. CASE k # "checks"
    BY <2>1, <2>3, <2>4, <2>6, <1>8 DEF JobsInv, SpinsKnown, Lowered
  <2>7. QED
    BY <2>5, <2>6
<1>16. Stays(u, v)
  <2>1. "git" # k /\ "git" \in Panels
    BY KindFacts
  <2>2. v.panel["git"] = u.panel["git"]
    BY <2>1, <1>3, <1>4, <1>10
  <2>3. QED
    BY <2>2, <1>12, <1>3, <1>4, <1>10 DEF Stays
<1>17. Keeps(u, v, l, t)
  BY <1>11, <1>14, <1>15, <1>16 DEF Keeps, JobsInv
<1>18. QED
  BY <1>0, <1>17, <1>13

\* A job of a class without a spinner of its own only adds a worker.
LEMMA PlainKeeps ==
    ASSUME NEW u, NEW n, NEW l, NEW t, JobsInv(u, l, t), Versions(l, t), NewJob(u, n),
           n.kind # "checks"
    PROVE  LET v == Spawn(u, n) IN Keeps(u, v, l, t) /\ v.panel = u.panel
<1> DEFINE v == Spawn(u, n)
<1>1. u \in UiRecord /\ n \in JobRecord
  BY DEF JobsInv, JobsTrue, NewJob
<1>2. v \in UiRecord /\ SameBut(u, v) /\ v.work = u.work \cup {n} /\ v.panel = u.panel
  BY <1>1, SpawnIs
<1> HIDE DEF v
<1>3. JobsTrue(v, l, t) /\ (CatalogFresh(u, l) => CatalogFresh(v, l))
  BY <1>2, MoreJobs DEF JobsInv
<1>4. SpinsKnown(v)
  BY <1>2 DEF JobsInv, SpinsKnown
<1>5. \A k \in Spinning : Spins(u, k) => Spins(v, k)
  BY <1>2, SpinsOn DEF SameBut
<1>6. Stays(u, v)
  BY <1>2 DEF Stays, SameBut
<1>7. QED
  BY <1>2, <1>3, <1>4, <1>5, <1>6 DEF Keeps, JobsInv, v

LEMMA StatusKeeps ==
    ASSUME NEW u, NEW l, NEW t, JobsInv(u, l, t), Versions(l, t), NEW p \in Project,
           u.opened = p
    PROVE  Keeps(u, refresh_git(u, p), l, t)
<1>1. CASE Skipped(u, "status", p)
  BY <1>1, KeepsItself DEF refresh_git
<1>2. CASE ~Skipped(u, "status", p)
  <2> DEFINE n == Worker("status", p, JobScope(u, p), u.opened, TRUE)
  <2>1. JobScope(u, p) = Scope[p] /\ JobScope(u, p) \in ScopeName
    BY JobScopeIs
  <2>2. "status" \in Kinds /\ p \in Project \cup {None} /\ u.opened \in Project \cup {None}
    BY DEF Kinds, Snapshots
  <2>3. /\ n \in JobRecord /\ n.kind = "status" /\ n.p = p /\ n.scope = Scope[p]
        /\ n.listed /\ ~n.ran /\ n.seen = Blank
    BY <2>1, <2>2, BlankIs DEF Worker, JobRecord
  <2> HIDE DEF n
  <2>4. \A x \in u.work : x.kind \in TreeWrites => x.p # p
    BY <1>2, NotSkipped DEF Skipped
  <2>5. NewJob(u, n)
    BY <2>3, <2>4 DEF NewJob, Registered, TreeWrites
  <2>6. Keeps(u, Spawn(u, n), l, t)
    BY <2>3, <2>5, PlainKeeps
  <2>7. QED
    BY <1>2, <2>6 DEF refresh_git, StartJob, n
<1>3. QED
  BY <1>1, <1>2

LEMMA CheckKeeps ==
    ASSUME NEW u, NEW l, NEW t, JobsInv(u, l, t), Versions(l, t), NEW p \in Project,
           u.opened = p
    PROVE  Keeps(u, run_check(u, p), l, t)
<1>1. CASE Skipped(u, "check", p)
  BY <1>1, KeepsItself DEF run_check
<1>2. CASE ~Skipped(u, "check", p)
  <2> DEFINE n == Worker("check", p, JobScope(u, p), u.opened, TRUE)
  <2>1. JobScope(u, p) \in ScopeName
    BY JobScopeIs
  <2>2. "check" \in Kinds /\ p \in Project \cup {None} /\ u.opened \in Project \cup {None}
    BY DEF Kinds
  <2>3. /\ n \in JobRecord /\ n.kind = "check" /\ n.p = p /\ ~n.ran /\ n.seen = Blank
    BY <2>1, <2>2, BlankIs DEF Worker, JobRecord
  <2> HIDE DEF n
  <2>5. NewJob(u, n)
    BY <2>3 DEF NewJob, Registered, TreeWrites, TreeReads
  <2>6. Keeps(u, Spawn(u, n), l, t)
    BY <2>3, <2>5, PlainKeeps
  <2>7. QED
    BY <1>2, <2>6 DEF run_check, StartJob, n
<1>3. QED
  BY <1>1, <1>2

\* Retiring a class without a spinner.
LEMMA RetiredKeeps ==
    ASSUME NEW u, NEW l, NEW t, JobsInv(u, l, t), NEW k \in {"branches", "worktrees", "catalog"}
    PROVE  LET v == Retire(u, k) IN
           /\ Keeps(u, v, l, t) /\ SameBut(u, v) /\ v.panel = u.panel
           /\ k = "catalog" => CatalogFresh(v, l)
           /\ \A x \in v.work : \E w \in u.work : Lowered(w, x, k)
<1> DEFINE v == Retire(u, k)
<1>1. RetiredFrom(u, k, v)
  BY RetireIs DEF JobsInv, JobsTrue
<1> HIDE DEF v
<1>2. v \in UiRecord /\ SameBut(u, v) /\ v.panel = u.panel
        /\ \A x \in v.work : \E w \in u.work : Lowered(w, x, k)
  BY <1>1 DEF RetiredFrom
<1>3. JobsTrue(v, l, t) /\ (CatalogFresh(u, l) => CatalogFresh(v, l))
        /\ (k = "catalog" => CatalogFresh(v, l))
        /\ \A j \in Spinning : j # k /\ Spins(u, j) => Spins(v, j)
  BY <1>1, RetiredJobs DEF JobsInv
<1>4. SpinsKnown(v)
  BY <1>2 DEF JobsInv, SpinsKnown, Lowered
<1>5. \A j \in Spinning : Spins(u, j) => Spins(v, j)
  BY <1>3, <1>4, KindFacts DEF Spins, SpinsKnown
<1>6. Stays(u, v)
  BY <1>2 DEF Stays, SameBut
<1>7. QED
  BY <1>2, <1>3, <1>4, <1>5, <1>6 DEF Keeps, JobsInv, v

LEMMA ListKeeps ==
    ASSUME NEW u, NEW l, NEW t, JobsInv(u, l, t), Versions(l, t), NEW p \in Project,
           u.opened = p, NEW k \in {"branches", "worktrees"}
    PROVE  Keeps(u, RefreshList(u, k, p), l, t)
<1>1. CASE Skipped(u, k, p)
  BY <1>1, KeepsItself DEF RefreshList
<1>2. CASE ~Skipped(u, k, p)
  <2> DEFINE r == Retire(u, k)
             n == Worker(k, p, JobScope(r, p), r.opened, TRUE)
  <2>1. Keeps(u, r, l, t) /\ r.opened = p
    BY RetiredKeeps DEF SameBut
  <2> HIDE DEF r
  <2>2. JobScope(r, p) \in ScopeName
    BY JobScopeIs
  <2>3. k \in Kinds /\ p \in Project \cup {None} /\ r.opened \in Project \cup {None}
    BY <2>1 DEF Kinds, Loads
  <2>4. /\ n \in JobRecord /\ n.kind = k /\ n.p = p /\ ~n.ran /\ n.seen = Blank
    BY <2>2, <2>3, BlankIs DEF Worker, JobRecord
  <2> HIDE DEF n
  <2>5. NewJob(r, n)
    BY <2>4 DEF NewJob, Registered, TreeWrites, TreeReads
  <2>6. Keeps(r, Spawn(r, n), l, t)
    BY <2>1, <2>4, <2>5, PlainKeeps DEF Keeps
  <2>7. Keeps(u, Spawn(r, n), l, t)
    BY <2>1, <2>6, KeepsOn
  <2>8. QED
    BY <1>2, <2>7 DEF RefreshList, StartJob, n, r
<1>3. QED
  BY <1>1, <1>2

\* The reload of the catalog.
LEMMA CatalogKeeps ==
    ASSUME NEW u, NEW l, NEW t, JobsInv(u, l, t), Versions(l, t)
    PROVE  Keeps(u, refresh(u), l, t) /\ refresh(u).panel = u.panel
<1>1. CASE "catalog" \notin menu
  BY <1>1, KeepsItself DEF refresh
<1>2. CASE "catalog" \in menu
  <2> DEFINE r == Retire(u, "catalog")
             n == Worker("catalog", None, None, u.opened, FALSE)
  <2>1. Keeps(u, r, l, t) /\ r.panel = u.panel
    BY RetiredKeeps
  <2> HIDE DEF r
  <2>3. "catalog" \in Kinds /\ None \in Project \cup {None} /\ u.opened \in Project \cup {None}
          /\ None \in ScopeName
    BY DEF Kinds, JobsInv, JobsTrue, UiRecord, ScopeName
  <2>4. /\ n \in JobRecord /\ n.kind = "catalog" /\ ~n.ran /\ n.seen = Blank
    BY <2>3, BlankIs DEF Worker, JobRecord
  <2> HIDE DEF n
  <2>5. NewJob(r, n)
    BY <2>4 DEF NewJob, Registered, TreeWrites, TreeReads
  <2>6. Keeps(r, Spawn(r, n), l, t) /\ Spawn(r, n).panel = r.panel
    BY <2>1, <2>4, <2>5, PlainKeeps DEF Keeps
  <2>7. Keeps(u, Spawn(r, n), l, t)
    BY <2>1, <2>6, KeepsOn
  <2>8. QED
    BY <1>2, <2>1, <2>6, <2>7 DEF refresh, n, r
<1>3. QED
  BY <1>1, <1>2

-----------------------------------------------------------------------------
\* The loads of the open project

LEMMA LoadingIs ==
    ASSUME NEW p \in Project, NEW row \in PanelRow
    PROVE  Loading(p, row) \in PanelRow /\ Loading(p, row).of = p
BY DEF Loading, PanelRow

LEMMA LoadsKeep ==
    ASSUME NEW u, NEW l, NEW t, JobsInv(u, l, t), Versions(l, t), NEW p \in Project,
           u.opened = p
    PROVE  /\ Keeps(u, refresh_history(u, p), l, t) /\ Keeps(u, load_more_history(u, p), l, t)
           /\ Keeps(u, refresh_issues(u, p), l, t) /\ Keeps(u, load_more_issues(u, p), l, t)
           /\ Keeps(u, refresh_checks(u, p), l, t)
           /\ Keeps(u, launch_working_review(u, p), l, t)
           /\ Keeps(u, refresh_branches(u, p), l, t) /\ Keeps(u, refresh_worktrees(u, p), l, t)
<1>1. Keeps(u, u, l, t)
  BY KeepsItself
<1>2. \A k \in Panels : u.panel[k] \in PanelRow
  BY DEF JobsInv, JobsTrue, UiRecord
<1>3. /\ Loading(p, Empty) \in PanelRow /\ Loading(p, Empty).of = p
      /\ \A k \in Panels :
           Loading(p, u.panel[k]) \in PanelRow /\ Loading(p, u.panel[k]).of = p
  BY <1>2, LoadingIs, KindFacts
<1>4. \A k \in {"history", "issues", "checks", "review"} : \A row \in PanelRow :
        ~Skipped(u, k, p) /\ row.of = p =>
          Keeps(u, StartJob(Show(Retire(u, k), k, row), k, p), l, t)
  BY StartedKeeps
<1>5. {"history", "issues", "checks", "review"} \subseteq Panels
  BY KindFacts
<1>6. Keeps(u, refresh_history(u, p), l, t)
  BY <1>1, <1>3, <1>4 DEF refresh_history
<1>7. Keeps(u, load_more_history(u, p), l, t)
  BY <1>1, <1>3, <1>4, <1>5 DEF load_more_history
<1>8. Keeps(u, refresh_issues(u, p), l, t)
  BY <1>1, <1>3, <1>4 DEF refresh_issues
<1>9. Keeps(u, load_more_issues(u, p), l, t)
  BY <1>1, <1>3, <1>4, <1>5 DEF load_more_issues
<1>10. Keeps(u, refresh_checks(u, p), l, t)
  BY <1>1, <1>3, <1>4, <1>5 DEF refresh_checks
<1>11. Keeps(u, launch_working_review(u, p), l, t)
  BY <1>1, <1>3, <1>4 DEF launch_working_review
<1>12. Keeps(u, refresh_branches(u, p), l, t) /\ Keeps(u, refresh_worktrees(u, p), l, t)
  BY ListKeeps DEF refresh_branches, refresh_worktrees
<1>13. QED
  BY <1>6, <1>7, <1>8, <1>9, <1>10, <1>11, <1>12

\* Cancelled issue jobs leave the list, and no other job notices.
LEMMA IssuesCleared ==
    ASSUME NEW u, NEW l, NEW t, JobsInv(u, l, t)
    PROVE  LET v == clear_issues_state(u) IN
           /\ Keeps(u, v, l, t) /\ Spins(v, "issues") /\ v.known = u.known
           /\ v.panel["issues"] = Empty
           /\ \A j \in Panels : j # "issues" => v.panel[j] = u.panel[j]
<1> DEFINE c == Cleared(u, "issues")
           low(w) == IF w.kind = "issues" THEN [w EXCEPT !.listed = FALSE] ELSE w
           v == [c EXCEPT !.work = {low(w) : w \in c.work}]
<1>0. v = clear_issues_state(u)
  BY DEF clear_issues_state
<1>1. "issues" \in Spinning
  BY DEF Spinning, Loads
<1>2. Keeps(u, c, l, t) /\ Spins(c, "issues") /\ c.known = u.known
        /\ c.panel["issues"] = Empty /\ \A j \in Panels : j # "issues" => c.panel[j] = u.panel[j]
  BY <1>1, ClearedKeeps
<1> HIDE DEF c
<1>3. JobsInv(c, l, t) /\ c \in UiRecord /\ c.work \subseteq JobRecord
  BY <1>2 DEF Keeps, JobsInv, JobsTrue, UiRecord
<1>4. \A w \in JobRecord :
        /\ low(w) \in JobRecord
        /\ low(w).kind = w.kind /\ low(w).p = w.p /\ low(w).ran = w.ran /\ low(w).ok = w.ok
        /\ low(w).seen = w.seen /\ low(w).cur = w.cur
        /\ w.kind # "issues" => low(w) = w
  BY DEF JobRecord
<1> HIDE DEF low
<1>5. {low(w) : w \in c.work} \subseteq JobRecord
  BY <1>3, <1>4
<1>6. /\ v \in UiRecord /\ SameBut(c, v) /\ v.panel = c.panel
      /\ v.work = {low(w) : w \in c.work}
  BY <1>3, <1>5 DEF UiRecord, SameBut
<1> HIDE DEF v
<1>7. \A x \in v.work : \E w \in c.work :
        /\ x.kind = w.kind /\ x.p = w.p /\ x.ran = w.ran /\ x.ok = w.ok
        /\ x.seen = w.seen /\ x.cur = w.cur
        /\ x.kind # "issues" => x = w
  BY <1>3, <1>4, <1>6
<1>8. \A w \in c.work : \E x \in v.work : x.kind = w.kind /\ x.p = w.p /\ x.cur = w.cur
  BY <1>3, <1>4, <1>6
<1>9. \A x \in v.work : Registered(x)
  BY <1>3, <1>7 DEF JobsInv, JobsTrue, Registered, TreeReads, TreeWrites
<1>10. Apart(v)
  <2>1. "issues" # "status" /\ "issues" \notin TreeWrites
    BY DEF TreeWrites
  <2>2. \A x \in v.work : x.kind = "status" \/ x.kind \in TreeWrites => x \in c.work
    BY <1>7, <2>1
  <2>3. QED
    BY <1>3, <2>2 DEF JobsInv, JobsTrue, Apart
<1>11. SeenEnough(v, l, t)
  <2>1. \A x \in v.work : x.kind = "status" \/ x.kind \in TreeWrites => x \in c.work
    BY <1>7 DEF TreeWrites
  <2>2. QED
    BY <1>3, <2>1 DEF JobsInv, JobsTrue, SeenEnough
<1>12. SpinsKnown(v)
  BY <1>3, <1>6, <1>7 DEF JobsInv, SpinsKnown
<1>13. CatalogFresh(c, l) => CatalogFresh(v, l)
  BY <1>7 DEF CatalogFresh
<1>14. \A k \in Spinning : Spins(c, k) => Spins(v, k)
  BY <1>6, <1>8 DEF Spins, SameBut
<1>15. Stays(c, v)
  BY <1>6 DEF Stays, SameBut
<1>16. Keeps(c, v, l, t)
  BY <1>6, <1>9, <1>10, <1>11, <1>12, <1>13, <1>14, <1>15 DEF Keeps, JobsInv, JobsTrue
<1>17. Keeps(u, v, l, t)
  BY <1>2, <1>16, KeepsOn
<1>18. QED
  BY <1>0, <1>1, <1>2, <1>6, <1>14, <1>17 DEF SameBut

LEMMA ReviewCleared ==
    ASSUME NEW u, NEW l, NEW t, JobsInv(u, l, t)
    PROVE  LET v == clear_review(u) IN
           /\ Keeps(u, v, l, t) /\ Spins(v, "history") /\ Spins(v, "review")
           /\ v.known = u.known
<1> DEFINE c == Cleared(u, "history")
           v == Cleared(c, "review")
<1>0. "history" \in Spinning /\ "review" \in Spinning
  BY DEF Spinning, Loads, Reviews
<1>1. Keeps(u, c, l, t) /\ Spins(c, "history") /\ c.known = u.known
  BY <1>0, ClearedKeeps
<1> HIDE DEF c
<1>2. Keeps(c, v, l, t) /\ Spins(v, "review") /\ v.known = c.known
  BY <1>0, <1>1, ClearedKeeps DEF Keeps
<1> HIDE DEF v
<1>3. Keeps(u, v, l, t) /\ Spins(v, "history")
  BY <1>0, <1>1, <1>2, KeepsOn DEF Keeps
<1>4. QED
  BY <1>1, <1>2, <1>3 DEF clear_review, c, v

-----------------------------------------------------------------------------
\* Another project is opened, or none

\* What a handler may do that changes which project is open.
Turns(u, v, l, t) ==
    /\ JobsInv(v, l, t)
    /\ CatalogFresh(u, l) => CatalogFresh(v, l)
    /\ v.rows = u.rows
    /\ v.panel["git"] # u.panel["git"] => v.panel["git"].of = None
    /\ \A k \in Panels \ {"worktrees"} :
         v.panel[k] # u.panel[k] /\ v.panel[k].of # None => v.panel[k].of = v.opened

LEMMA TurnsOn ==
    ASSUME NEW u, NEW v, NEW w, NEW l, NEW t, Turns(u, v, l, t), Keeps(v, w, l, t)
    PROVE  Turns(u, w, l, t)
<1>1. Stays(v, w)
  BY DEF Keeps
<1>2. w.panel["git"] # u.panel["git"] => w.panel["git"].of = None
  BY <1>1 DEF Turns, Stays
<1>3. \A k \in Panels \ {"worktrees"} :
         w.panel[k] # u.panel[k] /\ w.panel[k].of # None => w.panel[k].of = w.opened
  <2>1. TAKE k \in Panels \ {"worktrees"}
  <2>2. CASE w.panel[k] = v.panel[k]
    BY <1>1, <2>2 DEF Turns, Stays
  <2>3. CASE w.panel[k] # v.panel[k]
    BY <1>1, <2>3 DEF Stays
  <2>4. QED
    BY <2>2, <2>3
<1>4. QED
  BY <1>1, <1>2, <1>3 DEF Turns, Keeps, Stays

LEMMA TurnsToo ==
    ASSUME NEW u, NEW v, NEW l, NEW t, Keeps(u, v, l, t)
    PROVE  Turns(u, v, l, t)
BY DEF Turns, Keeps, Stays

LEMMA OpenedIs ==
    ASSUME NEW u, NEW l, NEW t, JobsInv(u, l, t), NEW q \in Project \cup {None}
    PROVE  LET v == [u EXCEPT !.opened = q] IN
           /\ JobsInv(v, l, t) /\ v.opened = q /\ v.known = u.known /\ v.rows = u.rows
           /\ v.panel = u.panel /\ v.work = u.work
           /\ CatalogFresh(u, l) => CatalogFresh(v, l)
<1> DEFINE v == [u EXCEPT !.opened = q]
<1>1. u \in UiRecord
  BY DEF JobsInv, JobsTrue
<1>2. /\ v \in UiRecord /\ v.opened = q /\ v.known = u.known /\ v.rows = u.rows
      /\ v.panel = u.panel /\ v.work = u.work
  BY <1>1 DEF UiRecord
<1> HIDE DEF v
<1>3. JobsTrue(v, l, t) /\ (CatalogFresh(u, l) => CatalogFresh(v, l))
  BY <1>2, FewerJobs DEF JobsInv
<1>4. SpinsKnown(v)
  BY <1>2 DEF JobsInv, SpinsKnown
<1>5. QED
  BY <1>2, <1>3, <1>4 DEF JobsInv, v

\* Nothing spins that the shell could see when no project is open.
LEMMA NothingSpins ==
    ASSUME NEW v, v.opened = None
    PROVE  \A k \in Spinning : Spins(v, k)
BY DEF Spins

LEMMA CloseTurns ==
    ASSUME NEW u, NEW l, NEW t, JobsInv(u, l, t)
    PROVE  LET v == close_project(u) IN
           Turns(u, v, l, t) /\ \A k \in Spinning : Spins(v, k)
<1> DEFINE b == Cleared(u, "branches")
           a == Cleared(b, "worktrees")
           g == Show(a, "git", Empty)
           s == [g EXCEPT !.opened = None]
           r == clear_review(s)
           i == clear_issues_state(r)
           v == Cleared(i, "checks")
<1>0. v = close_project(u)
  BY DEF close_project
<1>1. {"branches", "worktrees", "checks"} \subseteq Spinning
  BY DEF Spinning, Loads
<1>2. Keeps(u, b, l, t) /\ \A k \in Panels : b.panel[k] \in {u.panel[k], Empty}
  BY <1>1, ClearedKeeps
<1> HIDE DEF b
<1>3. Keeps(b, a, l, t) /\ \A k \in Panels : a.panel[k] \in {b.panel[k], Empty}
  <2>1. JobsInv(b, l, t)
    BY <1>2 DEF Keeps
  <2>2. QED
    BY <1>1, <2>1, ClearedKeeps
<1> HIDE DEF a
<1>4. Keeps(u, a, l, t) /\ JobsInv(a, l, t)
  BY <1>2, <1>3, KeepsOn DEF Keeps
<1>5. /\ g \in UiRecord /\ SameBut(a, g) /\ g.work = a.work /\ g.panel["git"] = Empty
      /\ \A j \in Panels : j # "git" => g.panel[j] = a.panel[j]
  BY <1>4, ShowIs, KindFacts DEF JobsInv, JobsTrue
<1> HIDE DEF g
<1>6. JobsInv(g, l, t) /\ (CatalogFresh(a, l) => CatalogFresh(g, l))
  <2>1. JobsTrue(g, l, t) /\ (CatalogFresh(a, l) => CatalogFresh(g, l))
    BY <1>4, <1>5, FewerJobs DEF JobsInv
  <2>2. SpinsKnown(g)
    BY <1>4, <1>5, KindFacts DEF JobsInv, SpinsKnown
  <2>3. QED
    BY <2>1, <2>2 DEF JobsInv
<1>7. \A k \in Panels : g.panel[k] \in {u.panel[k], Empty}
  BY <1>2, <1>3, <1>5
<1>8. /\ JobsInv(s, l, t) /\ s.opened = None /\ s.rows = g.rows /\ s.panel = g.panel
      /\ CatalogFresh(g, l) => CatalogFresh(s, l)
  BY <1>6, OpenedIs
<1> HIDE DEF s
<1>9. Keeps(s, r, l, t)
  BY <1>8, ReviewCleared
<1> HIDE DEF r
<1>10. Keeps(r, i, l, t)
  BY <1>9, IssuesCleared DEF Keeps
<1> HIDE DEF i
<1>11. Keeps(i, v, l, t) /\ v.panel["checks"] = Empty
         /\ \A j \in Panels : j # "checks" => v.panel[j] = i.panel[j]
  BY <1>1, <1>10, ClearedKeeps DEF Keeps
<1> HIDE DEF v
<1>12. Keeps(s, i, l, t)
  BY <1>9, <1>10, KeepsOn
<1>13. Keeps(s, v, l, t)
  BY <1>11, <1>12, KeepsOn
<1>14. v.opened = None
  BY <1>8, <1>13 DEF Keeps, Stays
<1>15. \A k \in Spinning : Spins(v, k)
  BY <1>14, NothingSpins
<1>16. Turns(u, s, l, t)
  <2>1. u.rows = s.rows
    BY <1>4, <1>5, <1>8 DEF Keeps, Stays, SameBut
  <2>2. \A k \in Panels : s.panel[k] # u.panel[k] => s.panel[k].of = None
    BY <1>7, <1>8, KindFacts
  <2>3. CatalogFresh(u, l) => CatalogFresh(s, l)
    BY <1>4, <1>6, <1>8 DEF Keeps
  <2>4. QED
    BY <2>1, <2>2, <2>3, <1>8, KindFacts DEF Turns
<1>17. QED
  BY <1>0, <1>13, <1>15, <1>16, TurnsOn

\* After a change of project the checks panel spins for a reply of its own,
\* whether or not its load was refused.
LEMMA ChecksSpin ==
    ASSUME NEW u, NEW l, NEW t, JobsInv(u, l, t), Versions(l, t), NEW p \in Project,
           u.opened = p
    PROVE  Spins(refresh_checks(u, p), "checks")
<1>1. CASE "checks" \notin menu
  <2>1. refresh_checks(u, p) = u /\ ~u.panel["checks"].loading
    BY <1>1 DEF refresh_checks, Skipped, JobsInv, SpinsKnown
  <2>2. QED
    BY <2>1 DEF Spins
<1>2. CASE Refused(u, "checks", p, JobScope(u, p))
  <2>1. refresh_checks(u, p) = u
    BY <1>2 DEF refresh_checks, Skipped
  <2>2. PICK w \in u.work :
          \/ w.scope = JobScope(u, p) /\ jobs_conflict(w.kind, "checks")
          \/ w.kind = "checks" /\ w.p = p
    BY <1>2 DEF Refused
  <2>3. ~jobs_conflict(w.kind, "checks")
    BY DEF jobs_conflict, Reviews, Mutations, Snapshots, TreeWrites, Lifecycle
  <2>4. w.kind = "checks" /\ w.p = p
    BY <2>2, <2>3
  <2>5. u.panel["checks"].of = p /\ u.panel["checks"].loading => w.cur
    BY <2>4 DEF JobsInv, SpinsKnown
  <2>6. QED
    BY <2>1, <2>4, <2>5 DEF Spins
<1>3. CASE ~Skipped(u, "checks", p)
  <2>1. u.panel["checks"] \in PanelRow
    BY KindFacts DEF JobsInv, JobsTrue, UiRecord
  <2>2. Loading(p, u.panel["checks"]) \in PanelRow /\ Loading(p, u.panel["checks"]).of = p
    BY <2>1, LoadingIs
  <2> DEFINE v == StartJob(Show(Retire(u, "checks"), "checks", Loading(p, u.panel["checks"])),
                           "checks", p)
  <2>3. Spins(v, "checks")
    BY <1>3, <2>2, StartedKeeps
  <2>4. v = refresh_checks(u, p)
    BY <1>3 DEF refresh_checks
  <2>5. QED
    BY <2>3, <2>4
<1>4. QED
  BY <1>1, <1>2, <1>3 DEF Skipped

\* Every panel of a project that has just been opened is asked for anew.
LEMMA ReloadedKeeps ==
    ASSUME NEW u, NEW l, NEW t, JobsInv(u, l, t), Versions(l, t), NEW p \in Project,
           u.opened = p, Spins(u, "issues")
    PROVE  LET v == Reloaded(u, p) IN
           Keeps(u, v, l, t) /\ \A k \in Spinning : Spins(v, k)
<1> DEFINE r == clear_review(u)
           g == refresh_git(r, p)
           b == refresh_branches(g, p)
           h == refresh_history(b, p)
           w == IF p \in Worktrees THEN h ELSE refresh_worktrees(h, p)
           i == refresh_issues(w, p)
           v == refresh_checks(i, p)
<1>0. v = Reloaded(u, p)
  BY DEF Reloaded
<1>1. Keeps(u, r, l, t) /\ Spins(r, "history") /\ Spins(r, "review")
  BY ReviewCleared
<1> HIDE DEF r
<1>2. JobsInv(r, l, t) /\ r.opened = p
  BY <1>1 DEF Keeps, Stays
<1>3. Keeps(r, g, l, t)
  BY <1>2, StatusKeeps
<1> HIDE DEF g
<1>4. JobsInv(g, l, t) /\ g.opened = p
  BY <1>2, <1>3 DEF Keeps, Stays
<1>5. Keeps(g, b, l, t)
  BY <1>4, LoadsKeep
<1> HIDE DEF b
<1>6. JobsInv(b, l, t) /\ b.opened = p
  BY <1>4, <1>5 DEF Keeps, Stays
<1>7. Keeps(b, h, l, t)
  BY <1>6, LoadsKeep
<1> HIDE DEF h
<1>8. JobsInv(h, l, t) /\ h.opened = p
  BY <1>6, <1>7 DEF Keeps, Stays
<1>9. Keeps(h, w, l, t)
  BY <1>8, LoadsKeep, KeepsItself
<1> HIDE DEF w
<1>10. JobsInv(w, l, t) /\ w.opened = p
  BY <1>8, <1>9 DEF Keeps, Stays
<1>11. Keeps(w, i, l, t)
  BY <1>10, LoadsKeep
<1> HIDE DEF i
<1>12. JobsInv(i, l, t) /\ i.opened = p
  BY <1>10, <1>11 DEF Keeps, Stays
<1>13. Keeps(i, v, l, t) /\ Spins(v, "checks")
  BY <1>12, LoadsKeep, ChecksSpin
<1> HIDE DEF v
<1>14. Keeps(r, b, l, t)
  BY <1>3, <1>5, KeepsOn
<1>15. Keeps(b, w, l, t)
  BY <1>7, <1>9, KeepsOn
<1>16. Keeps(w, v, l, t)
  BY <1>11, <1>13, KeepsOn
<1>17. Keeps(r, v, l, t)
  BY <1>14, <1>15, <1>16, KeepsOn
<1>18. Keeps(u, v, l, t)
  BY <1>1, <1>17, KeepsOn
<1>19. Spins(v, "history") /\ Spins(v, "review") /\ Spins(v, "issues")
  BY <1>1, <1>17, <1>18, KindFacts DEF Keeps, Spinning, Loads
<1>20. Spins(v, "branches") /\ Spins(v, "worktrees")
  BY <1>18 DEF Keeps, JobsInv, SpinsKnown, Spins
<1>21. \A k \in Spinning : Spins(v, k)
  BY <1>13, <1>19, <1>20 DEF Spinning, Loads, Reviews
<1>22. QED
  BY <1>0, <1>18, <1>21

LEMMA ApplyTurns ==
    ASSUME NEW u, NEW l, NEW t, JobsInv(u, l, t), Versions(l, t), NEW p \in Project,
           NEW ok \in BOOLEAN, NEW opens \in BOOLEAN, \A k \in Spinning : Spins(u, k)
    PROVE  LET v == apply_result(u, ok, opens, p) IN
           Turns(u, v, l, t) /\ \A k \in Spinning : Spins(v, k)
<1> DEFINE c == clear_issues_state(u)
           q == IF opens THEN p ELSE None
           s == [c EXCEPT !.opened = q]
           m == IF opens /\ u.opened # p THEN Reloaded(s, p) ELSE s
<1>1. CASE ~ok
  <2>1. Keeps(u, refresh(u), l, t)
    BY CatalogKeeps
  <2>2. QED
    BY <1>1, <2>1, TurnsToo DEF apply_result, Keeps
<1>2. CASE ok
  <2>1. /\ Keeps(u, c, l, t) /\ Spins(c, "issues") /\ c.panel["issues"] = Empty
        /\ \A j \in Panels : j # "issues" => c.panel[j] = u.panel[j]
    BY IssuesCleared
  <2>2. refresh(m) = apply_result(u, ok, opens, p)
    BY <1>2 DEF apply_result
  <2> HIDE DEF c
  <2>3. q \in Project \cup {None}
    OBVIOUS
  <2>4. /\ JobsInv(s, l, t) /\ s.opened = q /\ s.rows = c.rows /\ s.panel = c.panel
        /\ s.work = c.work /\ (CatalogFresh(c, l) => CatalogFresh(s, l))
    BY <2>1, <2>3, OpenedIs DEF Keeps
  <2> HIDE DEF s
  <2>5. Turns(u, s, l, t)
    BY <2>1, <2>4, KindFacts DEF Turns, Keeps, Stays
  <2>6. Turns(u, m, l, t) /\ \A k \in Spinning : Spins(m, k)
    <3>1. CASE opens /\ u.opened # p
      <4>1. Spins(s, "issues")
        BY <2>1, <2>4, KindFacts DEF Spins
      <4>2. s.opened = p
        BY <2>4, <3>1
      <4>3. Keeps(s, m, l, t) /\ \A k \in Spinning : Spins(m, k)
        BY <2>4, <3>1, <4>1, <4>2, ReloadedKeeps
      <4>4. QED
        BY <2>5, <4>3, TurnsOn
    <3>2. CASE opens /\ u.opened = p
      <4>1. m = s /\ s.opened = c.opened
        BY <2>1, <2>4, <3>2 DEF Keeps, Stays
      <4>2. \A k \in Spinning : Spins(c, k)
        BY <2>1 DEF Keeps
      <4>3. \A k \in Spinning : Spins(s, k)
        BY <2>4, <4>1, <4>2 DEF Spins
      <4>4. QED
        BY <2>5, <4>1, <4>3
    <3>3. CASE ~opens
      <4>1. m = s /\ s.opened = None
        BY <2>4, <3>3
      <4>2. QED
        BY <2>5, <4>1, NothingSpins
    <3>4. QED
      BY <3>1, <3>2, <3>3
  <2> HIDE DEF m
  <2>7. Keeps(m, refresh(m), l, t)
    BY <2>6, CatalogKeeps DEF Turns
  <2>8. QED
    BY <2>2, <2>6, <2>7, TurnsOn DEF Keeps
<1>3. QED
  BY <1>1, <1>2

-----------------------------------------------------------------------------
\* The replies

\* What the delivery of a reply comes to, l being what has landed by then.
NoStepBack(u, v, l) ==
    \A q \in Project :
      /\ v.panel["git"] # u.panel["git"] /\ v.panel["git"].of = q => v.panel["git"].ver >= l[q]
      /\ v.rows[q] # u.rows[q] /\ v.rows[q] > 0 => v.rows[q] >= l[q]
ShowsOpen(u, v) ==
    \A k \in Panels \ {"worktrees"} :
      v.panel[k] # u.panel[k] /\ v.panel[k].of # None => v.panel[k].of = v.opened
Outcome(u, v, l, t) ==
    /\ JobsInv(v, l, t) /\ CatalogFresh(v, l) /\ \A k \in Spinning : Spins(v, k)
    /\ NoStepBack(u, v, l) /\ ShowsOpen(u, v)

LEMMA TurnsOut ==
    ASSUME NEW u, NEW v, NEW l, NEW t, CatalogFresh(u, l), Turns(u, v, l, t),
           \A k \in Spinning : Spins(v, k)
    PROVE  Outcome(u, v, l, t)
BY GuiAssumption DEF Outcome, Turns, NoStepBack, ShowsOpen

LEMMA KeepsOut ==
    ASSUME NEW u, NEW v, NEW l, NEW t, CatalogFresh(u, l), Keeps(u, v, l, t),
           \A k \in Spinning : Spins(u, k)
    PROVE  Outcome(u, v, l, t)
BY TurnsToo, TurnsOut DEF Keeps

\* The record is as good with other rows, or another busy flag.
LEMMA SameJobs ==
    ASSUME NEW u, NEW v, NEW l, NEW t, JobsInv(u, l, t), v \in UiRecord,
           v.work = u.work, v.panel = u.panel, v.opened = u.opened
    PROVE  /\ JobsInv(v, l, t) /\ (CatalogFresh(u, l) => CatalogFresh(v, l))
           /\ \A k \in Spinning : Spins(u, k) => Spins(v, k)
<1>1. JobsTrue(v, l, t) /\ (CatalogFresh(u, l) => CatalogFresh(v, l))
  BY FewerJobs DEF JobsInv
<1>2. SpinsKnown(v)
  BY DEF JobsInv, SpinsKnown
<1>3. \A k \in Spinning : Spins(u, k) => Spins(v, k)
  BY DEF Spins
<1>4. QED
  BY <1>1, <1>2, <1>3 DEF JobsInv

\* A panel that is shown what it waited for, or a list that never waits.
LEMMA ShownKeeps ==
    ASSUME NEW u, NEW l, NEW t, JobsInv(u, l, t), NEW k \in Spinning, NEW row \in PanelRow,
           ~row.loading, k = "worktrees" \/ row.of \in {None, u.opened}
    PROVE  LET v == Show(u, k, row) IN
           /\ JobsInv(v, l, t) /\ (CatalogFresh(u, l) => CatalogFresh(v, l))
           /\ \A j \in Spinning : j # k /\ Spins(u, j) => Spins(v, j)
           /\ Spins(v, k) /\ Stays(u, v)
<1> DEFINE v == Show(u, k, row)
<1>1. u \in UiRecord /\ k \in Panels
  BY KindFacts DEF JobsInv, JobsTrue
<1>2. /\ v \in UiRecord /\ SameBut(u, v) /\ v.work = u.work /\ v.panel[k] = row
      /\ \A j \in Panels : j # k => v.panel[j] = u.panel[j]
  BY <1>1, ShowIs
<1> HIDE DEF v
<1>3. JobsTrue(v, l, t) /\ (CatalogFresh(u, l) => CatalogFresh(v, l))
  BY <1>2, FewerJobs DEF JobsInv
<1>4. /\ v.panel["branches"].loading => u.panel["branches"].loading
      /\ v.panel["worktrees"].loading => u.panel["worktrees"].loading
      /\ v.panel["checks"].loading => v.panel["checks"] = u.panel["checks"]
  BY <1>2, KindFacts
<1>5. SpinsKnown(v)
  BY <1>2, <1>4 DEF JobsInv, SpinsKnown
<1>6. Spins(v, k)
  BY <1>2 DEF Spins
<1>7. \A j \in Spinning : j # k /\ Spins(u, j) => Spins(v, j)
  BY <1>2, KindFacts DEF Spins, SameBut
<1>8. Stays(u, v)
  BY <1>1, <1>2, KindFacts DEF Stays, SameBut
<1>9. QED
  BY <1>3, <1>5, <1>6, <1>7, <1>8 DEF JobsInv, v

\* A job that ends takes no reply from anybody else.
LEMMA FinishKeeps ==
    ASSUME NEW u, NEW l, NEW t, JobsInv(u, l, t), NEW w \in u.work
    PROVE  LET v == finish_job(u, w) IN
           /\ v \in UiRecord /\ SameBut(u, v) /\ v.work = u.work \ {w} /\ v.panel = u.panel
           /\ JobsInv(v, l, t) /\ (CatalogFresh(u, l) => CatalogFresh(v, l))
           /\ \A k \in Spinning : k # w.kind /\ Spins(u, k) => Spins(v, k)
           /\ (w.kind \notin Spinning \/ ~ReplyCurrent(u, w)) => Keeps(u, v, l, t)
<1> DEFINE v == finish_job(u, w)
<1>1. u \in UiRecord
  BY DEF JobsInv, JobsTrue
<1>2. v \in UiRecord /\ SameBut(u, v) /\ v.work = u.work \ {w} /\ v.panel = u.panel
  BY <1>1, FinishIs
<1> HIDE DEF v
<1>3. JobsTrue(v, l, t) /\ (CatalogFresh(u, l) => CatalogFresh(v, l))
  BY <1>2, FewerJobs DEF JobsInv
<1>4. SpinsKnown(v)
  BY <1>2 DEF JobsInv, SpinsKnown
<1>5. \A k \in Spinning : k # w.kind /\ Spins(u, k) => Spins(v, k)
  BY <1>2 DEF Spins, SameBut
<1>6. ~ReplyCurrent(u, w) => \A k \in Spinning : Spins(u, k) => Spins(v, k)
  BY <1>2 DEF Spins, SameBut, ReplyCurrent
<1>7. Stays(u, v)
  BY <1>2 DEF Stays, SameBut
<1>8. (w.kind \notin Spinning \/ ~ReplyCurrent(u, w)) => Keeps(u, v, l, t)
  BY <1>3, <1>4, <1>5, <1>6, <1>7 DEF Keeps, JobsInv
<1>9. QED
  BY <1>2, <1>3, <1>4, <1>5, <1>8 DEF JobsInv, v

LEMMA LoadOut ==
    ASSUME NEW u, NEW l, NEW t, JobsInv(u, l, t), CatalogFresh(u, l),
           \A k \in Spinning : Spins(u, k), NEW w \in u.work, w.kind \in Loads \cup Reviews
    PROVE  Outcome(u, LoadReply(u, w), l, t)
<1> DEFINE f == finish_job(u, w)
           row == Answered(f, w)
<1>1. /\ f \in UiRecord /\ SameBut(u, f) /\ f.work = u.work \ {w} /\ f.panel = u.panel
      /\ JobsInv(f, l, t) /\ CatalogFresh(f, l)
      /\ \A k \in Spinning : k # w.kind => Spins(f, k)
      /\ ~ReplyCurrent(u, w) => Keeps(u, f, l, t)
  BY FinishKeeps
<1> HIDE DEF f
<1>2. CASE ~ReplyCurrent(u, w)
  <2>1. LoadReply(u, w) = f
    BY <1>2 DEF LoadReply, f
  <2>2. QED
    BY <1>1, <1>2, <2>1, KeepsOut
<1>3. CASE ReplyCurrent(u, w)
  <2>1. w.kind \in Spinning /\ w.kind \in Panels /\ w \in JobRecord /\ w.p \in Project
    <3>1. w \in JobRecord /\ Registered(w)
      BY DEF JobsInv, JobsTrue, UiRecord
    <3>2. w.kind \in Spinning /\ w.kind \in Panels /\ w.kind # "catalog"
      BY KindFacts DEF Spinning
    <3>3. QED
      BY <3>1, <3>2 DEF Registered
  <2>2. f.panel[w.kind] \in PanelRow /\ w.seen[w.p] \in Nat
    BY <1>1, <2>1 DEF UiRecord, JobRecord
  <2>3. row \in PanelRow /\ ~row.loading /\ row.of \in {None, f.opened}
    BY <1>1, <1>3, <2>1, <2>2 DEF Answered, PanelRow, Empty, SameBut, ReplyCurrent
  <2> HIDE DEF row
  <2> DEFINE v == Show(f, w.kind, row)
  <2>4. v = LoadReply(u, w)
    BY <1>3 DEF LoadReply, f, row
  <2>5. /\ JobsInv(v, l, t) /\ CatalogFresh(v, l)
        /\ \A j \in Spinning : j # w.kind /\ Spins(f, j) => Spins(v, j)
        /\ Spins(v, w.kind) /\ Stays(f, v)
    BY <1>1, <2>1, <2>3, ShownKeeps
  <2> HIDE DEF v
  <2>6. \A k \in Spinning : Spins(v, k)
    BY <1>1, <2>5
  <2>7. Turns(u, v, l, t)
    BY <1>1, <2>5 DEF Turns, Stays, SameBut
  <2>8. QED
    BY <2>4, <2>6, <2>7, TurnsOut
<1>4. QED
  BY <1>2, <1>3

LEMMA CheckOut ==
    ASSUME NEW u, NEW l, NEW t, JobsInv(u, l, t), CatalogFresh(u, l),
           \A k \in Spinning : Spins(u, k), NEW w \in u.work, w.kind = "check"
    PROVE  Outcome(u, CheckReply(u, w), l, t)
<1> DEFINE f == finish_job(u, w)
           x == [w EXCEPT !.kind = "checks"]
           row == Answered(f, x)
<1>1. /\ f \in UiRecord /\ SameBut(u, f) /\ f.panel = u.panel
      /\ JobsInv(f, l, t) /\ Keeps(u, f, l, t)
  BY FinishKeeps, KindFacts
<1> HIDE DEF f
<1>2. CASE f.opened # w.p
  <2>1. CheckReply(u, w) = f
    BY <1>2 DEF CheckReply, f
  <2>2. QED
    BY <1>1, <2>1, KeepsOut
<1>3. CASE f.opened = w.p
  <2>1. w \in JobRecord /\ w.p \in Project
    BY DEF JobsInv, JobsTrue, UiRecord, Registered
  <2>2. x.kind = "checks" /\ x.p = w.p /\ x.ok = w.ok /\ x.seen = w.seen /\ w.seen[w.p] \in Nat
    BY <2>1 DEF JobRecord
  <2> HIDE DEF x
  <2>3. f.panel["checks"] \in PanelRow
    BY <1>1, KindFacts DEF UiRecord
  <2>4. row \in PanelRow /\ ~row.loading /\ row.of \in {None, f.opened}
    BY <1>3, <2>1, <2>2, <2>3 DEF Answered, PanelRow, Empty
  <2>5. Show(Retire(f, "checks"), "checks", row) = CheckReply(u, w)
    BY <1>3 DEF CheckReply, f, row, x
  <2> HIDE DEF row
  <2>6. Keeps(f, Show(Retire(f, "checks"), "checks", row), l, t)
    BY <1>1, <2>4, SettledKeeps, KindFacts
  <2>7. QED
    BY <1>1, <2>5, <2>6, KeepsOn, KeepsOut
<1>4. QED
  BY <1>2, <1>3

LEMMA CatalogOut ==
    ASSUME NEW u, NEW l, NEW t, JobsInv(u, l, t), CatalogFresh(u, l),
           \A k \in Spinning : Spins(u, k), NEW w \in u.work, w.kind = "catalog", w.ran
    PROVE  Outcome(u, CatalogReply(u, w), l, t)
<1> DEFINE f == finish_job(u, w)
           v == CatalogReply(u, w)
           rows == IF ~w.cur THEN f.rows ELSE IF w.ok THEN w.seen ELSE Blank
<1>1. /\ f \in UiRecord /\ SameBut(u, f) /\ f.panel = u.panel
      /\ JobsInv(f, l, t) /\ Keeps(u, f, l, t)
  BY FinishKeeps, KindFacts
<1> HIDE DEF f
<1>2. w \in JobRecord
  BY DEF JobsInv, JobsTrue, UiRecord
<1>3. rows \in [Project -> Nat]
  BY <1>1, <1>2, BlankIs DEF UiRecord, JobRecord
<1>4. v = IF ~w.cur THEN f
          ELSE IF w.ok THEN [f EXCEPT !.known = TRUE, !.rows = rows]
          ELSE [f EXCEPT !.known = FALSE, !.rows = rows]
  BY DEF CatalogReply, f
<1> HIDE DEF v, rows
<1>5. v \in UiRecord /\ v.work = f.work /\ v.panel = f.panel /\ v.opened = f.opened
        /\ (w.cur => v.rows = rows) /\ (~w.cur => v.rows = f.rows)
  <2>1. CASE ~w.cur
    BY <2>1, <1>1, <1>4
  <2>2. CASE w.cur /\ w.ok
    <3>1. v = [f EXCEPT !.known = TRUE, !.rows = rows]
      BY <2>2, <1>4
    <3>2. QED
      BY <3>1, <1>1, <1>3, <2>2 DEF UiRecord
  <2>3. CASE w.cur /\ ~w.ok
    <3>1. v = [f EXCEPT !.known = FALSE, !.rows = rows]
      BY <2>3, <1>4
    <3>2. QED
      BY <3>1, <1>1, <1>3, <2>3 DEF UiRecord
  <2>4. QED
    BY <2>1, <2>2, <2>3
<1>6. JobsInv(v, l, t) /\ CatalogFresh(v, l) /\ \A k \in Spinning : Spins(v, k)
  <2>1. CatalogFresh(f, l) /\ \A k \in Spinning : Spins(f, k)
    BY <1>1 DEF Keeps
  <2>2. QED
    BY <1>1, <1>5, <2>1, SameJobs
<1>7. \A q \in Project : v.rows[q] # u.rows[q] /\ v.rows[q] > 0 => v.rows[q] >= l[q]
  <2>1. TAKE q \in Project
  <2>2. CASE ~w.cur
    BY <2>2, <1>1, <1>5 DEF SameBut
  <2>3. CASE w.cur /\ ~w.ok
    BY <2>3, <1>5 DEF rows, Blank
  <2>4. CASE w.cur /\ w.ok
    <3>1. l[q] <= w.seen[q]
      BY <2>4 DEF CatalogFresh
    <3>2. QED
      BY <2>4, <3>1, <1>5 DEF rows
  <2>5. QED
    BY <2>2, <2>3, <2>4
<1>8. QED
  BY <1>1, <1>5, <1>6, <1>7 DEF Outcome, NoStepBack, ShowsOpen, v

LEMMA WorktreeOut ==
    ASSUME NEW u, NEW l, NEW t, JobsInv(u, l, t), CatalogFresh(u, l), Versions(l, t),
           \A k \in Spinning : Spins(u, k), NEW w \in u.work,
           w.kind \in {"reconcile_worktrees", "move_worktree", "lock_worktree"}
    PROVE  Outcome(u, WorktreeReply(u, w), l, t)
<1> DEFINE f == finish_job(u, w)
           parent == IF w.p \in Worktrees THEN Parent[w.p] ELSE w.p
           row == [of |-> parent, loading |-> FALSE, ver |-> w.seen[parent]]
           v == Show(f, "worktrees", row)
<1>1. w.kind \notin Spinning /\ w.kind # "catalog"
  BY DEF Spinning, Loads, Reviews
<1>2. /\ f \in UiRecord /\ SameBut(u, f) /\ f.panel = u.panel
      /\ JobsInv(f, l, t) /\ Keeps(u, f, l, t)
  BY <1>1, FinishKeeps
<1>3. w \in JobRecord /\ w.p \in Project
  BY <1>1 DEF JobsInv, JobsTrue, UiRecord, Registered
<1>4. parent \in Project
  BY <1>3, GuiAssumption
<1>5. row \in PanelRow /\ ~row.loading
  BY <1>3, <1>4 DEF PanelRow, JobRecord
<1>6. WorktreeReply(u, w) \in {f, v, refresh(v)}
  BY DEF WorktreeReply
<1> HIDE DEF f, row
<1>7. "worktrees" \in Spinning
  BY DEF Spinning, Loads
<1>8. /\ JobsInv(v, l, t) /\ (CatalogFresh(f, l) => CatalogFresh(v, l))
      /\ \A j \in Spinning : j # "worktrees" /\ Spins(f, j) => Spins(v, j)
      /\ Spins(v, "worktrees") /\ Stays(f, v)
  BY <1>2, <1>5, <1>7, ShownKeeps
<1> HIDE DEF v
<1>9. Keeps(f, v, l, t)
  BY <1>8 DEF Keeps
<1>10. Keeps(v, refresh(v), l, t)
  BY <1>8, CatalogKeeps
<1>11. Keeps(u, v, l, t)
  BY <1>2, <1>9, KeepsOn
<1>12. Keeps(u, refresh(v), l, t)
  BY <1>10, <1>11, KeepsOn
<1>13. QED
  BY <1>2, <1>6, <1>11, <1>12, KeepsOut

LEMMA OpenOut ==
    ASSUME NEW u, NEW l, NEW t, JobsInv(u, l, t), CatalogFresh(u, l), Versions(l, t),
           \A k \in Spinning : Spins(u, k), NEW w \in u.work,
           w.kind \notin Spinning, w.kind # "catalog"
    PROVE  Outcome(u, OpenReply(u, w), l, t)
<1> DEFINE f == finish_job(u, w)
           b == f.busy /\ w.kind \notin BusyKinds
           s == [f EXCEPT !.busy = b]
           o == w.kind \in {"open", "import", "create_worktree"}
           v == apply_result(s, w.ok, o, w.p)
<1>0. v = OpenReply(u, w)
  BY DEF OpenReply
<1>1. /\ f \in UiRecord /\ SameBut(u, f) /\ f.panel = u.panel
      /\ JobsInv(f, l, t) /\ Keeps(u, f, l, t)
  BY FinishKeeps
<1> HIDE DEF f
<1>2. w \in JobRecord /\ w.p \in Project /\ w.ok \in BOOLEAN /\ o \in BOOLEAN
  BY DEF JobsInv, JobsTrue, UiRecord, Registered, JobRecord
<1>3. b \in BOOLEAN
  OBVIOUS
<1> HIDE DEF b
<1>4. s \in UiRecord /\ s.work = f.work /\ s.panel = f.panel /\ s.opened = f.opened
        /\ s.rows = f.rows
  BY <1>1, <1>3 DEF UiRecord
<1> HIDE DEF s, o
<1>5. JobsInv(s, l, t) /\ (CatalogFresh(f, l) => CatalogFresh(s, l))
        /\ \A k \in Spinning : Spins(f, k) => Spins(s, k)
  BY <1>1, <1>4, SameJobs
<1>6. Keeps(f, s, l, t)
  BY <1>4, <1>5 DEF Keeps, Stays
<1>7. Keeps(u, s, l, t)
  BY <1>1, <1>6, KeepsOn
<1>8. CatalogFresh(s, l) /\ \A k \in Spinning : Spins(s, k)
  BY <1>7 DEF Keeps
<1>9. Turns(s, v, l, t) /\ \A k \in Spinning : Spins(v, k)
  BY <1>2, <1>5, <1>8, ApplyTurns
<1> HIDE DEF v
<1>10. s.rows = u.rows /\ s.panel = u.panel
  BY <1>1, <1>4 DEF SameBut
<1>11. Turns(u, v, l, t)
  BY <1>7, <1>8, <1>9, <1>10 DEF Turns
<1>12. QED
  BY <1>0, <1>9, <1>11, TurnsOut

\* What has landed once the reply of job w is taken.
Landing(l, w) ==
    IF w.ok /\ w.kind \in TreeWrites THEN [l EXCEPT ![w.p] = w.seen[w.p]] ELSE l

\* A write that lands leaves no status read of its project in flight, and what
\* it saw is no more than there is.
LEMMA LandingKeeps ==
    ASSUME NEW u, NEW l, NEW t, JobsInv(u, l, t), Versions(l, t),
           NEW w \in u.work, w.kind \in TreeReads, w.ran
    PROVE  LET f == finish_job(u, w)
               m == Landing(l, w) IN
           /\ JobsInv(f, m, t) /\ Versions(m, t)
           /\ w.ok => w.seen[w.p] >= m[w.p]
           /\ w.ok /\ w.kind \in TreeWrites => m[w.p] = w.seen[w.p]
           /\ \A q \in Project : q # w.p => m[q] = l[q]
<1> DEFINE f == finish_job(u, w)
           m == Landing(l, w)
<1>1. w \in JobRecord /\ w.p \in Project /\ w.seen \in [Project -> Nat]
  BY DEF JobsInv, JobsTrue, UiRecord, Registered, JobRecord, TreeReads, TreeWrites
<1>2. JobsInv(f, l, t) /\ f.work = u.work \ {w}
  BY FinishKeeps
<1> HIDE DEF f
<1>3. w.kind = "status" \/ w.kind \in TreeWrites
  BY DEF TreeReads
<1>4. w.kind = "status" => w.kind \notin TreeWrites
  BY DEF TreeWrites
<1>5. CASE ~(w.ok /\ w.kind \in TreeWrites)
  <2>1. m = l
    BY <1>5 DEF Landing
  <2>2. w.ok => w.kind = "status" /\ l[w.p] <= w.seen[w.p]
    BY <1>3, <1>5 DEF JobsInv, JobsTrue, SeenEnough
  <2>3. l[w.p] \in Nat /\ w.seen[w.p] \in Nat
    BY <1>1 DEF Versions
  <2> HIDE DEF m
  <2>4. QED
    BY <1>2, <1>5, <2>1, <2>2, <2>3 DEF f, m
<1>6. CASE w.ok /\ w.kind \in TreeWrites
  <2>1. m = [l EXCEPT ![w.p] = w.seen[w.p]]
    BY <1>6 DEF Landing
  <2> HIDE DEF m
  <2>2. /\ m \in [Project -> Nat] /\ m[w.p] = w.seen[w.p]
        /\ \A q \in Project : q # w.p => m[q] = l[q]
    BY <1>1, <2>1 DEF Versions
  <2>3. w.seen[w.p] <= t[w.p]
    BY <1>1, <1>6 DEF JobsInv, JobsTrue, SeenEnough
  <2>4. Versions(m, t)
    BY <2>2, <2>3 DEF Versions
  <2>5. \A x \in f.work : x.kind = "status" => x.p # w.p /\ x.p \in Project
    BY <1>2, <1>6 DEF JobsInv, JobsTrue, Apart, Registered
  <2>6. SeenEnough(f, m, t)
    BY <1>2, <2>2, <2>5 DEF JobsInv, JobsTrue, SeenEnough
  <2>7. JobsInv(f, m, t)
    BY <1>2, <2>6 DEF JobsInv, JobsTrue
  <2>8. w.seen[w.p] >= m[w.p]
    BY <1>1, <2>2
  <2>9. QED
    BY <2>2, <2>4, <2>7, <2>8 DEF f, m
<1>7. QED
  BY <1>5, <1>6

\* The status an operation comes back with replaces the one on screen.
LEMMA GitShown ==
    ASSUME NEW u, NEW l, NEW t, JobsInv(u, l, t), NEW row \in PanelRow
    PROVE  LET v == Show(u, "git", row) IN
           /\ JobsInv(v, l, t) /\ SameBut(u, v) /\ v.work = u.work
           /\ \A k \in Spinning : Spins(u, k) => Spins(v, k)
           /\ v.panel["git"] = row
           /\ \A k \in Panels : k # "git" => v.panel[k] = u.panel[k]
<1> DEFINE v == Show(u, "git", row)
<1>1. /\ v \in UiRecord /\ SameBut(u, v) /\ v.work = u.work /\ v.panel["git"] = row
      /\ \A j \in Panels : j # "git" => v.panel[j] = u.panel[j]
  BY ShowIs, KindFacts DEF JobsInv, JobsTrue
<1> HIDE DEF v
<1>2. JobsTrue(v, l, t)
  BY <1>1, FewerJobs DEF JobsInv
<1>3. SpinsKnown(v)
  BY <1>1, KindFacts DEF JobsInv, SpinsKnown
<1>4. \A k \in Spinning : Spins(u, k) => Spins(v, k)
  BY <1>1, KindFacts DEF Spins, SameBut
<1>5. QED
  BY <1>1, <1>2, <1>3, <1>4 DEF JobsInv, v

\* The catalog row of a project whose working tree was written follows it.
LEMMA SyncIs ==
    ASSUME NEW u, NEW m, NEW t, JobsInv(u, m, t), Versions(m, t), NEW w \in JobRecord,
           w.p \in Project
    PROVE  LET v == sync_catalog_projection(u, w) IN
           /\ JobsInv(v, m, t) /\ v.opened = u.opened /\ v.panel = u.panel
           /\ \A k \in Spinning : Spins(u, k) => Spins(v, k)
           /\ w.ok \/ CatalogFresh(u, m) => CatalogFresh(v, m)
           /\ \A q \in Project : v.rows[q] # u.rows[q] => w.ok /\ q = w.p /\ v.rows[q] = w.seen[q]
<1> DEFINE v == sync_catalog_projection(u, w)
<1>1. CASE ~w.ok
  <2>1. v = refresh(u)
    BY <1>1 DEF sync_catalog_projection
  <2>2. Keeps(u, refresh(u), m, t) /\ refresh(u).panel = u.panel
    BY CatalogKeeps
  <2>3. QED
    BY <1>1, <2>1, <2>2 DEF Keeps, Stays
<1>2. CASE w.ok
  <2> DEFINE r == Retire(u, "catalog")
  <2>1. v = [r EXCEPT !.rows[w.p] = w.seen[w.p]]
    BY <1>2 DEF sync_catalog_projection
  <2>2. /\ Keeps(u, r, m, t) /\ SameBut(u, r) /\ r.panel = u.panel /\ CatalogFresh(r, m)
    BY RetiredKeeps
  <2> HIDE DEF r, v
  <2>3. r \in UiRecord /\ JobsInv(r, m, t)
    BY <2>2 DEF Keeps, JobsInv, JobsTrue
  <2>4. w.seen[w.p] \in Nat
    BY DEF JobRecord
  <2>5. /\ v \in UiRecord /\ v.work = r.work /\ v.panel = r.panel /\ v.opened = r.opened
        /\ \A q \in Project : v.rows[q] = IF q = w.p THEN w.seen[w.p] ELSE r.rows[q]
    BY <2>1, <2>3, <2>4 DEF UiRecord
  <2>6. JobsInv(v, m, t) /\ (CatalogFresh(r, m) => CatalogFresh(v, m))
        /\ \A k \in Spinning : Spins(r, k) => Spins(v, k)
    BY <2>3, <2>5, SameJobs
  <2>7. \A k \in Spinning : Spins(u, k) => Spins(v, k)
    BY <2>2, <2>6 DEF Keeps
  <2>8. \A q \in Project : v.rows[q] # u.rows[q] => q = w.p /\ v.rows[q] = w.seen[q]
    BY <2>2, <2>5 DEF SameBut
  <2>9. QED
    BY <1>2, <2>2, <2>5, <2>6, <2>7, <2>8 DEF SameBut, v
<1>3. QED
  BY <1>1, <1>2

LEMMA GitOut ==
    ASSUME NEW u, NEW l, NEW t, JobsInv(u, l, t), CatalogFresh(u, l), Versions(l, t),
           \A k \in Spinning : Spins(u, k), NEW w \in u.work, w.kind \in TreeReads, w.ran
    PROVE  LET m == Landing(l, w) IN
           Outcome(u, apply_git_result(u, w), m, t) /\ Versions(m, t)
<1> DEFINE m == Landing(l, w)
           p == w.p
           open == u.opened = p
           e == finish_job(u, w)
           row == IF w.ok THEN [of |-> p, loading |-> FALSE, ver |-> w.seen[p]] ELSE Empty
           s == IF ~open THEN e ELSE Show(e, "git", row)
           b == IF open /\ w.kind = "checkout" THEN refresh_branches(s, p) ELSE s
           h == IF open /\ w.kind \in {"checkout", "commit"} THEN refresh_history(b, p) ELSE b
           c == IF w.kind = "status" THEN h ELSE sync_catalog_projection(h, w)
           v == IF open /\ w.ok THEN refresh_current_working_review(c, p) ELSE c
<1>0. v = apply_git_result(u, w)
  BY DEF apply_git_result
<1>1. w \in JobRecord /\ p \in Project /\ w.seen[p] \in Nat
  BY DEF JobsInv, JobsTrue, UiRecord, Registered, JobRecord, TreeReads, TreeWrites
<1>2. /\ JobsInv(e, m, t) /\ Versions(m, t)
      /\ w.ok => w.seen[p] >= m[p]
  BY LandingKeeps
<1>3. w.kind \notin Spinning
  BY KindFacts
<1>4. SameBut(u, e) /\ e.panel = u.panel /\ Keeps(u, e, l, t)
  BY <1>3, FinishKeeps
<1>5. CatalogFresh(e, l) /\ \A k \in Spinning : Spins(e, k)
  BY <1>4 DEF Keeps
<1>6. w.kind = "status" \/ ~w.ok => m = l
  BY DEF Landing, TreeWrites
<1> HIDE DEF e, m
<1>7. row \in PanelRow
  BY <1>1, KindFacts DEF PanelRow
<1>8. row.of = None \/ (row.of = p /\ row.ver >= m[p])
  BY <1>2, KindFacts
<1> HIDE DEF row
<1>9. /\ JobsInv(s, m, t) /\ SameBut(u, s) /\ s.work = e.work
      /\ \A k \in Spinning : Spins(s, k)
      /\ \A k \in Panels : k # "git" => s.panel[k] = u.panel[k]
      /\ s.panel["git"] # u.panel["git"] => open /\ s.panel["git"] = row
  <2>1. CASE open
    <3>1. LET x == Show(e, "git", row) IN
           /\ JobsInv(x, m, t) /\ SameBut(e, x) /\ x.work = e.work
           /\ \A k \in Spinning : Spins(e, k) => Spins(x, k)
           /\ x.panel["git"] = row
           /\ \A k \in Panels : k # "git" => x.panel[k] = e.panel[k]
      BY <1>2, <1>7, GitShown
    <3>2. QED
      BY <1>4, <1>5, <2>1, <3>1 DEF SameBut
  <2>2. CASE ~open
    BY <1>2, <1>4, <1>5, <2>2
  <2>3. QED
    BY <2>1, <2>2
<1>10. CatalogFresh(s, l)
  BY <1>5, <1>9 DEF CatalogFresh
<1> HIDE DEF s
<1>11. s.opened = u.opened
  BY <1>9 DEF SameBut
<1>12. Keeps(s, b, m, t)
  BY <1>1, <1>2, <1>9, <1>11, LoadsKeep, KeepsItself
<1> HIDE DEF b
<1>13. JobsInv(b, m, t) /\ b.opened = u.opened
  BY <1>11, <1>12 DEF Keeps, Stays
<1>14. Keeps(b, h, m, t)
  BY <1>1, <1>2, <1>13, LoadsKeep, KeepsItself
<1> HIDE DEF h
<1>15. Keeps(s, h, m, t)
  BY <1>12, <1>14, KeepsOn
<1>16. JobsInv(h, m, t) /\ Stays(s, h) /\ \A k \in Spinning : Spins(h, k)
  BY <1>9, <1>15 DEF Keeps
<1>17. w.kind = "status" \/ ~w.ok => CatalogFresh(h, m)
  BY <1>6, <1>10, <1>15 DEF Keeps
<1>18. /\ JobsInv(c, m, t) /\ c.opened = h.opened /\ c.panel = h.panel
       /\ \A k \in Spinning : Spins(c, k)
       /\ CatalogFresh(c, m)
       /\ \A q \in Project : c.rows[q] # h.rows[q] => w.ok /\ q = p /\ c.rows[q] = w.seen[q]
  <2>1. CASE w.kind = "status"
    BY <1>16, <1>17, <2>1
  <2>2. CASE w.kind # "status"
    <3>1. LET x == sync_catalog_projection(h, w) IN
           /\ JobsInv(x, m, t) /\ x.opened = h.opened /\ x.panel = h.panel
           /\ \A k \in Spinning : Spins(h, k) => Spins(x, k)
           /\ w.ok \/ CatalogFresh(h, m) => CatalogFresh(x, m)
           /\ \A q \in Project : x.rows[q] # h.rows[q] => w.ok /\ q = w.p /\ x.rows[q] = w.seen[q]
      BY <1>1, <1>2, <1>16, SyncIs
    <3>2. QED
      BY <1>16, <1>17, <2>2, <3>1
  <2>3. QED
    BY <2>1, <2>2
<1> HIDE DEF c
<1>19. c.opened = u.opened
  BY <1>11, <1>16, <1>18 DEF Stays
<1>20. Keeps(c, v, m, t)
  BY <1>1, <1>2, <1>18, <1>19, LoadsKeep, KeepsItself DEF refresh_current_working_review
<1> HIDE DEF v
<1>21. JobsInv(v, m, t) /\ CatalogFresh(v, m) /\ \A k \in Spinning : Spins(v, k)
  BY <1>18, <1>20 DEF Keeps
<1>22. ShowsOpen(u, v)
  <2>1. SUFFICES ASSUME NEW k \in Panels \ {"worktrees"}
                 PROVE  v.panel[k] # u.panel[k] /\ v.panel[k].of # None
                          => v.panel[k].of = v.opened
    BY DEF ShowsOpen
  <2>2. CASE v.panel[k] # c.panel[k]
    BY <1>20, <2>2 DEF Keeps, Stays
  <2>3. CASE v.panel[k] = c.panel[k] /\ h.panel[k] # s.panel[k]
    BY <1>16, <1>18, <1>20, <2>3 DEF Keeps, Stays
  <2>4. CASE v.panel[k] = s.panel[k]
    <3>1. v.opened = u.opened
      BY <1>19, <1>20 DEF Keeps, Stays
    <3>2. CASE k = "git"
      BY <1>8, <1>9, <2>4, <3>1, <3>2
    <3>3. CASE k # "git"
      BY <1>9, <2>4, <3>3
    <3>4. QED
      BY <3>2, <3>3
  <2>5. QED
    BY <1>18, <2>2, <2>3, <2>4
<1>23. NoStepBack(u, v, m)
  <2>1. v.panel["git"] = s.panel["git"]
    BY <1>16, <1>18, <1>20 DEF Keeps, Stays
  <2>2. SUFFICES ASSUME NEW q \in Project
                 PROVE  /\ v.panel["git"] # u.panel["git"] /\ v.panel["git"].of = q
                             => v.panel["git"].ver >= m[q]
                        /\ v.rows[q] # u.rows[q] /\ v.rows[q] > 0 => v.rows[q] >= m[q]
    BY DEF NoStepBack
  <2>3. v.panel["git"] # u.panel["git"] /\ v.panel["git"].of = q => v.panel["git"].ver >= m[q]
    BY <1>8, <1>9, <2>1, GuiAssumption
  <2>4. v.rows[q] # u.rows[q] => v.rows[q] >= m[q]
    BY <1>2, <1>9, <1>16, <1>18, <1>20 DEF Keeps, Stays, SameBut
  <2>5. QED
    BY <2>3, <2>4
<1>24. QED
  BY <1>0, <1>2, <1>21, <1>22, <1>23 DEF Outcome, m

LEMMA ReplyOut ==
    ASSUME NEW u, NEW l, NEW t, JobsInv(u, l, t), CatalogFresh(u, l), Versions(l, t),
           \A k \in Spinning : Spins(u, k), NEW w \in u.work, w.ran
    PROVE  LET m == Landing(l, w) IN
           Outcome(u, Reply(u, w), m, t) /\ Versions(m, t)
<1> DEFINE m == Landing(l, w)
           lists == {"reconcile_worktrees", "move_worktree", "lock_worktree"}
<1>1. w.kind \in TreeReads \/ m = l
  BY DEF Landing, TreeReads
<1>2. CASE w.kind \in Loads \cup Reviews
  <2>1. m = l
    BY <1>1, <1>2, KindFacts DEF Spinning
  <2>2. Reply(u, w) = LoadReply(u, w)
    BY <1>2 DEF Reply, Loads, Reviews, TreeWrites
  <2>3. QED
    BY <1>2, <2>1, <2>2, LoadOut
<1>3. CASE w.kind \in TreeReads
  <2>1. w.kind \notin Loads \cup Reviews
    BY <1>3, KindFacts DEF Spinning
  <2>2. Reply(u, w) = apply_git_result(u, w)
    BY <1>3, <2>1 DEF Reply, TreeReads, TreeWrites
  <2>3. QED
    BY <1>3, <2>2, GitOut
<1>4. CASE w.kind \notin Loads \cup Reviews /\ w.kind \notin TreeReads
  <2>1. m = l
    BY <1>1, <1>4
  <2>2. CASE w.kind = "check"
    BY <1>4, <2>1, <2>2, CheckOut DEF Reply, TreeReads
  <2>3. CASE w.kind = "catalog"
    BY <1>4, <2>1, <2>3, CatalogOut DEF Reply, TreeReads
  <2>4. CASE w.kind \in lists
    BY <1>4, <2>1, <2>4, WorktreeOut DEF Reply, TreeReads
  <2>5. CASE w.kind \notin lists \cup {"check", "catalog"}
    <3>1. Reply(u, w) = OpenReply(u, w)
      BY <1>4, <2>5 DEF Reply, TreeReads
    <3>2. w.kind \notin Spinning /\ w.kind # "catalog"
      BY <1>4, <2>5 DEF Spinning
    <3>3. QED
      BY <2>1, <3>1, <3>2, OpenOut
  <2>6. QED
    BY <2>2, <2>3, <2>4, <2>5
<1>5. QED
  BY <1>2, <1>3, <1>4

-----------------------------------------------------------------------------
\* The steps

\* A worker that has run is the worker it was, with what it has read.
LEMMA RanKeeps ==
    ASSUME NEW u, NEW l, NEW t, NEW t2, JobsInv(u, l, t), Versions(l, t), Versions(l, t2),
           \A q \in Project : t[q] <= t2[q],
           NEW w \in u.work, NEW x \in JobRecord, ~w.ran,
           x.kind = w.kind, x.p = w.p, x.scope = w.scope, x.listed = w.listed, x.cur = w.cur,
           x.kind \in TreeReads \cup {"catalog"}
             => x.seen = t2 \/ (~x.ok /\ x.seen = w.seen),
           NEW v, v = [u EXCEPT !.work = (@ \ {w}) \cup {x}]
    PROVE  /\ JobsInv(v, l, t2) /\ SameBut(u, v) /\ v.panel = u.panel
           /\ CatalogFresh(u, l) => CatalogFresh(v, l)
           /\ \A k \in Spinning : Spins(u, k) => Spins(v, k)
<1>1. u \in UiRecord
  BY DEF JobsInv, JobsTrue
<1>2. /\ v \in UiRecord /\ SameBut(u, v) /\ v.panel = u.panel
      /\ v.work = (u.work \ {w}) \cup {x}
  BY <1>1 DEF UiRecord, SameBut
<1>3. \A y \in v.work : Registered(y)
  BY <1>2 DEF JobsInv, JobsTrue, Registered
<1>4. Apart(v)
  BY <1>2 DEF JobsInv, JobsTrue, Apart
<1>5. SeenEnough(v, l, t2)
  <2>1. \A y \in u.work : y \in JobRecord /\ Registered(y)
    BY DEF JobsInv, JobsTrue, UiRecord
  <2>2. ASSUME NEW y \in u.work, y.kind \in TreeWrites, NEW q \in Project
        PROVE  y.seen[q] <= t2[q]
    <3>1. y.seen[q] \in Nat /\ t[q] \in Nat /\ t2[q] \in Nat
      BY <2>1, <2>2 DEF JobRecord, Versions
    <3>2. y.seen[q] <= t[q]
      BY <2>2 DEF JobsInv, JobsTrue, SeenEnough
    <3>3. t[q] <= t2[q]
      OBVIOUS
    <3>4. QED
      BY <3>1, <3>2, <3>3
  <2>3. ASSUME x.kind = "status", x.ok
        PROVE  l[x.p] <= x.seen[x.p]
    <3>1. x.seen = t2 /\ x.p \in Project
      BY <2>1, <2>3 DEF TreeReads, Registered
    <3>2. QED
      BY <3>1 DEF Versions
  <2>4. ASSUME x.kind \in TreeWrites, NEW q \in Project
        PROVE  x.seen[q] <= t2[q]
    <3>1. CASE x.seen = t2
      BY <3>1 DEF Versions
    <3>2. CASE x.seen = w.seen
      BY <2>2, <2>4, <3>2
    <3>3. QED
      BY <2>4, <3>1, <3>2 DEF TreeReads
  <2>5. ASSUME NEW y \in u.work, y.kind = "status", y.ran, y.ok
        PROVE  l[y.p] <= y.seen[y.p]
    BY <2>5 DEF JobsInv, JobsTrue, SeenEnough
  <2>6. QED
    BY <1>2, <2>2, <2>3, <2>4, <2>5 DEF SeenEnough
<1>6. SpinsKnown(v)
  BY <1>2 DEF JobsInv, SpinsKnown
<1>7. CatalogFresh(u, l) => CatalogFresh(v, l)
  <2>1. x.kind = "catalog" /\ x.ok => \A q \in Project : l[q] <= x.seen[q]
    BY DEF Versions
  <2>2. QED
    BY <1>2, <2>1 DEF CatalogFresh
<1>8. \A k \in Spinning : Spins(u, k) => Spins(v, k)
  BY <1>2 DEF Spins, SameBut
<1>9. QED
  BY <1>2, <1>3, <1>4, <1>5, <1>6, <1>7, <1>8 DEF JobsInv, JobsTrue

\* What a step keeps of the invariant, seen from the states it joins.
Known(u, l, t) ==
    /\ JobsInv(u, l, t) /\ CatalogFresh(u, l) /\ Versions(l, t)
    /\ \A k \in Spinning : Spins(u, k)

LEMMA AskedOut ==
    ASSUME NEW u, NEW v, NEW l, NEW t, Outcome(u, v, l, t)
    PROVE  Outcome(u, Asked(v), l, t)
<1> DEFINE a == Asked(v)
<1>1. v \in UiRecord /\ JobsInv(v, l, t)
  BY DEF Outcome, JobsInv, JobsTrue
<1>2. v.starts + 1 \in Nat
  BY <1>1 DEF UiRecord
<1>3. /\ a \in UiRecord /\ a.work = v.work /\ a.panel = v.panel /\ a.opened = v.opened
      /\ a.rows = v.rows
  BY <1>1, <1>2 DEF Asked, UiRecord
<1> HIDE DEF a
<1>4. JobsInv(a, l, t) /\ (CatalogFresh(v, l) => CatalogFresh(a, l))
        /\ \A k \in Spinning : Spins(v, k) => Spins(a, k)
  BY <1>1, <1>3, SameJobs
<1>5. QED
  BY <1>3, <1>4 DEF Outcome, NoStepBack, ShowsOpen, a

\* The refreshes of the open project.
LEMMA RefreshOut ==
    ASSUME NEW u, NEW l, NEW t, Known(u, l, t), NEW p \in Project, u.opened = p
    PROVE  /\ Outcome(u, refresh_git(u, p), l, t) /\ Outcome(u, refresh_branches(u, p), l, t)
           /\ Outcome(u, refresh_worktrees(u, p), l, t)
           /\ Outcome(u, refresh_history(u, p), l, t)
           /\ Outcome(u, load_more_history(u, p), l, t)
           /\ Outcome(u, refresh_issues(u, p), l, t)
           /\ Outcome(u, load_more_issues(u, p), l, t)
           /\ Outcome(u, refresh_checks(u, p), l, t) /\ Outcome(u, run_check(u, p), l, t)
           /\ Outcome(u, launch_working_review(u, p), l, t)
<1>1. /\ JobsInv(u, l, t) /\ CatalogFresh(u, l) /\ Versions(l, t)
      /\ \A k \in Spinning : Spins(u, k)
  BY DEF Known
<1>2. /\ Keeps(u, refresh_history(u, p), l, t) /\ Keeps(u, load_more_history(u, p), l, t)
      /\ Keeps(u, refresh_issues(u, p), l, t) /\ Keeps(u, load_more_issues(u, p), l, t)
      /\ Keeps(u, refresh_checks(u, p), l, t)
      /\ Keeps(u, launch_working_review(u, p), l, t)
      /\ Keeps(u, refresh_branches(u, p), l, t) /\ Keeps(u, refresh_worktrees(u, p), l, t)
  BY <1>1, LoadsKeep
<1>3. Keeps(u, refresh_git(u, p), l, t) /\ Keeps(u, run_check(u, p), l, t)
  BY <1>1, StatusKeeps, CheckKeeps
<1>4. \A v : Keeps(u, v, l, t) => Outcome(u, v, l, t)
  BY <1>1, KeepsOut
<1>5. QED
  BY <1>2, <1>3, <1>4

LEMMA MutateOut ==
    ASSUME NEW u, NEW l, NEW t, Known(u, l, t), NEW p \in Project, u.opened = p,
           NEW k \in TreeWrites \cup {"create_worktree", "reconcile_worktrees"},
           ~Refused(u, k, p, JobScope(u, p))
    PROVE  Outcome(u, StartJob(u, k, p), l, t)
<1>1. /\ JobsInv(u, l, t) /\ CatalogFresh(u, l) /\ Versions(l, t)
      /\ \A j \in Spinning : Spins(u, j)
  BY DEF Known
<1> DEFINE n == Worker(k, p, JobScope(u, p), u.opened, TRUE)
<1>2. JobScope(u, p) = Scope[p] /\ JobScope(u, p) \in ScopeName
  BY JobScopeIs
<1>3. k \in Kinds /\ p \in Project \cup {None} /\ u.opened \in Project \cup {None}
  BY DEF Kinds, Mutations, Lifecycle
<1>4. /\ n \in JobRecord /\ n.kind = k /\ n.p = p /\ n.scope = Scope[p]
      /\ n.listed /\ ~n.ran /\ n.seen = Blank
  BY <1>2, <1>3, BlankIs DEF Worker, JobRecord
<1>5. StartJob(u, k, p) = Spawn(u, n)
  BY DEF StartJob
<1> HIDE DEF n
<1>6. k \in TreeWrites => \A x \in u.work : x.kind = "status" => x.p # p
  BY <1>1, NotSkipped
<1>7. k # "status" /\ k # "checks"
  BY DEF TreeWrites
<1>8. NewJob(u, n)
  BY <1>4, <1>6, <1>7 DEF NewJob, Registered
<1>9. Keeps(u, Spawn(u, n), l, t)
  BY <1>1, <1>4, <1>7, <1>8, PlainKeeps
<1>10. QED
  BY <1>1, <1>5, <1>9, KeepsOut

LEMMA WorktreeAsked ==
    ASSUME NEW u, NEW l, NEW t, Known(u, l, t), NEW p \in Worktrees,
           NEW k \in {"move_worktree", "lock_worktree", "remove_worktree"}
    PROVE  Outcome(u, Spawn(u, Worker(k, p, LifecycleScope(u, p), u.opened, TRUE)), l, t)
<1>1. /\ JobsInv(u, l, t) /\ CatalogFresh(u, l) /\ Versions(l, t)
      /\ \A j \in Spinning : Spins(u, j)
  BY DEF Known
<1> DEFINE n == Worker(k, p, LifecycleScope(u, p), u.opened, TRUE)
<1>2. p \in Project /\ Parent[p] \in Project /\ u.opened \in Project \cup {None}
  BY <1>1, GuiAssumption DEF JobsInv, JobsTrue, UiRecord
<1>3. LifecycleScope(u, p) \in ScopeName
  BY <1>2 DEF LifecycleScope, ScopeName
<1>4. k \in Kinds
  BY DEF Kinds, Mutations, Lifecycle
<1>5. n \in JobRecord /\ n.kind = k /\ n.p = p /\ ~n.ran /\ n.seen = Blank
  BY <1>2, <1>3, <1>4, BlankIs DEF Worker, JobRecord
<1> HIDE DEF n
<1>6. k \notin TreeReads /\ k # "checks"
  BY DEF TreeReads, TreeWrites
<1>7. NewJob(u, n)
  BY <1>2, <1>5, <1>6 DEF NewJob, Registered, TreeReads
<1>8. Keeps(u, Spawn(u, n), l, t)
  BY <1>1, <1>5, <1>6, <1>7, PlainKeeps
<1>9. QED
  BY <1>1, <1>8, KeepsOut DEF n

\* A job that opens, imports or removes a project keeps the shell busy.
LEMMA OpenAsked ==
    ASSUME NEW u, NEW l, NEW t, Known(u, l, t), NEW p \in Project, NEW k \in BusyKinds,
           NEW listed \in BOOLEAN
    PROVE  LET v == [Spawn(u, Worker(k, p, JobScope(u, p), u.opened, listed))
                       EXCEPT !.busy = TRUE] IN
           Outcome(u, v, l, t)
<1>1. /\ JobsInv(u, l, t) /\ CatalogFresh(u, l) /\ Versions(l, t)
      /\ \A j \in Spinning : Spins(u, j)
  BY DEF Known
<1> DEFINE n == Worker(k, p, JobScope(u, p), u.opened, listed)
           s == Spawn(u, n)
           v == [s EXCEPT !.busy = TRUE]
<1>2. JobScope(u, p) \in ScopeName /\ u.opened \in Project \cup {None}
  BY <1>1, JobScopeIs DEF JobsInv, JobsTrue, UiRecord
<1>3. k \in Kinds /\ p \in Project \cup {None}
  BY DEF Kinds
<1>4. n \in JobRecord /\ n.kind = k /\ n.p = p /\ ~n.ran /\ n.seen = Blank
  BY <1>2, <1>3, BlankIs DEF Worker, JobRecord
<1> HIDE DEF n
<1>5. k \notin TreeReads /\ k # "checks"
  BY DEF TreeReads, TreeWrites, BusyKinds
<1>6. NewJob(u, n)
  BY <1>4, <1>5 DEF NewJob, Registered, TreeReads
<1>7. Keeps(u, s, l, t)
  BY <1>1, <1>4, <1>5, <1>6, PlainKeeps
<1>8. s \in UiRecord /\ JobsInv(s, l, t)
  BY <1>7 DEF Keeps, JobsInv, JobsTrue
<1> HIDE DEF s
<1>9. /\ v \in UiRecord /\ v.work = s.work /\ v.panel = s.panel /\ v.opened = s.opened
      /\ v.rows = s.rows
  BY <1>8 DEF UiRecord
<1> HIDE DEF v
<1>10. JobsInv(v, l, t) /\ (CatalogFresh(s, l) => CatalogFresh(v, l))
         /\ \A j \in Spinning : Spins(s, j) => Spins(v, j)
  BY <1>8, <1>9, SameJobs
<1>11. Keeps(s, v, l, t)
  BY <1>9, <1>10 DEF Keeps, Stays
<1>12. Keeps(u, v, l, t)
  BY <1>7, <1>11, KeepsOn
<1>13. QED
  BY <1>1, <1>12, KeepsOut DEF v, s, n

\* The two records beside the shell's own.
Tallies ==
    /\ world = [tree |-> world.tree, checks |-> world.checks]
    /\ landed = [tree |-> landed.tree, checks |-> landed.checks]
    /\ world.checks \in [Project -> Nat]
    /\ menu \subseteq Kinds

LEMMA PanelsKnown ==
    PanelsInv <=> Known(ui, landed.tree, world.tree) /\ Tallies
BY DEF PanelsInv, Known, Tallies

LEMMA PanelsStart ==
    GuiInit => PanelsInv
<1> SUFFICES ASSUME GuiInit
             PROVE  PanelsInv
  OBVIOUS
<1>1. PICK known \in BOOLEAN :
        ui = [opened |-> None, busy |-> FALSE, known |-> known,
              panel |-> [k \in Panels |-> Empty], rows |-> Blank, work |-> {}, starts |-> 0]
  BY DEF GuiInit
<1> DEFINE panel == [k \in Panels |-> Empty]
<1>2. panel \in [Panels -> PanelRow] /\ \A k \in Panels : ~panel[k].loading
  BY KindFacts
<1>3. ui.panel = panel /\ ui.work = {} /\ ui.opened = None
  BY <1>1
<1> HIDE DEF panel
<1>4. ui \in UiRecord
  BY <1>1, <1>2, BlankIs DEF UiRecord, panel
<1>5. JobsTrue(ui, landed.tree, world.tree) /\ CatalogFresh(ui, landed.tree)
  BY <1>3, <1>4 DEF JobsTrue, Apart, SeenEnough, CatalogFresh
<1>6. SpinsKnown(ui)
  BY <1>2, <1>3, KindFacts DEF SpinsKnown
<1>7. \A k \in Spinning : Spins(ui, k)
  BY <1>3, NothingSpins
<1>8. landed.tree = Blank /\ world.tree = [p \in Project |-> 1]
        /\ world.checks = [p \in Project |-> 1]
        /\ world = [tree |-> world.tree, checks |-> world.checks]
        /\ landed = [tree |-> landed.tree, checks |-> landed.checks]
  BY DEF GuiInit
<1>9. Versions(landed.tree, world.tree) /\ world.checks \in [Project -> Nat]
  BY <1>8 DEF Versions, Blank
<1>10. menu \subseteq Kinds
  BY GuiAssumption DEF GuiInit
<1>11. QED
  BY <1>5, <1>6, <1>7, <1>8, <1>9, <1>10 DEF PanelsInv, JobsInv

LEMMA PanelsGoOn ==
    ASSUME menu' = menu, Outcome(ui, ui', landed'.tree, world'.tree),
           Versions(landed'.tree, world'.tree), Tallies'
    PROVE  PanelsInv'
<1>1. /\ JobsTrue(ui', landed'.tree, world'.tree) /\ SpinsKnown(ui')
      /\ CatalogFresh(ui', landed'.tree)
      /\ \A k \in Spinning : Spins(ui', k)
  BY DEF Outcome, JobsInv
<1>2. SpinsKnown(ui)'
  BY <1>1 DEF SpinsKnown
<1>3. JobsTrue(ui, landed.tree, world.tree)'
  BY <1>1 DEF JobsTrue, Apart, SeenEnough, Registered
<1>4. CatalogFresh(ui, landed.tree)'
  BY <1>1 DEF CatalogFresh
<1>5. (\A k \in Spinning : Spins(ui, k))'
  BY <1>1 DEF Spins
<1>6. Versions(landed.tree, world.tree)'
  BY DEF Versions
<1>7. QED
  BY <1>2, <1>3, <1>4, <1>5, <1>6 DEF PanelsInv, JobsInv, Tallies

\* What every step comes to.
StepTrue ==
    /\ Outcome(ui, ui', landed'.tree, world'.tree)
    /\ Versions(landed'.tree, world'.tree) /\ Tallies' /\ menu' = menu

LEMMA AskTrue ==
    ASSUME PanelsInv, NEW k, NEW v, Ask(k, v), Outcome(ui, v, landed.tree, world.tree)
    PROVE  StepTrue
<1>1. ui' = Asked(v) /\ world' = world /\ landed' = landed /\ menu' = menu
  BY DEF Ask
<1>2. Outcome(ui, Asked(v), landed.tree, world.tree)
  BY AskedOut
<1>3. Versions(landed.tree, world.tree) /\ Tallies
  BY DEF PanelsInv, Tallies
<1>4. Tallies'
  BY <1>1, <1>3 DEF Tallies
<1>5. QED
  BY <1>1, <1>2, <1>3, <1>4 DEF StepTrue

LEMMA AsksTrue ==
    ASSUME PanelsInv,
           \/ RefreshCatalog \/ Close
           \/ \E p \in Project :
                Refresh(p) \/ \E k \in Kinds : Mutate(k, p) \/ ChangeWorktree(k, p) \/ Open(k, p)
    PROVE  StepTrue
<1> DEFINE l == landed.tree
           t == world.tree
<1>1. Known(ui, l, t)
  BY PanelsKnown
<1>2. /\ JobsInv(ui, l, t) /\ CatalogFresh(ui, l) /\ Versions(l, t)
      /\ \A k \in Spinning : Spins(ui, k)
  BY <1>1 DEF Known
<1>3. \A k, v : Ask(k, v) /\ Outcome(ui, v, l, t) => StepTrue
  BY AskTrue
<1> HIDE DEF l, t
<1>4. CASE RefreshCatalog
  <2>1. Outcome(ui, refresh(ui), l, t)
    BY <1>2, CatalogKeeps, KeepsOut
  <2>2. QED
    BY <1>3, <1>4, <2>1 DEF RefreshCatalog
<1>5. CASE Close
  <2>1. Outcome(ui, close_project(ui), l, t)
    BY <1>2, CloseTurns, TurnsOut
  <2>2. QED
    BY <1>3, <1>5, <2>1 DEF Close
<1>6. ASSUME NEW p \in Project, Refresh(p)
      PROVE  StepTrue
  <2>1. ui.opened = p
    BY <1>6 DEF Refresh
  <2>2. /\ Outcome(ui, refresh_git(ui, p), l, t) /\ Outcome(ui, refresh_branches(ui, p), l, t)
        /\ Outcome(ui, refresh_worktrees(ui, p), l, t)
        /\ Outcome(ui, refresh_history(ui, p), l, t)
        /\ Outcome(ui, load_more_history(ui, p), l, t)
        /\ Outcome(ui, refresh_issues(ui, p), l, t)
        /\ Outcome(ui, load_more_issues(ui, p), l, t)
        /\ Outcome(ui, refresh_checks(ui, p), l, t) /\ Outcome(ui, run_check(ui, p), l, t)
        /\ Outcome(ui, launch_working_review(ui, p), l, t)
    BY <1>1, <2>1, RefreshOut
  <2>3. QED
    BY <1>3, <1>6, <2>2 DEF Refresh
<1>7. ASSUME NEW p \in Project, NEW k \in Kinds, Mutate(k, p)
      PROVE  StepTrue
  <2>1. Outcome(ui, StartJob(ui, k, p), l, t)
    BY <1>1, <1>7, MutateOut DEF Mutate
  <2>2. QED
    BY <1>3, <1>7, <2>1 DEF Mutate
<1>8. ASSUME NEW p \in Project, NEW k \in Kinds, ChangeWorktree(k, p)
      PROVE  StepTrue
  <2>1. Outcome(ui, Spawn(ui, Worker(k, p, LifecycleScope(ui, p), ui.opened, TRUE)), l, t)
    BY <1>1, <1>8, WorktreeAsked DEF ChangeWorktree
  <2>2. QED
    BY <1>3, <1>8, <2>1 DEF ChangeWorktree
<1>9. ASSUME NEW p \in Project, NEW k \in Kinds, Open(k, p)
      PROVE  StepTrue
  <2> DEFINE listed == k \in {"import", "remove_managed"}
             v == [Spawn(ui, Worker(k, p, JobScope(ui, p), ui.opened, listed)) EXCEPT !.busy = TRUE]
  <2>1. k \in BusyKinds /\ listed \in BOOLEAN /\ Ask(k, v)
    BY <1>9 DEF Open
  <2> HIDE DEF listed
  <2>2. Outcome(ui, v, l, t)
    BY <1>1, <2>1, OpenAsked
  <2> HIDE DEF v
  <2>3. QED
    BY <1>3, <2>1, <2>2
<1>10. QED
  BY <1>4, <1>5, <1>6, <1>7, <1>8, <1>9

LEMMA RunTrue ==
    ASSUME PanelsInv, NEW w \in ui.work, Run(w)
    PROVE  StepTrue
<1> DEFINE l == landed.tree
           t == world.tree
           wrote == w.kind \in TreeWrites
<1>1. /\ JobsInv(ui, l, t) /\ CatalogFresh(ui, l) /\ Versions(l, t)
      /\ \A k \in Spinning : Spins(ui, k)
      /\ ui \in UiRecord
  BY DEF PanelsInv, JobsInv, JobsTrue
<1>2. w \in JobRecord /\ Registered(w) /\ ~w.ran
  BY <1>1 DEF JobsInv, JobsTrue, UiRecord, Run
<1>3. wrote => w.p \in Project
  BY <1>2 DEF Registered, TreeWrites
<1>4. world = [tree |-> t, checks |-> world.checks] /\ world.checks \in [Project -> Nat]
        /\ t \in [Project -> Nat]
  BY DEF PanelsInv, Versions
<1> DEFINE t2 == IF wrote THEN [t EXCEPT ![w.p] = @ + 1] ELSE t
           Checks(ok) == IF w.kind = "check" /\ ok THEN [world.checks EXCEPT ![w.p] = @ + 1]
                         ELSE world.checks
           Read(ok) == IF w.kind \in {"check", "checks"} THEN Checks(ok) ELSE t2
<1>5. PICK ok \in {TRUE, ~MayFail} :
        /\ world' = [tree |-> t2, checks |-> Checks(ok)]
        /\ ui' = [ui EXCEPT !.work = (@ \ {w}) \cup
                    {[w EXCEPT !.ran = TRUE, !.ok = ok, !.seen = IF ok THEN Read(ok) ELSE @]}]
  BY DEF Run
<1>6. landed' = landed /\ menu' = menu
  BY DEF Run
<1> DEFINE c2 == Checks(ok)
           seen == IF ok THEN Read(ok) ELSE w.seen
           x == [w EXCEPT !.ran = TRUE, !.ok = ok, !.seen = seen]
<1>7. world' = [tree |-> t2, checks |-> c2]
  BY <1>5
<1>8. ui' = [ui EXCEPT !.work = (@ \ {w}) \cup {x}]
  BY <1>5
<1>9. t2 \in [Project -> Nat] /\ \A q \in Project : t[q] <= t2[q]
  BY <1>3, <1>4
<1>10. c2 \in [Project -> Nat]
  BY <1>2, <1>4 DEF Registered
<1>11. ok \in BOOLEAN
  BY GuiAssumption
<1>12. seen \in [Project -> Nat] /\ (ok /\ w.kind \notin {"check", "checks"} => seen = t2)
         /\ (~ok => seen = w.seen)
  BY <1>2, <1>9, <1>10 DEF JobRecord
<1> HIDE DEF t2, c2, Checks, Read, seen
<1>13. /\ x \in JobRecord /\ x.kind = w.kind /\ x.p = w.p /\ x.scope = w.scope
       /\ x.listed = w.listed /\ x.cur = w.cur /\ x.ok = ok /\ x.seen = seen
  BY <1>2, <1>11, <1>12 DEF JobRecord
<1>14. x.kind \in TreeReads \cup {"catalog"} => x.seen = t2 \/ (~x.ok /\ x.seen = w.seen)
  BY <1>12, <1>13 DEF TreeReads, TreeWrites
<1> HIDE DEF x
<1>15. Versions(l, t2)
  <2>1. SUFFICES ASSUME NEW q \in Project
                 PROVE  l[q] <= t2[q]
    BY <1>1, <1>9 DEF Versions
  <2>2. l[q] \in Nat /\ t[q] \in Nat /\ t2[q] \in Nat /\ l[q] <= t[q] /\ t[q] <= t2[q]
    BY <1>1, <1>9 DEF Versions
  <2>3. QED
    BY <2>2
<1> HIDE DEF l, t
<1>16. /\ JobsInv(ui', l, t2) /\ SameBut(ui, ui') /\ ui'.panel = ui.panel
       /\ CatalogFresh(ui, l) => CatalogFresh(ui', l)
       /\ \A k \in Spinning : Spins(ui, k) => Spins(ui', k)
  BY <1>1, <1>2, <1>8, <1>9, <1>13, <1>14, <1>15, RanKeeps
<1>17. Outcome(ui, ui', l, t2)
  BY <1>1, <1>16 DEF Outcome, NoStepBack, ShowsOpen, SameBut
<1>18. landed'.tree = l /\ world'.tree = t2 /\ world'.checks = c2
  BY <1>6, <1>7 DEF l
<1>19. Tallies'
  BY <1>6, <1>7, <1>10 DEF PanelsInv, Tallies
<1>20. QED
  BY <1>6, <1>15, <1>17, <1>18, <1>19 DEF StepTrue

LEMMA DeliverTrue ==
    ASSUME PanelsInv, NEW w \in ui.work, Deliver(w)
    PROVE  StepTrue
<1> DEFINE l == landed.tree
           t == world.tree
           m == Landing(l, w)
<1>1. /\ JobsInv(ui, l, t) /\ CatalogFresh(ui, l) /\ Versions(l, t)
      /\ \A k \in Spinning : Spins(ui, k)
  BY DEF PanelsInv
<1>2. w.ran /\ ui' = Reply(ui, w) /\ world' = world /\ menu' = menu
  BY DEF Deliver
<1>3. landed'.tree = m /\ landed' = [tree |-> landed'.tree, checks |-> landed'.checks]
  <2>1. landed = [tree |-> l, checks |-> landed.checks]
    BY DEF PanelsInv
  <2>2. CASE ~w.ok
    BY <2>1, <2>2 DEF Deliver, Landing
  <2>3. CASE w.ok /\ w.kind \in TreeWrites
    <3>1. landed' = [landed EXCEPT !.tree[w.p] = w.seen[w.p]]
      BY <2>3 DEF Deliver
    <3>2. QED
      BY <2>1, <2>3, <3>1 DEF Landing
  <2>4. CASE w.ok /\ w.kind \notin TreeWrites
    <3>1. landed' = [landed EXCEPT !.checks[w.p] = w.seen[w.p]] \/ landed' = landed
      BY <2>4 DEF Deliver
    <3>2. QED
      BY <2>1, <2>4, <3>1 DEF Landing
  <2>5. QED
    BY <2>2, <2>3, <2>4
<1> HIDE DEF l, t
<1>4. Outcome(ui, Reply(ui, w), m, t) /\ Versions(m, t)
  BY <1>1, <1>2, ReplyOut
<1>5. world'.tree = t
  BY <1>2 DEF t
<1>6. Tallies'
  BY <1>2, <1>3 DEF PanelsInv, Tallies
<1>7. QED
  BY <1>2, <1>3, <1>4, <1>5, <1>6 DEF StepTrue

LEMMA PanelsStep ==
    ASSUME PanelsInv, [GuiNext]_guiVars
    PROVE  /\ PanelsInv'
           /\ \/ UNCHANGED guiVars
              \/ NoStepBack(ui, ui', landed'.tree) /\ ShowsOpen(ui, ui')
<1>1. CASE GuiNext
  <2>1. StepTrue
    BY <1>1, AsksTrue, RunTrue, DeliverTrue DEF GuiNext, Answers
  <2>2. PanelsInv'
    BY <2>1, PanelsGoOn DEF StepTrue
  <2>3. QED
    BY <2>1, <2>2 DEF StepTrue, Outcome
<1>2. CASE UNCHANGED guiVars
  <2>1. ui' = ui /\ world' = world /\ landed' = landed /\ menu' = menu
    BY <1>2 DEF guiVars
  <2>2. PanelsInv'
    BY <2>1 DEF PanelsInv, JobsInv, JobsTrue, SpinsKnown, CatalogFresh, Spins, Versions,
                Apart, SeenEnough, Registered
  <2>3. QED
    BY <1>2, <2>2
<1>3. QED
  BY <1>1, <1>2

\* What the front end shows is never taken back, never about another project,
\* and never waits for nothing: for any projects, worktrees and domains, any
\* menus of jobs, and any number of requests and workers in any order.  Two jobs
\* of one domain that touch the working tree are never in flight together
\* (jobs_conflict), and a reply that lands retires the reloads it has overtaken.
THEOREM PanelsAreTrue == GuiSpec => PanelsTrue
<1>1. PanelsInv => SpinnersHaveReplies
  BY DEF PanelsInv, SpinnersHaveReplies, Spins, Spinning
<1>2. PanelsInv /\ [GuiNext]_guiVars => PanelsInv'
  BY PanelsStep
<1>3. PanelsInv /\ [GuiNext]_guiVars
        => [ \A p \in Project :
               /\ (ui'.panel["git"] # ui.panel["git"] /\ ui'.panel["git"].of = p)
                    => ui'.panel["git"].ver >= landed'.tree[p]
               /\ (ui'.rows[p] # ui.rows[p] /\ ui'.rows[p] > 0)
                    => ui'.rows[p] >= landed'.tree[p] ]_guiVars
  BY PanelsStep DEF NoStepBack
<1>4. PanelsInv /\ [GuiNext]_guiVars
        => [ \A k \in (Panels \ {"worktrees"}) :
               (ui'.panel[k] # ui.panel[k] /\ ui'.panel[k].of # None)
                 => ui'.panel[k].of = ui'.opened ]_guiVars
  BY PanelsStep DEF ShowsOpen
<1>5. QED
  BY <1>1, <1>2, <1>3, <1>4, PanelsStart, PTL
    DEF GuiSpec, PanelsTrue, NothingGoesBack, ShownIsOpen
=============================================================================
