------------------------------ MODULE Document ------------------------------
(***************************************************************************)
(* The searchable record of one file (crep-indexer/src/index/document.rs). *)
(*                                                                         *)
(* words[w] exists once w was ever added.  Its word_history holds the keys *)
(* of the lines of the current version that contain w; its                 *)
(* commit_inclutivity is the bitmap of commits whose version contained w.  *)
(* The bitmap is filled lazily: additions set one bit, and the stretch up  *)
(* to a removal, or up to the head, is filled when it is known.            *)
(***************************************************************************)
EXTENDS Integers, FiniteSets, FiniteSetsExt

\* AHashMap::entry(..).or_default() of a word that was never added.
DefaultWordIndex == [word_history |-> {}, commit_inclutivity |-> {}]

EmptyDocument ==
  [words                |-> [w \in {} |-> DefaultWordIndex],
   all_words            |-> <<>>,   \* None, or <<keys>> once finalized
   doc_modified_commits |-> {},
   is_deleted           |-> FALSE]

\* RoaringBitmap::insert_range(first..end), which excludes end.
InsertRange(bits, first, end) == bits \cup first..(end - 1)

LastBit(bits) == Max(bits)

IndexOf(doc, w) ==
  IF w \in DOMAIN doc.words THEN doc.words[w] ELSE DefaultWordIndex

\* A variant that sets the bit of a word only when the word is already known.
AddWordsWithoutFirstBit(doc, c, tokens) ==
  LET touched(w) ==
        [word_history       |-> IndexOf(doc, w).word_history \cup tokens[w],
         commit_inclutivity |-> IF w \in DOMAIN doc.words
                                  THEN doc.words[w].commit_inclutivity \cup {c} ELSE {}]
  IN  [doc EXCEPT
         !.words = [w \in DOMAIN doc.words \cup DOMAIN tokens |->
                      IF w \in DOMAIN tokens THEN touched(w) ELSE doc.words[w]],
         !.doc_modified_commits = @ \cup {c}]

\* A variant that leaves the bits of a word alone while other lines have it.
AddWordsOnceLive(doc, c, tokens) ==
  LET touched(w) ==
        [word_history       |-> IndexOf(doc, w).word_history \cup tokens[w],
         commit_inclutivity |-> IndexOf(doc, w).commit_inclutivity
                                  \cup (IF IndexOf(doc, w).word_history = {} THEN {c} ELSE {})]
  IN  [doc EXCEPT
         !.words = [w \in DOMAIN doc.words \cup DOMAIN tokens |->
                      IF w \in DOMAIN tokens THEN touched(w) ELSE doc.words[w]],
         !.doc_modified_commits = @ \cup {c}]

\* tokens[w] is the set of keys of the added lines that contain w.
AddWords(doc, c, tokens) ==
  LET touched(w) ==
        [word_history       |-> IndexOf(doc, w).word_history \cup tokens[w],
         commit_inclutivity |-> IndexOf(doc, w).commit_inclutivity \cup {c}]
  IN  [doc EXCEPT
         !.words = [w \in DOMAIN doc.words \cup DOMAIN tokens |->
                      IF w \in DOMAIN tokens THEN touched(w) ELSE doc.words[w]],
         !.doc_modified_commits = @ \cup {c}]

\* update_commit_inclutivity_after_removal
AfterRemoval(index, c) ==
  LET bits == index.commit_inclutivity
  IN  IF index.word_history # {} THEN index
      ELSE IF bits # {}
        THEN [index EXCEPT !.commit_inclutivity = InsertRange(@, LastBit(bits), c - 1)]
        ELSE [index EXCEPT !.commit_inclutivity = {c - 1}]

\* A variant that does not mark the commit.
RemoveWordsUnmarked(doc, c, keys) ==
  [doc EXCEPT
     !.words = [w \in DOMAIN doc.words |->
                  IF w \in DOMAIN keys
                    THEN AfterRemoval([doc.words[w] EXCEPT !.word_history = @ \ keys[w]], c)
                    ELSE doc.words[w]]]

\* A variant that forgets words no line contains any more.
RemoveWordsForgotten(doc, c, keys) ==
  LET left(w) == doc.words[w].word_history \ keys[w]
      kept == {w \in DOMAIN doc.words : w \in DOMAIN keys => left(w) # {}}
  IN  [doc EXCEPT
         !.words = [w \in kept |->
                      IF w \in DOMAIN keys
                        THEN AfterRemoval([doc.words[w] EXCEPT !.word_history = @ \ keys[w]], c)
                        ELSE doc.words[w]],
         !.doc_modified_commits = @ \cup {c}]

\* keys[w] is the set of keys of the deleted lines that contain w.
RemoveWords(doc, c, keys) ==
  [doc EXCEPT
     !.words = [w \in DOMAIN doc.words |->
                  IF w \in DOMAIN keys
                    THEN AfterRemoval([doc.words[w] EXCEPT !.word_history = @ \ keys[w]], c)
                    ELSE doc.words[w]],
     !.doc_modified_commits = @ \cup {c}]

\* A variant that fills the words of the file up to the commit that removes it.
RemoveDocumentInclusive(doc, c) ==
  LET emptied(index) ==
        [word_history       |-> {},
         commit_inclutivity |-> InsertRange(index.commit_inclutivity,
                                            LastBit(index.commit_inclutivity), c + 1)]
  IN  [doc EXCEPT
         !.words = [w \in DOMAIN doc.words |->
                      IF doc.words[w].word_history # {}
                        THEN emptied(doc.words[w]) ELSE doc.words[w]],
         !.doc_modified_commits = @ \cup {c},
         !.is_deleted = TRUE]

RemoveDocument(doc, c) ==
  LET emptied(index) ==
        [word_history       |-> {},
         commit_inclutivity |-> InsertRange(index.commit_inclutivity,
                                            LastBit(index.commit_inclutivity), c)]
  IN  [doc EXCEPT
         !.words = [w \in DOMAIN doc.words |->
                      IF doc.words[w].word_history # {}
                        THEN emptied(doc.words[w]) ELSE doc.words[w]],
         !.doc_modified_commits = @ \cup {c},
         !.is_deleted = TRUE]

\* A variant that fills up to the commit before the head.
FinalizeBeforeHead(doc, head) ==
  LET filled(index) ==
        LET bits == index.commit_inclutivity
        IN  IF head \in bits \/ index.word_history = {} THEN index
            ELSE IF bits # {}
              THEN [index EXCEPT !.commit_inclutivity = InsertRange(@, LastBit(bits), head)]
              ELSE [index EXCEPT !.commit_inclutivity = {head}]
  IN  [doc EXCEPT !.words = [w \in DOMAIN doc.words |-> filled(doc.words[w])],
                  !.all_words = <<DOMAIN doc.words>>]

\* Fills every live word up to the head commit.
Finalize(doc, head) ==
  LET filled(index) ==
        LET bits == index.commit_inclutivity
        IN  IF head \in bits \/ index.word_history = {} THEN index
            ELSE IF bits # {}
              THEN [index EXCEPT !.commit_inclutivity = InsertRange(@, LastBit(bits), head + 1)]
              ELSE [index EXCEPT !.commit_inclutivity = {head}]
  IN  [doc EXCEPT !.words = [w \in DOMAIN doc.words |-> filled(doc.words[w])],
                  !.all_words = <<DOMAIN doc.words>>]
=============================================================================
