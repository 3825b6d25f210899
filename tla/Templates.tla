----------------------------- MODULE Templates -----------------------------
(***************************************************************************)
(* Template mining and the dictionary (drain.rs, mask.rs, template_dict.rs *)
(* and the template tables of catalog.rs): a line is masked, finds or      *)
(* mints a template and is labelled with the hash of the template's text;  *)
(* the merge records what a hash stands for, counts its rows and persists  *)
(* the templates, and the dictionary is written from the catalog.          *)
(*                                                                         *)
(* A word of a line is what masking tells of it: its text, the placeholder *)
(* classify gives it, whether it is a unit or a bracketed component, and   *)
(* how long the parenthesised aside is that it opens.  The hash of a text  *)
(* is the text: two texts of one hash, which the code counts, are left     *)
(* out.  A WAL segment is one row.  Memory is lost in a crash; the WAL,    *)
(* the store and the catalog are not.                                      *)
(***************************************************************************)
EXTENDS Naturals, Sequences, FiniteSets, SequencesExt, FiniteSetsExt

CONSTANTS
    RawLines,             \* lines: sequences of [text, mask, unit, component, aside]
    Placeholders,         \* tokens that stand for something masked, and WILDCARD
    TokenLevels, max_children, max_templates,
    SimilarityPercent,    \* DrainConfig::similarity_threshold
    MaxMined, MaxForeign, MaxMinerCrashes   \* bounds

WILDCARD == "<*>"

ASSUME TemplatesAssumption == WILDCARD \in Placeholders /\ TokenLevels \in Nat \ {0} /\ max_templates \in Nat

VARIABLES
    templates,     \* Drain::templates: [tokens, lineage] by counter
    treeNodes,     \* the paths of Drain::roots
    leafOf,        \* where in the tree a template hangs
    shapes,        \* Drain::shapes: the lineage of every text held
    lineages,      \* Drain::lineages
    nextId,        \* Drain::next_id
    walRows,       \* rows not yet merged: [n, line, shape, own, epoch], own when labelled here
    storeRows,     \* rows in the store
    catTemplates, catShapes, catSightings, catMerged,   \* the catalog's tables
    dictionary,    \* the exported dictionary
    mergePhase,    \* where the merge of the oldest row is
    mergeRow,      \* that row as the merge has labelled it, or <<>>
    unexported,    \* MergeReport::segments_merged > 0
    minerEpoch,    \* process starts
    mined, foreign,
    firstMatch     \* history: the template a line went to first

minerVars == <<templates, treeNodes, leafOf, shapes, lineages, nextId>>
catalogVars == <<catTemplates, catShapes, catSightings, catMerged>>
mergeVars == <<mergePhase, mergeRow, unexported>>
templateVars == <<minerVars, catalogVars, mergeVars, walRows, storeRows, dictionary, minerEpoch, mined, foreign, firstMatch>>

With(f, x, y) == [z \in DOMAIN f \cup {x} |-> IF z = x THEN y ELSE f[z]]
Unlabelled == <<>>

TemplatesInit ==
    /\ templates = << >> /\ treeNodes = {} /\ leafOf = << >> /\ shapes = << >> /\ lineages = {} /\ nextId = 1
    /\ walRows = <<>> /\ storeRows = {} /\ catTemplates = << >> /\ catShapes = << >> /\ catSightings = << >> /\ catMerged = {}
    /\ dictionary = << >> /\ mergePhase = "idle" /\ mergeRow = <<>> /\ unexported = FALSE /\ minerEpoch = 0
    /\ mined = 0 /\ foreign = 0 /\ firstMatch = << >>

-----------------------------------------------------------------------------
(* Masking.                                                                *)

(* classify: a variable word is its placeholder, another its text.         *)
Masked(word) == IF word.mask = "" THEN word.text ELSE word.mask

(* mask_line: an aside with a value in it is deleted, and so is a unit     *)
(* after something masked; a leading component is a placeholder.           *)
MaskLine(line) ==
    FoldLeft(LAMBDA done, i :
                 LET word == line[i]
                 IN CASE i <= done.skipped -> done
                      [] i > done.skipped /\ word.aside > 0 -> [done EXCEPT !.skipped = i + word.aside - 1]
                      [] i > done.skipped /\ word.aside = 0 /\ word.unit
                             /\ done.tokens # <<>> /\ Last(done.tokens) \in Placeholders -> done
                      [] OTHER -> [done EXCEPT !.tokens = Append(@, IF word.component /\ i <= 2 THEN "<COMP>"
                                                                    ELSE Masked(word))],
             [tokens |-> <<>>, skipped |-> 0], [i \in 1..Len(line) |-> i]).tokens

-----------------------------------------------------------------------------
(* The tree.                                                               *)

(* tree_key: a variable token takes the wildcard branch.                   *)
TreeKey(token) == IF token \in Placeholders THEN WILDCARD ELSE token

Leading(tokens) == SubSeq(tokens, 1, Min({TokenLevels, Len(tokens)}))
Root(tokens) == <<ToString(Len(tokens))>>
Nowhere == <<>>

(* leaf_templates: the branch of the token, else the wildcard's.           *)
LeafFor(nodes, tokens) ==
    FoldLeft(LAMBDA at, token :
                 IF Append(at, TreeKey(token)) \in nodes THEN Append(at, TreeKey(token))
                 ELSE IF Append(at, WILDCARD) \in nodes THEN Append(at, WILDCARD) ELSE Nowhere,
             Root(tokens), Leading(tokens))

(* insert_into_tree: past max_children a new branch is the wildcard's.     *)
InsertPath(nodes, tokens) ==
    FoldLeft(LAMBDA at, token :
                 LET key == TreeKey(token)
                     children == {n \in nodes : Len(n) = Len(at) + 1 /\ IsPrefix(at, n)}
                 IN Append(at, IF Append(at, key) \notin nodes /\ Cardinality(children) >= max_children
                               THEN WILDCARD ELSE key),
             Root(tokens), Leading(tokens))

PathsTo(path) == {SubSeq(path, 1, i) : i \in 1..Len(path)}

-----------------------------------------------------------------------------
(* Matching and widening.                                                  *)

(* similarity: over the positions where neither side is variable.          *)
Comparable(text, line) == {i \in DOMAIN text : text[i] \notin Placeholders /\ line[i] \notin Placeholders}
Agreeing(text, line) == {i \in Comparable(text, line) : text[i] = line[i]}
Score(text, line) ==
    IF Comparable(text, line) = {} THEN 100
    ELSE (100 * Cardinality(Agreeing(text, line))) \div Cardinality(Comparable(text, line))

(* match_masked: the templates of the leaf that are near enough, and the   *)
(* best of them, the last pushed among equals.                             *)
Near(line) == {id \in DOMAIN templates : leafOf[id] = LeafFor(treeNodes, line)
                                         /\ Score(templates[id].tokens, line) >= SimilarityPercent}
Best(line) ==
    CHOOSE id \in Near(line) : \A o \in Near(line) \ {id} :
        \/ Score(templates[id].tokens, line) > Score(templates[o].tokens, line)
        \/ Score(templates[id].tokens, line) = Score(templates[o].tokens, line) /\ id > o

(* merge_into: what differs becomes the wildcard.                          *)
Widened(text, line) == [i \in DOMAIN text |-> IF text[i] = line[i] \/ text[i] = WILDCARD THEN text[i] ELSE WILDCARD]

(* shape_id: the hash after the line was merged into the template.         *)
Label(before, after) == after

(* note_shape: the first template to hold a text names its lineage.        *)
NoteShape(known, text, lineage) == IF text \in DOMAIN known THEN known ELSE With(known, text, lineage)

(* The hash of the text it was minted with, salted when that is taken.     *)
NewLineage(text, id) ==
    IF [text |-> text, salt |-> 0] \in lineages THEN [text |-> text, salt |-> id] ELSE [text |-> text, salt |-> 0]

-----------------------------------------------------------------------------
(* Drain::add_line.                                                        *)

TemplateRoom == Cardinality(DOMAIN templates) < max_templates

Matched(line, id) == With(firstMatch, line, {id} \cup (IF line \in DOMAIN firstMatch THEN firstMatch[line] ELSE {}))

(* The id the line gets: none when no template is near and the cap is met. *)
MinedLabel(line) ==
    IF Near(line) # {} THEN Label(templates[Best(line)].tokens, Widened(templates[Best(line)].tokens, line))
    ELSE IF TemplateRoom THEN line ELSE Unlabelled

Widen(line) ==
    /\ Near(line) # {}
    /\ LET id == Best(line)
           text == Widened(templates[id].tokens, line)
       IN /\ templates' = [templates EXCEPT ![id].tokens = text]
          /\ shapes' = NoteShape(shapes, text, templates[id].lineage)
          /\ firstMatch' = Matched(line, id)
    /\ UNCHANGED <<treeNodes, leafOf, lineages, nextId>>

Mint(line) ==
    /\ Near(line) = {} /\ TemplateRoom
    /\ LET path == InsertPath(treeNodes, line)
           lineage == NewLineage(line, nextId)
       IN /\ treeNodes' = treeNodes \cup PathsTo(path)
          /\ leafOf' = With(leafOf, nextId, path)
          /\ templates' = With(templates, nextId, [tokens |-> line, lineage |-> lineage])
          /\ lineages' = lineages \cup {lineage}
          /\ shapes' = NoteShape(shapes, line, lineage)
    /\ firstMatch' = Matched(line, nextId)
    /\ nextId' = nextId + 1

AddLine(line) ==
    \/ Widen(line)
    \/ Mint(line)
    \/ Near(line) = {} /\ ~TemplateRoom /\ UNCHANGED <<minerVars, firstMatch>>

-----------------------------------------------------------------------------
(* Ingest.  The merge pass holds the miner's lock.                         *)

AppendRow(line, shape, own) ==
    walRows' = Append(walRows, [n |-> mined + foreign, line |-> line, shape |-> shape, own |-> own, epoch |-> minerEpoch])

IngestLine == \E raw \in RawLines :
    LET line == MaskLine(raw)
    IN
    /\ mergePhase = "idle" /\ mined < MaxMined /\ mined' = mined + 1
    /\ AddLine(line)
    /\ AppendRow(line, MinedLabel(line), TRUE)
    /\ UNCHANGED <<catalogVars, mergeVars, storeRows, dictionary, minerEpoch, foreign>>

(* A record another instance labelled keeps its id and is not mined.       *)
IngestForeign == \E raw \in RawLines :
    LET line == MaskLine(raw)
    IN
    /\ mergePhase = "idle" /\ foreign < MaxForeign /\ foreign' = foreign + 1
    /\ AppendRow(line, line, FALSE)
    /\ UNCHANGED <<minerVars, catalogVars, mergeVars, storeRows, dictionary, minerEpoch, mined, firstMatch>>

-----------------------------------------------------------------------------
(* The merge of a segment, and the export.                                 *)

MergeStep(from, to) ==
    /\ mergePhase = from /\ mergePhase' = to
    /\ UNCHANGED <<minerEpoch, mined, foreign>>

(* Mutant of SkipsMerged: a segment the marker names is merged again.      *)
SkipsMergedNot == FALSE

(* A segment whose commit landed before a crash is only removed.           *)
SkipsMerged == mergePhase = "idle" /\ walRows # <<>> /\ Head(walRows).n \in catMerged

(* A row that came without an id is mined now.  register_shapes: for the   *)
(* hashes whose text the miner knows.                                      *)
RegisterShapes ==
    /\ walRows # <<>> /\ ~SkipsMerged
    /\ MergeStep("idle", "registered")
    /\ LET row == Head(walRows)
           shape == IF row.shape = Unlabelled THEN MinedLabel(row.line) ELSE row.shape
       IN /\ IF row.shape = Unlabelled THEN AddLine(row.line) ELSE UNCHANGED <<minerVars, firstMatch>>
          /\ mergeRow' = <<[n |-> row.n, line |-> row.line, shape |-> shape, own |-> row.own /\ shape # Unlabelled,
                            fresh |-> row.epoch = minerEpoch \/ row.shape = Unlabelled]>>
          /\ catShapes' = IF shape \in DOMAIN shapes' /\ shape \notin DOMAIN catShapes
                          THEN With(catShapes, shape, shapes'[shape]) ELSE catShapes
    /\ UNCHANGED <<catTemplates, catSightings, catMerged, walRows, storeRows, dictionary, unexported>>

(* upsert_sighting adds the rows to the ones already there.                *)
Sighted(s) == IF s = Unlabelled THEN catSightings
              ELSE With(catSightings, s, IF s \in DOMAIN catSightings THEN catSightings[s] + 1 ELSE 1)

(* commit_merge: sightings, files and the segment's marker in one.         *)
CommitMerge ==
    /\ MergeStep("registered", "committed")
    /\ catSightings' = Sighted(Head(mergeRow).shape)
    /\ storeRows' = storeRows \cup Range(mergeRow)
    /\ catMerged' = catMerged \cup {Head(mergeRow).n}
    /\ UNCHANGED <<minerVars, firstMatch, catTemplates, catShapes, mergeRow, walRows, dictionary, unexported>>

(* save_templates: the lineage is written once.                            *)
SavedTemplate(id) == IF id \in DOMAIN catTemplates THEN [templates[id] EXCEPT !.lineage = catTemplates[id].lineage] ELSE templates[id]

SaveTemplates ==
    /\ MergeStep("committed", "saved")
    /\ catTemplates' = [id \in DOMAIN catTemplates \cup DOMAIN templates |->
                            IF id \in DOMAIN templates THEN SavedTemplate(id) ELSE catTemplates[id]]
    /\ UNCHANGED <<minerVars, firstMatch, catShapes, catSightings, catMerged, mergeRow, walRows, storeRows, dictionary, unexported>>

RemoveSegment ==
    /\ mergePhase = "saved" \/ SkipsMerged
    /\ MergeStep(mergePhase, "idle")
    /\ walRows' = Tail(walRows) /\ mergeRow' = <<>> /\ unexported' = (unexported \/ mergePhase = "saved")
    /\ UNCHANGED <<minerVars, firstMatch, catalogVars, storeRows, dictionary>>

(* template_dictionary: the sightings whose hash has a registered text.    *)
DictionaryRows == [s \in DOMAIN catSightings \cap DOMAIN catShapes |-> catSightings[s]]

(* export: the files are written whole and renamed.  It follows a pass     *)
(* that merged, or finds a file missing; one that fails is not repeated.   *)
ExportDictionary ==
    /\ MergeStep("idle", "idle") /\ (unexported \/ (dictionary = << >> /\ DictionaryRows # << >>))
    /\ dictionary' \in {DictionaryRows, dictionary} /\ unexported' = FALSE
    /\ UNCHANGED <<minerVars, firstMatch, catalogVars, mergeRow, walRows, storeRows>>

-----------------------------------------------------------------------------
(* A crash, and Drain::restore from the catalog's templates: a template    *)
(* hangs where its present text leads, and only that text is known.        *)
RestoredTree(cat) ==
    FoldLeft(LAMBDA tree, id :
                 LET path == InsertPath(tree.nodes, cat[id].tokens)
                 IN [nodes |-> tree.nodes \cup PathsTo(path), leaf |-> With(tree.leaf, id, path)],
             [nodes |-> {}, leaf |-> << >>], SetToSortSeq(DOMAIN cat, <))

RestoredLineages(cat) == {cat[id].lineage : id \in DOMAIN cat}

RestartMiner ==
    /\ minerEpoch < MaxMinerCrashes /\ minerEpoch' = minerEpoch + 1
    /\ templates' = catTemplates
    /\ treeNodes' = RestoredTree(catTemplates).nodes /\ leafOf' = RestoredTree(catTemplates).leaf
    /\ shapes' = [s \in {catTemplates[id].tokens : id \in DOMAIN catTemplates} |->
                      catTemplates[Min({id \in DOMAIN catTemplates : catTemplates[id].tokens = s})].lineage]
    /\ lineages' = RestoredLineages(catTemplates)
    /\ nextId' = IF DOMAIN catTemplates = {} THEN 1 ELSE Max(DOMAIN catTemplates) + 1
    /\ mergePhase' = "idle" /\ mergeRow' = <<>> /\ unexported' = FALSE
    /\ firstMatch' = [line \in {l \in DOMAIN firstMatch : firstMatch[l] \subseteq DOMAIN catTemplates} |-> firstMatch[line]]
    /\ UNCHANGED <<catalogVars, walRows, storeRows, dictionary, mined, foreign>>

TemplatesNext ==
    \/ IngestLine \/ IngestForeign
    \/ RegisterShapes \/ CommitMerge \/ SaveTemplates \/ RemoveSegment \/ ExportDictionary
    \/ RestartMiner

TemplatesSpec == TemplatesInit /\ [][TemplatesNext]_templateVars

-----------------------------------------------------------------------------

(* Type invariant.                                                         *)
TemplatesTypeOK ==
    /\ DOMAIN leafOf = DOMAIN templates /\ Cardinality(DOMAIN templates) <= max_templates
    /\ \A id \in DOMAIN templates : id < nextId /\ leafOf[id] \in treeNodes
    /\ mergePhase \in {"idle", "registered", "committed", "saved"}
    /\ \A s \in DOMAIN dictionary : dictionary[s] \in Nat \ {0}

Covers(text, line) == Len(text) = Len(line) /\ \A i \in DOMAIN text : text[i] = line[i] \/ text[i] = WILDCARD

(* The text a row's id hashes is a template of the row: what is not the    *)
(* wildcard in it is the row's own token (match_masked labels after the    *)
(* line has widened the template).                                         *)
LabelCoversLine ==
    \A r \in storeRows \cup Range(walRows) : r.shape # Unlabelled => Covers(r.shape, r.line)

(* The identity of a template that was persisted stays with it: widening,  *)
(* saving again and restarting do not move it (Template::lineage_id,       *)
(* save_templates).                                                        *)
LineageIsFixed ==
    [][\A id \in DOMAIN catTemplates : id \in DOMAIN catTemplates' /\ catTemplates'[id].lineage = catTemplates[id].lineage]_templateVars

(* A row merged by the process that labelled it has its text registered,   *)
(* also when the template had widened further by then (Drain::shapes keeps *)
(* every hash a template has held).                                        *)
MergedIsNamed ==
    \A r \in storeRows : r.fresh /\ r.own => r.shape \in DOMAIN catShapes

(* The counts of the dictionary are the store's rows, row for row, though  *)
(* a crash falls between the steps of a merge (commit_merge's marker); an  *)
(* exported row joins to a text.                                           *)
SightingsCountRows ==
    /\ \A s \in DOMAIN catSightings : catSightings[s] = Cardinality({r.n : r \in {q \in storeRows : q.shape = s}})
    /\ \A s \in DOMAIN dictionary : s \in DOMAIN catShapes

(* Every hash this writer has minted that is on a row of the store has its *)
(* text registered (only a hash an edge minted may be without).            *)
MintedIsNamed == \A r \in storeRows : r.own => r.shape \in DOMAIN catShapes

(* The same line always lands on the same template.                        *)
SameLineSameTemplate == \A line \in DOMAIN firstMatch : Cardinality(firstMatch[line]) = 1

(* What templates promise: a label covers its line, a merged row's label   *)
(* has a text, the sightings count the rows, and a template's lineage is   *)
(* fixed.                                                                  *)
TemplatesPromise ==
    /\ [](TemplatesTypeOK /\ LabelCoversLine /\ MergedIsNamed /\ SightingsCountRows)
    /\ LineageIsFixed
=============================================================================
