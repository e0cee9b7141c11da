----------------------------- MODULE CategoryIcons -----------------------------
(***************************************************************************)
(* The icon of a category is a row of CategoryIcon and a file.             *)
(* categories.service writes the file, inserts the row, points the category*)
(* at it, and only when the rest of the update is done removes the icon    *)
(* that was there before; an update that fails removes the new one.        *)
(***************************************************************************)
EXTENDS Naturals, FiniteSets

CONSTANTS
  Categories,
  Requests,  \* an icon is named by the request that saves it,
             \* one from before by its category
  None,
  Faults,    \* {"fileError", "dbError", "crash"}
  MaxCrashes \* bound on crashes

VARIABLES
  categories, \* the Category rows
  iconOf,     \* their iconId
  iconRows,   \* the CategoryIcon rows
  files,      \* the icon files
  pc, kind, category,
  current,    \* the category's icon that each request read
  crashes,
  leaked,     \* history: icons nothing will remove, see Leak
  undeleted   \* history: icons whose row was to be deleted when the database failed

iconVars == <<categories, iconOf, iconRows, files>>
requestVars == <<pc, kind, category, current>>
histories == <<leaked, undeleted>>
vars == <<iconVars, requestVars, crashes, histories>>

Icons == Requests \cup Categories
Kinds == {"create", "replace", "clear", "delete"}

Init ==
  /\ categories \in SUBSET Categories
  /\ iconRows \in SUBSET categories
  /\ iconOf = [c \in Categories |-> IF c \in iconRows THEN c ELSE None]
  /\ files = iconRows
  /\ pc = [r \in Requests |-> "idle"]
  /\ kind = [r \in Requests |-> None]
  /\ category = [r \in Requests |-> None]
  /\ current = [r \in Requests |-> None]
  /\ crashes = 0
  /\ leaked = {} /\ undeleted = {}

Goto(r, label) == pc' = [pc EXCEPT ![r] = label]

\* POST /categories and PATCH /categories/:id with an icon, PATCH with
\* clearIcon, DELETE /categories/:id.  All but the first read the category.
Begin(r, k, c) ==
  /\ pc[r] = "idle"
  /\ (k = "create") = (c \notin categories)
  /\ kind' = [kind EXCEPT ![r] = k]
  /\ category' = [category EXCEPT ![r] = c]
  /\ current' = [current EXCEPT ![r] = iconOf[c]]
  /\ Goto(r, IF k \in {"create", "replace"} THEN "save" ELSE "point")
  /\ UNCHANGED <<iconVars, crashes, histories>>

(* persistIconFromSource *)

\* The source is fetched and checked, the file written.
SaveFile(r) ==
  /\ pc[r] = "save"
  /\ \/ files' = files \cup {r} /\ Goto(r, "insert")
     \/ "fileError" \in Faults /\ UNCHANGED files /\ Goto(r, "failed")
  /\ UNCHANGED <<categories, iconOf, iconRows, kind, category, current, crashes, histories>>

\* The file is removed when its row cannot be inserted.
InsertRow(r) ==
  /\ pc[r] = "insert"
  /\ \/ iconRows' = iconRows \cup {r} /\ Goto(r, "point") /\ UNCHANGED files
     \/ /\ "dbError" \in Faults
        /\ files' = files \ {r}
        /\ Goto(r, "failed") /\ UNCHANGED iconRows
  /\ UNCHANGED <<categories, iconOf, kind, category, current, crashes, histories>>

(* The category *)

NewIcon(r) == IF kind[r] \in {"create", "replace"} THEN r ELSE None
Undo(r) == Goto(r, IF NewIcon(r) = None THEN "failed" ELSE "undo")

\* The row of the category is written, or deleted; whoever loses the icon this
\* request did not read leaves it behind.
PointAtIcon(r) ==
  LET c == category[r] IN
  /\ pc[r] = "point"
  /\ \/ /\ (kind[r] = "create") = (c \notin categories)
        /\ categories' = IF kind[r] = "delete" THEN categories \ {c} ELSE categories \cup {c}
        /\ iconOf' = [iconOf EXCEPT ![c] = NewIcon(r)]
        /\ leaked' = leaked \cup ({iconOf[c]} \ {current[r], None})
        /\ Goto(r, IF kind[r] = "delete" THEN "replaced" ELSE "rest")
     \/ /\ "dbError" \in Faults \/ (kind[r] = "create") # (c \notin categories)
        /\ Undo(r)
        /\ UNCHANGED <<categories, iconOf, leaked>>
  /\ UNCHANGED <<iconRows, files, kind, category, current, crashes, undeleted>>

\* Prices and options are written, see Catalog and CategoryOptions.  When that
\* fails the new icon is removed, and the one it replaced has been replaced.
WriteRest(r) ==
  /\ pc[r] = "rest"
  /\ \/ Goto(r, "replaced") /\ UNCHANGED leaked
     \/ /\ "dbError" \in Faults
        /\ Undo(r)
        /\ leaked' = leaked \cup ({current[r]} \ {None})
  /\ UNCHANGED <<iconVars, kind, category, current, crashes, undeleted>>

(* removeIconAsset *)

\* The icon it removes: the new one after a failure, the old one otherwise.
Victim(r) == IF pc[r] \in {"undo", "undoFile"} THEN NewIcon(r) ELSE current[r]

\* Mutant: the replaced icon is not removed.
FinishWithoutRemoval(r) ==
  /\ pc[r] = "replaced"
  /\ Goto(r, "done")
  /\ UNCHANGED <<iconVars, kind, category, current, crashes, histories>>

\* An update reads the category once more before it answers.
AfterRemoval(r) == IF kind[r] \in {"replace", "clear"} THEN "final" ELSE "done"

FinishIcon(r) ==
  /\ pc[r] = "replaced"
  /\ Goto(r, IF current[r] = None THEN AfterRemoval(r) ELSE "cleanup")
  /\ UNCHANGED <<iconVars, kind, category, current, crashes, histories>>

\* Mutant: the categories keep their reference to it.
RemoveRowAlone(r) ==
  /\ pc[r] \in {"undo", "cleanup"}
  /\ iconRows' = iconRows \ {Victim(r)}
  /\ Goto(r, IF pc[r] = "undo" THEN "undoFile" ELSE "cleanupFile")
  /\ UNCHANGED <<categories, iconOf, files, kind, category, current, crashes, histories>>

\* The row goes first, and with it the categories' references to it; any error
\* is taken for a row that was gone.
RemoveRow(r) ==
  LET i == Victim(r) IN
  /\ pc[r] \in {"undo", "cleanup"}
  /\ \/ /\ iconRows' = iconRows \ {i}
        /\ iconOf' = [c \in Categories |-> IF iconOf[c] = i THEN None ELSE iconOf[c]]
        /\ UNCHANGED undeleted
     \/ /\ "dbError" \in Faults
        /\ undeleted' = undeleted \cup {i}
        /\ UNCHANGED <<iconRows, iconOf>>
  /\ Goto(r, IF pc[r] = "undo" THEN "undoFile" ELSE "cleanupFile")
  /\ UNCHANGED <<categories, files, kind, category, current, crashes, leaked>>

RemoveFile(r) ==
  /\ pc[r] \in {"undoFile", "cleanupFile"}
  /\ \/ files' = files \ {Victim(r)} /\ UNCHANGED leaked
     \/ "fileError" \in Faults /\ UNCHANGED files /\ leaked' = leaked \cup {Victim(r)}
  /\ Goto(r, IF pc[r] = "undoFile" THEN "failed" ELSE AfterRemoval(r))
  /\ UNCHANGED <<categories, iconOf, iconRows, kind, category, current, crashes, undeleted>>

\* When that fails the new icon is removed after the old one.
ReadFinal(r) ==
  /\ pc[r] = "final"
  /\ Goto(r, "done") \/ ("dbError" \in Faults /\ Undo(r))
  /\ UNCHANGED <<iconVars, kind, category, current, crashes, histories>>

-----------------------------------------------------------------------------
Working(r) == pc[r] \notin {"idle", "done", "failed"}

\* The icons a request is going to remove, or has not pointed a category at.
Handles(r) == {NewIcon(r), current[r]} \ {None}

Crash ==
  /\ "crash" \in Faults /\ crashes < MaxCrashes
  /\ crashes' = crashes + 1
  /\ leaked' = leaked \cup UNION {Handles(r) : r \in {q \in Requests : Working(q)}}
  /\ pc' = [r \in Requests |-> IF Working(r) THEN "failed" ELSE pc[r]]
  /\ UNCHANGED <<iconVars, kind, category, current, undeleted>>

Next ==
  \/ \E r \in Requests :
       \/ \E k \in Kinds, c \in Categories : Begin(r, k, c)
       \/ SaveFile(r) \/ InsertRow(r) \/ PointAtIcon(r) \/ WriteRest(r)
       \/ FinishIcon(r) \/ RemoveRow(r) \/ RemoveFile(r) \/ ReadFinal(r)
  \/ Crash

Spec == Init /\ [][Next]_vars

-----------------------------------------------------------------------------
(* Properties *)

\* The icon of a category can be shown: its file is there, at every moment of
\* any updates and wherever the process dies.  One error breaks it: the row of
\* an icon was to be removed, could not be, and the file is removed all the same.
ShownIconExists ==
  \A c \in Categories :
    iconOf[c] # None => iconOf[c] \in iconRows /\ (iconOf[c] \in files \/ iconOf[c] \in undeleted)

\* An icon that no category shows is about to be removed, or was left behind by
\* a crash, by a failure after it was replaced, or by two updates of a category
\* that read the same icon before either replaced it.
UnusedIsRemoved ==
  \A i \in (iconRows \cup files) \ (leaked \cup undeleted) :
    \/ \E c \in Categories : iconOf[c] = i
    \/ \E r \in Requests : Working(r) /\ i \in Handles(r)
=============================================================================
