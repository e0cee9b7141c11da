------------------------------ MODULE MCCatalog ------------------------------
(***************************************************************************)
(* One run for the catalog's prices, for the options of a category, its    *)
(* icons, the banners and the comments.  Each is checked on its own: part  *)
(* says which one moves, the rest keeps its initial value.  The sets of    *)
(* the parts share their model values, so that one symmetry serves all.    *)
(***************************************************************************)
EXTENDS Catalog, Sequences, FiniteSets, TLC

CONSTANTS Options, Values, OptionPayloads, Forms, Seeded, MaxRows, IconCategories, MaxCrashes,
          Banners, MaxOrder, Comments, Admins

VARIABLES
  part,
  place, options, nextId, rows, optionPc, payload, read, loose, doubled,
  iconCategories, iconOf, iconRows, files, iconPc, kind, iconCategory, current, crashes,
  leaked, undeleted,
  order, bannerPc, args, seen, shuffled,
  comments, reply, isReplied, commentPc, comment, text, overtaken

optionVars == <<place, options, nextId, rows, optionPc, payload, read, loose, doubled>>
iconVars == <<iconCategories, iconOf, iconRows, files, iconPc, kind, iconCategory, current,
              crashes, leaked, undeleted>>
bannerVars == <<order, bannerPc, args, seen, shuffled>>
commentVars == <<comments, reply, isReplied, commentPc, comment, text, overtaken>>

SomePrices == {100, 300}
SomeDiscounts == {50, 120}

\* Edits of one field, or of both prices.
SomeEdits ==
  [originalPrice : {300, None}, discountPercent : {50}, categoryId : {None}]
  \cup [originalPrice : {100}, discountPercent : {None}, categoryId : {None}]
  \cup [originalPrice : {None}, discountPercent : {None}, categoryId : Categories]

\* A payload names at most one of two ids, the second of which may not exist.
Payload(first, second, new) ==
  [acts |-> [o \in Options |-> IF o = 1 THEN first ELSE IF o = 2 THEN second ELSE "absent"],
   new |-> new]
SomePayloads ==
  {Payload(act, "absent", None) : act \in {"absent", "bare", "delete"} \cup Values}
  \cup {Payload("absent", "new", None), Payload("absent", "absent", "new")}

\* Forms of a product: without options, with a copy, and with two copies of one
\* option, at another value, and an option of its own.
Line(o, v) == [option |-> o, value |-> v]
SomeForms == {<<>>, <<Line(1, "old")>>, <<Line(1, "new"), Line(1, "old"), Line(None, "new")>>}

IconFaults == {"fileError", "dbError", "crash"}
HandGiven == {0 - 1, 1}
SomeReplies == {"thanks"}

ASSUME BannerAssumption == None \notin Int
ASSUME IconAssumption ==
  None \notin Requests \cup IconCategories /\ Requests \cap IconCategories = {}
ASSUME ReplyAssumption == None \notin SomeReplies

O == INSTANCE CategoryOptions WITH CategoryPayloads <- OptionPayloads, pc <- optionPc
I == INSTANCE CategoryIcons WITH
       Categories <- IconCategories, Faults <- IconFaults, categories <- iconCategories,
       pc <- iconPc, category <- iconCategory
N == INSTANCE Banners WITH HandOrders <- HandGiven, pc <- bannerPc
M == INSTANCE Comments WITH Requests <- Admins, Replies <- SomeReplies, pc <- commentPc

ASSUME OptionAssumption ==
  /\ IsFiniteSet(Products) /\ IsFiniteSet(Options) /\ Options = 1 .. Cardinality(Options)
  /\ Seeded \in 0 .. Cardinality(Options)
  /\ Values # {} /\ OptionPayloads \subseteq O!Payloads
  /\ Forms \subseteq Seq([option : Options \cup {None}, value : Values])

Symmetry == Permutations(Products) \cup Permutations(Categories) \cup Permutations(Requests)

\* A part that does not move starts empty.
MCInit ==
  /\ Init /\ O!Init /\ I!Init /\ N!Init /\ M!Init
  /\ part \in {"catalog", "options", "icons", "banners", "comments"}
  /\ part # "catalog" => categories = {}
  /\ part # "options" => place = [p \in Products |-> "absent"]
  /\ part # "icons" => iconCategories = {}
  /\ part # "banners" => order = [b \in Banners |-> None]

MCNext ==
  \/ /\ part = "catalog" /\ Next
     /\ UNCHANGED <<part, optionVars, iconVars, bannerVars, commentVars>>
  \/ /\ part = "options" /\ O!Next
     /\ UNCHANGED <<part, vars, iconVars, bannerVars, commentVars>>
  \/ /\ part = "icons" /\ I!Next
     /\ UNCHANGED <<part, vars, optionVars, bannerVars, commentVars>>
  \/ /\ part = "banners" /\ N!Next
     /\ UNCHANGED <<part, vars, optionVars, iconVars, commentVars>>
  \/ /\ part = "comments" /\ M!Next
     /\ UNCHANGED <<part, vars, optionVars, iconVars, bannerVars>>

MCSpec == MCInit /\ [][MCNext]_<<part, vars, optionVars, iconVars, bannerVars, commentVars>>

-----------------------------------------------------------------------------
(* The properties of the parts, where they are stated and explained *)

\* A product has one copy of a category option, with its value.
CopiesMatch == part = "options" => O!CopiesMatch

\* A payload naming only options of the category replaces all of them.
ReplacesAll == O!ReplacesAll

\* The file of a category's icon is there.
ShownIconExists == part = "icons" => I!ShownIconExists

\* An icon no category shows is about to be removed.
UnusedIsRemoved == part = "icons" => I!UnusedIsRemoved

\* No two banners have one order.
OrdersDiffer == part = "banners" => N!OrdersDiffer

\* The comments shown in public are those with a reply.
PublicHaveReplies == part = "comments" => M!PublicHaveReplies

===============================================================================
