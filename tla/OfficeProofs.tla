---------------------------- MODULE OfficeProofs ----------------------------
(***************************************************************************)
(* Theorems about the office: the design gallery, the signing of contracts, *)
(* the inbox and the quotations, for any number of people and every mix of *)
(* their work.                                                             *)
(***************************************************************************)
EXTENDS DesignGallery, Signing, Inbox, Quotation, FiniteSetTheorems, TLAPS

(***************************************************************************)
(* The design gallery.                                                     *)
(***************************************************************************)

\* Where a request is and what it has in hand.
StageOK(c) ==
    LET k == curating[c] IN
    /\ k.op = "none" => k = AtRest
    /\ k.op # "none" => k.item \in Designs
    /\ k.at = "thumb" => k.thumb = NoFile /\ k.image = NoFile
    /\ k.at = "image" => k.image = NoFile
    /\ k.op = "create" => /\ k.at \in {"thumb", "image", "row"} /\ k.old = {} /\ k.read = {}
                          /\ design[k.item] = NoRow
    /\ k.op \in {"update", "remove"} => k.old = k.read
    /\ k.op = "update" /\ k.at = "row" => \A f \in k.old : f \notin shelf
    /\ k.op = "remove" => /\ k.image = NoFile /\ k.thumb = NoFile /\ k.at \in {"row", "discard"}
                          /\ k.at = "discard" => design[k.item].state = "gone"
    /\ k.op \in {"create", "update"} /\ k.at \in {"discard", "row"} => k.image # NoFile
    /\ FilesOf(k) \subseteq shelf

\* No two requests create the same row.
OneCreator ==
    \A c, e \in Curators : curating[c].op = "create" /\ curating[e].op = "create"
                           /\ curating[c].item = curating[e].item => c = e

\* A file has one owner: the request that stored it, then the row that names it.
OneOwner ==
    /\ \A d, e \in Designs : \A f \in FilesOf(design[d]) : d # e => f \notin FilesOf(design[e])
    /\ \A c, k \in Curators : \A f \in FilesOf(curating[c]) :
          /\ c # k => f \notin FilesOf(curating[k])
          /\ f \notin curating[k].old
    /\ \A c \in Curators : \A d \in Designs : \A f \in FilesOf(design[d]) :
          /\ f \notin FilesOf(curating[c])
          /\ d # curating[c].item => f \notin curating[c].old

\* A file in the store is named by a row, in the hands of the request that stored it or
\* of one that has deleted its row, or left over.
Accounted ==
    \A f \in shelf :
        \/ f \in litter
        \/ \E d \in Designs : f \in FilesOf(design[d])
        \/ \E c \in Curators : f \in FilesOf(curating[c])
        \/ \E c \in Curators : f \in curating[c].old /\ curating[c].op = "remove"
                               /\ curating[c].at = "discard"

\* A design has a picture, and its files but while they are replaced.
Pictured ==
    \A d \in Designs : There(d) =>
        /\ design[d].image # NoFile
        /\ \/ FilesOf(design[d]) \subseteq shelf
           \/ d \in torn
           \/ \E c \in Curators :
                curating[c].op = "update" /\ curating[c].item = d /\ curating[c].at = "row"

GalleryInv ==
    /\ GalleryTypeOK /\ (\A c \in Curators : StageOK(c))
    /\ OneCreator /\ OneOwner /\ Accounted /\ Pictured

\* An empty gallery.
LEMMA GalleryInitial == GalleryInit => GalleryInv
<1> SUFFICES ASSUME GalleryInit PROVE GalleryInv
  OBVIOUS
<1>1. GalleryTypeOK
  BY GalleryAssumption DEF GalleryInit, GalleryTypeOK, AtRest, NoRow, NoFile, FileIds
<1>2. \A c \in Curators : StageOK(c)
  BY DEF GalleryInit, StageOK, AtRest, NoFile, FilesOf
<1>3. OneCreator /\ OneOwner /\ Accounted /\ Pictured
  BY DEF GalleryInit, OneCreator, OneOwner, Accounted, Pictured, There, FilesOf, NoRow, AtRest, NoFile
<1> QED BY <1>1, <1>2, <1>3 DEF GalleryInv

\* A fault is taken off the bound.
LEMMA FaultSpent == ASSUME GalleryTypeOK, Fault PROVE gallery' \in [requests : Nat, faults : Nat]
  BY DEF GalleryTypeOK, Fault

\* A request that moves leaves the others where they are.
CuratorRow == [op : {"none", "create", "update", "remove"}, at : {"thumb", "image", "discard", "row"},
               item : Designs \cup {NoDesign}, image : FileIds, thumb : FileIds,
               read : SUBSET FileIds, old : SUBSET FileIds]

\* A request that moves leaves the others where they are.
LEMMA RequestMoves ==
    ASSUME GalleryTypeOK, NEW c \in Curators, NEW j, curating' = [curating EXCEPT ![c] = j]
    PROVE  curating'[c] = j /\ \A k \in Curators : k # c => curating'[k] = curating[k]
  BY DEF GalleryTypeOK

\* The state of somebody without a request.
LEMMA AtRestIs ==
    ASSUME GalleryTypeOK
    PROVE  /\ AtRest \in CuratorRow /\ AtRest.op = "none" /\ AtRest.at = "thumb"
           /\ AtRest.image = NoFile /\ AtRest.thumb = NoFile /\ AtRest.old = {}
           /\ FilesOf(AtRest) = {}
  BY DEF AtRest, FilesOf, CuratorRow, NoFile, FileIds, GalleryTypeOK

\* Who has no request at work has no files.
LEMMA AtRestOwns ==
    ASSUME GalleryInv, NEW c \in Curators, curating[c].op = "none"
    PROVE  FilesOf(curating[c]) = {} /\ curating[c].old = {}
  BY DEF GalleryInv, StageOK, AtRest, FilesOf

\* Nobody has or had the file.
Unowned(f) ==
    /\ \A d \in Designs : f \notin FilesOf(design[d])
    /\ \A k \in Curators : f \notin FilesOf(curating[k]) /\ f \notin curating[k].old

\* A request that moves, with new files or fewer of its own, leaves a file with one owner.
LEMMA OwnersMove ==
    ASSUME OneOwner, design' = design, NEW c \in Curators, NEW j,
           curating'[c] = j, \A k \in Curators : k # c => curating'[k] = curating[k],
           \A f \in FilesOf(j) : f \in FilesOf(curating[c]) \/ Unowned(f),
           j.old = {} \/ (j.old = curating[c].old /\ j.item = curating[c].item)
    PROVE  OneOwner'
<1> USE DEF Unowned
<1>1. ASSUME NEW k \in Curators, NEW m \in Curators, NEW f \in FilesOf(curating'[k])
      PROVE  (k # m => f \notin FilesOf(curating'[m])) /\ f \notin curating'[m].old
  <2>1. CASE k = c
    BY <1>1, <2>1 DEF OneOwner
  <2>2. CASE k # c
    BY <1>1, <2>2 DEF OneOwner
  <2> QED BY <2>1, <2>2
<1>2. ASSUME NEW k \in Curators, NEW d \in Designs, NEW f \in FilesOf(design[d])
      PROVE  f \notin FilesOf(curating'[k]) /\ (d # curating'[k].item => f \notin curating'[k].old)
  BY <1>2 DEF OneOwner
<1> QED BY <1>1, <1>2 DEF OneOwner

\* The small picture is stored.
LEMMA StoreThumbKeeps == ASSUME GalleryInv, NEW c \in Curators, StoreThumb(c) PROVE GalleryInv'
<1> USE DEF GalleryInv, Works, Fault, Step, Ends
<1>1. GalleryTypeOK'
  BY DEF StoreThumb, GalleryTypeOK, FileIds, AtRest, NoRow, NoFile, There, FilesOf
<1>2. \A k \in Curators : StageOK(k)'
  BY DEF StoreThumb, GalleryTypeOK, FileIds, StageOK, AtRest, NoRow, NoFile, There, FilesOf, OneOwner, OneCreator
<1>3. OneCreator'
  BY DEF StoreThumb, GalleryTypeOK, OneCreator, AtRest
<1>4. OneOwner'
  BY DEF StoreThumb, GalleryTypeOK, FileIds, StageOK, AtRest, NoRow, NoFile, There, FilesOf, OneOwner
<1>5. Accounted'
  BY DEF StoreThumb, GalleryTypeOK, StageOK, AtRest, NoFile, There, FilesOf, Accounted, NoRow
<1>6. Pictured'
  BY DEF StoreThumb, GalleryTypeOK, StageOK, AtRest, NoFile, There, FilesOf, Pictured, OneOwner, NoRow
<1> QED BY <1>1, <1>2, <1>3, <1>4, <1>5, <1>6

\* The small picture cannot be made: the large one stands for it.
LEMMA ThumbFailsKeeps == ASSUME GalleryInv, NEW c \in Curators, ThumbFails(c) PROVE GalleryInv'
<1> DEFINE j == [curating[c] EXCEPT !.at = "image"]
<1> USE DEF GalleryInv
<1>1. /\ curating' = [curating EXCEPT ![c] = j]
      /\ UNCHANGED <<design, shelf, shots, litter, torn>>
      /\ curating[c] \in CuratorRow /\ curating[c].op # "none" /\ curating[c].at = "thumb"
  BY DEF ThumbFails, Step, Works, GalleryTypeOK, CuratorRow
<1>2. /\ curating'[c] = j /\ j \in CuratorRow
      /\ \A k \in Curators : k # c => curating'[k] = curating[k]
  BY <1>1, RequestMoves DEF CuratorRow
<1>3. /\ j.op = curating[c].op /\ j.item = curating[c].item /\ j.image = curating[c].image
      /\ j.thumb = curating[c].thumb /\ j.read = curating[c].read /\ j.old = curating[c].old
      /\ j.at = "image" /\ FilesOf(j) = FilesOf(curating[c])
  BY <1>1 DEF CuratorRow, FilesOf
<1>4. GalleryTypeOK'
  <2>1. gallery' \in [requests : Nat, faults : Nat]
    BY FaultSpent DEF ThumbFails
  <2> QED BY <1>1, <1>2, <2>1 DEF GalleryTypeOK, FileIds, CuratorRow
<1> HIDE DEF j
<1>5. \A k \in Curators : StageOK(k)'
  BY <1>1, <1>2, <1>3 DEF StageOK
<1>6. OneCreator'
  BY <1>2, <1>3 DEF OneCreator
<1>9. OneOwner'
  BY <1>1, <1>2, <1>3, OwnersMove
<1>7. Accounted'
  BY <1>1, <1>2, <1>3 DEF Accounted
<1>8. Pictured'
  BY <1>1, <1>2, <1>3 DEF Pictured, There
<1> QED BY <1>4, <1>5, <1>6, <1>7, <1>8, <1>9

\* The picture is stored.
LEMMA StoreImageKeeps == ASSUME GalleryInv, NEW c \in Curators, StoreImage(c) PROVE GalleryInv'
<1> DEFINE f == shots + 1
           next == IF curating[c].op = "update" THEN "discard" ELSE "row"
           j == [curating[c] EXCEPT !.image = f, !.at = next]
<1> USE DEF GalleryInv
<1>1. /\ curating' = [curating EXCEPT ![c] = j]
      /\ shots' = f /\ shelf' = shelf \cup {f} /\ UNCHANGED <<gallery, design, litter, torn>>
      /\ curating[c] \in CuratorRow /\ curating[c].op # "none" /\ curating[c].at = "image"
      /\ shots \in Nat
  BY DEF StoreImage, Works, GalleryTypeOK, CuratorRow
<1>2. /\ curating'[c] = j
      /\ \A k \in Curators : k # c => curating'[k] = curating[k]
  BY <1>1, RequestMoves
<1>3. /\ j.op = curating[c].op /\ j.item = curating[c].item /\ j.image = f
      /\ j.thumb = curating[c].thumb /\ j.read = curating[c].read /\ j.old = curating[c].old
      /\ j.at = next /\ FilesOf(j) = FilesOf(curating[c]) \cup {f} /\ f # NoFile
      /\ curating[c].op # "remove"
  BY <1>1 DEF CuratorRow, FilesOf, NoFile, StageOK
<1>4. GalleryTypeOK'
  <2>1. FileIds \subseteq FileIds' /\ f \in FileIds' /\ shots' \in Nat
    BY <1>1 DEF FileIds
  <2>2. next \in {"thumb", "image", "discard", "row"}
    OBVIOUS
  <2>3. CuratorRow \subseteq CuratorRow' /\ j \in CuratorRow'
    BY <1>1, <2>1, <2>2 DEF CuratorRow
  <2>4. curating' \in [Curators -> CuratorRow']
    BY <1>1, <2>3 DEF GalleryTypeOK, CuratorRow
  <2>5. design' \in [Designs -> [state : {"never", "there", "gone"}, image : FileIds', thumb : FileIds']]
    BY <1>1, <2>1 DEF GalleryTypeOK
  <2> QED BY <1>1, <2>1, <2>4, <2>5 DEF GalleryTypeOK, CuratorRow
<1>5. /\ f \notin shelf
      /\ \A d \in Designs : f \notin FilesOf(design[d])
      /\ \A k \in Curators : f \notin FilesOf(curating[k]) /\ f \notin curating[k].old
  BY <1>1 DEF GalleryTypeOK, FileIds, FilesOf
<1> HIDE DEF j, f
<1>6. \A k \in Curators : StageOK(k)'
  BY <1>1, <1>2, <1>3, <1>5 DEF StageOK
<1>7. OneCreator'
  BY <1>2, <1>3 DEF OneCreator
<1>10. OneOwner'
  BY <1>1, <1>2, <1>3, <1>5, OwnersMove DEF Unowned
<1>8. Accounted'
  BY <1>1, <1>2, <1>3 DEF Accounted
<1>9. Pictured'
  BY <1>1, <1>2, <1>3 DEF Pictured, There
<1> QED BY <1>4, <1>6, <1>7, <1>8, <1>9, <1>10

\* A new request has stored nothing; it knows the files of its row.
LEMMA AskKeeps ==
    ASSUME GalleryInv, NEW c \in Curators, NEW d \in Designs,
           CreateDesign(c, d) \/ UpdateDesign(c, d) \/ RemoveDesign(c, d)
    PROVE  GalleryInv'
<1> USE DEF GalleryInv
<1>1. PICK j \in CuratorRow :
         /\ curating[c].op = "none" /\ curating' = [curating EXCEPT ![c] = j]
         /\ j.item = d /\ j.image = NoFile /\ j.thumb = NoFile /\ j.read = FilesOf(design[d])
         /\ \/ /\ j.op = "create" /\ j.at = "thumb" /\ j.old = {} /\ design[d] = NoRow
               /\ \A k \in Curators : curating[k].op = "create" => curating[k].item # d
            \/ j.op = "update" /\ j.at = "thumb" /\ j.old = FilesOf(design[d]) /\ There(d)
            \/ j.op = "remove" /\ j.at = "row" /\ j.old = FilesOf(design[d]) /\ There(d)
  <2>1. FilesOf(design[d]) \subseteq FileIds
    BY DEF GalleryTypeOK, FilesOf
  <2> DEFINE New(op, at, old) == [AtRest EXCEPT !.op = op, !.item = d, !.at = at, !.old = old,
                                                !.read = FilesOf(design[d])]
  <2>2. NoFile \in FileIds
    BY DEF NoFile, FileIds, GalleryTypeOK
  <2>3. ASSUME CreateDesign(c, d) PROVE curating' = [curating EXCEPT ![c] = New("create", "thumb", {})]
    BY <2>3 DEF CreateDesign, Ask
  <2>4. ASSUME UpdateDesign(c, d)
        PROVE curating' = [curating EXCEPT ![c] = New("update", "thumb", FilesOf(design[d]))]
    BY <2>4 DEF UpdateDesign, Ask
  <2>5. ASSUME RemoveDesign(c, d)
        PROVE curating' = [curating EXCEPT ![c] = New("remove", "row", FilesOf(design[d]))]
    BY <2>5 DEF RemoveDesign, Ask
  <2>6. curating[c].op = "none"
    BY DEF CreateDesign, UpdateDesign, RemoveDesign, Ask
  <2>7. CASE CreateDesign(c, d)
    <3>1. New("create", "thumb", {}) \in CuratorRow
      BY <2>1, <2>2 DEF CuratorRow, AtRest
    <3> QED BY <2>3, <2>6, <2>7, <3>1 DEF CreateDesign, AtRest, NoRow, FilesOf, NoFile
  <2>8. CASE UpdateDesign(c, d)
    <3>1. New("update", "thumb", FilesOf(design[d])) \in CuratorRow
      BY <2>1, <2>2 DEF CuratorRow, AtRest
    <3> QED BY <2>4, <2>6, <2>8, <3>1 DEF UpdateDesign, AtRest
  <2>9. CASE RemoveDesign(c, d)
    <3>1. New("remove", "row", FilesOf(design[d])) \in CuratorRow
      BY <2>1, <2>2 DEF CuratorRow, AtRest
    <3> QED BY <2>5, <2>6, <2>9, <3>1 DEF RemoveDesign, AtRest
  <2> QED BY <2>7, <2>8, <2>9
<1>2. /\ UNCHANGED <<design, shelf, shots, litter, torn>>
      /\ gallery' \in [requests : Nat, faults : Nat]
  BY DEF CreateDesign, UpdateDesign, RemoveDesign, Ask, GalleryTypeOK
<1>3. curating'[c] = j /\ \A k \in Curators : k # c => curating'[k] = curating[k]
  BY <1>1, RequestMoves
<1>4. FilesOf(j) = {}
  BY <1>1 DEF FilesOf
<1>5. GalleryTypeOK'
  BY <1>1, <1>2 DEF GalleryTypeOK, FileIds, CuratorRow
<1>6. \A k \in Curators : StageOK(k)'
  <2>1. StageOK(c)'
    <3>1. j.op = "create" => FilesOf(design[d]) = {}
      BY <1>1 DEF FilesOf, NoRow
    <3> QED BY <1>1, <1>2, <1>3, <1>4, <3>1 DEF StageOK
  <2>2. ASSUME NEW k \in Curators, k # c PROVE StageOK(k)'
    BY <1>2, <1>3, <2>2 DEF StageOK
  <2> QED BY <2>1, <2>2
<1>7. OneCreator'
  BY <1>1, <1>3 DEF OneCreator
<1>8. OneOwner'
  <2>1. ASSUME NEW k \in Curators, NEW m \in Curators, NEW f \in FilesOf(curating'[k])
        PROVE  (k # m => f \notin FilesOf(curating'[m])) /\ f \notin curating'[m].old
    <3>1. k # c /\ f \in FilesOf(curating[k]) /\ f \notin FilesOf(design[d])
      BY <1>3, <1>4, <2>1 DEF OneOwner
    <3> QED BY <1>1, <1>3, <1>4, <2>1, <3>1 DEF OneOwner
  <2>2. ASSUME NEW k \in Curators, NEW e \in Designs, NEW f \in FilesOf(design[e])
        PROVE  /\ f \notin FilesOf(curating'[k])
               /\ e # curating'[k].item => f \notin curating'[k].old
    BY <1>1, <1>3, <1>4, <2>2 DEF OneOwner
  <2> QED BY <1>2, <2>1, <2>2 DEF OneOwner
<1>9. Accounted'
  BY <1>1, <1>2, <1>3, AtRestOwns DEF Accounted
<1>10. Pictured'
  BY <1>1, <1>2, <1>3 DEF Pictured, There
<1> QED BY <1>5, <1>6, <1>7, <1>8, <1>9, <1>10

\* Where a request breaks off, what it leaves behind is noted.
LEMMA BreakOffKeeps ==
    ASSUME GalleryInv, NEW c \in Curators, BreakOff(c), curating[c].op # "none",
           gallery' \in [requests : Nat, faults : Nat], UNCHANGED <<design, shelf, shots>>
    PROVE  GalleryInv'
<1> DEFINE k == curating[c]
<1> USE DEF GalleryInv
<1>1. /\ curating' = [curating EXCEPT ![c] = AtRest]
      /\ torn \subseteq torn' /\ torn' \subseteq torn \cup {k.item}
      /\ k.op = "update" /\ k.at = "row" => k.item \in torn'
      /\ litter \subseteq litter' /\ litter' \subseteq litter \cup shelf
      /\ \A f \in shelf : f \in FilesOf(k) => f \in litter'
      /\ k.op = "remove" /\ k.at = "discard" => \A f \in shelf : f \in k.old => f \in litter'
  BY DEF BreakOff, Ends
<1>2. curating'[c] = AtRest /\ \A m \in Curators : m # c => curating'[m] = curating[m]
  BY <1>1, RequestMoves
<1>3. /\ AtRest \in CuratorRow /\ AtRest.op = "none" /\ AtRest.at = "thumb"
      /\ AtRest.image = NoFile /\ AtRest.thumb = NoFile /\ AtRest.old = {}
      /\ FilesOf(AtRest) = {}
  BY AtRestIs
<1>4. GalleryTypeOK'
  <2>1. curating' \in [Curators -> CuratorRow]
    BY <1>1, <1>3 DEF GalleryTypeOK, CuratorRow
  <2>2. torn' \subseteq Designs
    BY <1>1 DEF GalleryTypeOK, StageOK
  <2> QED BY <1>1, <2>1, <2>2 DEF GalleryTypeOK, CuratorRow, FileIds
<1>5. \A m \in Curators : StageOK(m)'
  <2>1. StageOK(c)'
    BY <1>2, <1>3 DEF StageOK
  <2>2. ASSUME NEW m \in Curators, m # c PROVE StageOK(m)'
    BY <1>2, <2>2 DEF StageOK
  <2> QED BY <2>1, <2>2
<1>6. OneCreator'
  BY <1>2, <1>3 DEF OneCreator
<1>7. OneOwner'
  BY <1>2, <1>3, OwnersMove
<1>8. Accounted'
  BY <1>1, <1>2 DEF Accounted
<1>9. Pictured'
  BY <1>1, <1>2 DEF Pictured, There
<1> QED BY <1>4, <1>5, <1>6, <1>7, <1>8, <1>9

\* A request that fails or stops leaves its files as litter.
LEMMA FailuresKeep ==
    ASSUME GalleryInv, NEW c \in Curators, ImageFails(c) \/ RowFails(c) \/ RequestStops(c)
    PROVE  GalleryInv'
<1>1. BreakOff(c) /\ curating[c].op # "none" /\ UNCHANGED <<design, shelf, shots>>
  BY DEF ImageFails, RowFails, RequestStops, Works
<1>2. gallery' \in [requests : Nat, faults : Nat]
  BY FaultSpent DEF ImageFails, RowFails, RequestStops, GalleryInv, GalleryTypeOK
<1> QED BY <1>1, <1>2, BreakOffKeeps

\* What the deletion of files takes from the store is in the request's hands alone.
LEMMA DiscardedFiles ==
    ASSUME GalleryInv, NEW c \in Curators, Works(c, "discard")
    PROVE  LET k == curating[c] IN
           /\ k \in CuratorRow /\ k.item \in Designs /\ k.op \in {"update", "remove"}
           /\ \A e \in Curators : \A f \in FilesOf(curating[e]) : f \notin k.old
           /\ \A d \in Designs : \A f \in FilesOf(design[d]) : d # k.item => f \notin k.old
           /\ k.op = "remove" => ~There(k.item) /\ FilesOf(k) = {}
           /\ k.op = "update" => k.image # NoFile
<1>1. curating[c] \in CuratorRow
  BY DEF GalleryInv, GalleryTypeOK, CuratorRow
<1>2. StageOK(c)
  BY DEF GalleryInv
<1> QED BY <1>1, <1>2 DEF GalleryInv, OneOwner, StageOK, Works, There, FilesOf, CuratorRow

\* The old files are removed.
LEMMA DiscardKeeps == ASSUME GalleryInv, NEW c \in Curators, Discard(c) PROVE GalleryInv'
<1> DEFINE k == curating[c]
           j == IF k.op = "update" THEN [k EXCEPT !.at = "row"] ELSE AtRest
<1> USE DEF GalleryInv
<1>1. /\ curating' = [curating EXCEPT ![c] = j] /\ k.at = "discard"
      /\ shelf' = shelf \ k.old /\ UNCHANGED <<gallery, design, shots, litter, torn>>
  BY DEF Discard, Step, Ends, Works
<1>2. curating'[c] = j /\ \A e \in Curators : e # c => curating'[e] = curating[e]
  BY <1>1, RequestMoves
<1>3. /\ k \in CuratorRow /\ k.item \in Designs /\ k.op \in {"update", "remove"}
      /\ \A e \in Curators : \A f \in FilesOf(curating[e]) : f \notin k.old
      /\ \A d \in Designs : \A f \in FilesOf(design[d]) : d # k.item => f \notin k.old
      /\ k.op = "remove" => ~There(k.item) /\ FilesOf(k) = {}
      /\ k.op = "update" => k.image # NoFile
  BY DiscardedFiles DEF Discard
<1>4. /\ AtRest \in CuratorRow /\ AtRest.op = "none" /\ AtRest.at = "thumb"
      /\ AtRest.image = NoFile /\ AtRest.thumb = NoFile /\ AtRest.old = {}
      /\ FilesOf(AtRest) = {} /\ j \in CuratorRow
  BY <1>3, AtRestIs DEF CuratorRow
<1>5. \/ /\ k.op = "update" /\ j.op = "update" /\ j.at = "row" /\ j.item = k.item
         /\ j.image = k.image /\ j.thumb = k.thumb /\ j.read = k.read /\ j.old = k.old
         /\ FilesOf(j) = FilesOf(k)
      \/ k.op = "remove" /\ j = AtRest
  BY <1>3 DEF CuratorRow, FilesOf
<1>6. GalleryTypeOK'
  BY <1>1, <1>4 DEF GalleryTypeOK, FileIds, CuratorRow
<1> HIDE DEF j
<1>7. \A e \in Curators : StageOK(e)'
  <2>1. StageOK(c)'
    <3>1. CASE k.op = "update"
      <4>1. FilesOf(j) \subseteq shelf' /\ \A f \in j.old : f \notin shelf'
        BY <1>1, <1>3, <1>5, <3>1 DEF StageOK
      <4>2. k.old = k.read
        BY <3>1 DEF StageOK
      <4> QED BY <1>1, <1>2, <1>3, <1>5, <3>1, <4>1, <4>2 DEF StageOK
    <3>2. CASE k.op = "remove"
      BY <1>2, <1>3, <1>4, <1>5, <3>2 DEF StageOK
    <3> QED BY <1>3, <3>1, <3>2
  <2>2. ASSUME NEW e \in Curators, e # c PROVE StageOK(e)'
    BY <1>1, <1>2, <1>3, <2>2 DEF StageOK
  <2> QED BY <2>1, <2>2
<1>8. OneCreator'
  BY <1>2, <1>4, <1>5 DEF OneCreator
<1>9. OneOwner'
  BY <1>1, <1>2, <1>4, <1>5, OwnersMove
<1>10. Accounted'
  <2> SUFFICES ASSUME NEW f \in shelf'
               PROVE  \/ f \in litter
                      \/ \E d \in Designs : f \in FilesOf(design[d])
                      \/ \E e \in Curators : f \in FilesOf(curating'[e])
                      \/ \E e \in Curators : f \in curating'[e].old /\ curating'[e].op = "remove"
                                             /\ curating'[e].at = "discard"
    BY <1>1 DEF Accounted
  <2> QED BY <1>1, <1>2, <1>3, <1>5 DEF Accounted
<1>11. Pictured'
  BY <1>1, <1>2, <1>3, <1>5 DEF Pictured, There
<1> QED BY <1>6, <1>7, <1>8, <1>9, <1>10, <1>11

\* The old files are removed in part.
LEMMA DiscardFailsKeeps == ASSUME GalleryInv, NEW c \in Curators, DiscardFails(c) PROVE GalleryInv'
<1> DEFINE k == curating[c]
<1> USE DEF GalleryInv
<1>1. PICK kept \in SUBSET k.old :
         /\ shelf' = shelf \ (k.old \ kept)
         /\ litter' = (litter \cup kept \cup FilesOf(k)) \cap shelf'
  BY DEF DiscardFails
<1>2. /\ curating' = [curating EXCEPT ![c] = AtRest] /\ UNCHANGED <<design, shots>>
      /\ torn' = IF k.op = "update" THEN torn \cup {k.item} ELSE torn
  BY DEF DiscardFails, Ends
<1>3. curating'[c] = AtRest /\ \A e \in Curators : e # c => curating'[e] = curating[e]
  BY <1>2, RequestMoves
<1>4. /\ k.item \in Designs /\ k.op \in {"update", "remove"}
      /\ \A e \in Curators : \A f \in FilesOf(curating[e]) : f \notin k.old
      /\ \A d \in Designs : \A f \in FilesOf(design[d]) : d # k.item => f \notin k.old
      /\ k.op = "remove" => ~There(k.item)
  BY DiscardedFiles DEF DiscardFails
<1>5. /\ AtRest \in CuratorRow /\ AtRest.op = "none" /\ AtRest.at = "thumb"
      /\ AtRest.image = NoFile /\ AtRest.thumb = NoFile /\ AtRest.old = {}
      /\ FilesOf(AtRest) = {}
  BY AtRestIs
<1>6. GalleryTypeOK'
  <2>1. gallery' \in [requests : Nat, faults : Nat]
    BY FaultSpent DEF DiscardFails
  <2>2. curating' \in [Curators -> CuratorRow]
    BY <1>2, <1>5 DEF GalleryTypeOK, CuratorRow
  <2>3. shelf' \subseteq FileIds /\ litter' \subseteq FileIds /\ torn' \subseteq Designs
    BY <1>1, <1>2, <1>4 DEF GalleryTypeOK
  <2> QED BY <1>2, <2>1, <2>2, <2>3 DEF GalleryTypeOK, FileIds, CuratorRow
<1>7. \A e \in Curators : StageOK(e)'
  <2>1. StageOK(c)'
    BY <1>3, <1>5 DEF StageOK
  <2>2. ASSUME NEW e \in Curators, e # c PROVE StageOK(e)'
    BY <1>1, <1>2, <1>3, <1>4, <2>2 DEF StageOK
  <2> QED BY <2>1, <2>2
<1>8. OneCreator'
  BY <1>3, <1>5 DEF OneCreator
<1>9. OneOwner'
  BY <1>2, <1>3, <1>5, OwnersMove
<1>10. Accounted'
  BY <1>1, <1>2, <1>3 DEF Accounted
<1>11. Pictured'
  BY <1>1, <1>2, <1>3, <1>4 DEF Pictured, There
<1> QED BY <1>6, <1>7, <1>8, <1>9, <1>10, <1>11

\* The row takes the files of the request over; those it named are gone, or left over, or
\* still in the hands of the request that removes it.
LEMMA WriteRowKeeps == ASSUME GalleryInv, NEW c \in Curators, WriteRow(c) PROVE GalleryInv'
<1> DEFINE k == curating[c]
           d == k.item
           new == IF k.op = "remove" THEN [NoRow EXCEPT !.state = "gone"]
                  ELSE [state |-> "there", image |-> k.image, thumb |-> k.thumb]
           j == IF k.op = "remove" THEN [k EXCEPT !.at = "discard"] ELSE AtRest
<1> USE DEF GalleryInv
<1>1. /\ k.op # "none" /\ k.at = "row" /\ (k.op = "create" \/ There(d))
      /\ design' = [design EXCEPT ![d] = new] /\ curating' = [curating EXCEPT ![c] = j]
      /\ litter' = (IF FilesOf(design[d]) = k.read THEN litter
                    ELSE litter \cup ((FilesOf(design[d]) \ k.old) \cap shelf))
      /\ torn' = torn \ {d} /\ UNCHANGED <<gallery, shelf, shots>>
  BY DEF WriteRow, Works, Step, Ends
<1>2. k \in CuratorRow /\ StageOK(c)
  BY DEF GalleryTypeOK, CuratorRow
<1>3. /\ d \in Designs /\ k.op \in {"create", "update", "remove"}
      /\ k.op = "create" => design[d] = NoRow
      /\ \A f \in FilesOf(k) : f \in shelf
      /\ k.op # "remove" => k.image # NoFile
      /\ k.op = "remove" => k.image = NoFile /\ k.thumb = NoFile
  BY <1>1, <1>2 DEF StageOK, CuratorRow
<1>4. /\ curating'[c] = j /\ \A e \in Curators : e # c => curating'[e] = curating[e]
      /\ design'[d] = new /\ \A e \in Designs : e # d => design'[e] = design[e]
  BY <1>1, <1>3, RequestMoves DEF GalleryTypeOK
<1>5. /\ FilesOf(new) = FilesOf(k) /\ (new.state = "there" <=> k.op # "remove")
      /\ new.state \in {"there", "gone"} /\ (k.op # "remove" => new.image # NoFile)
      /\ new \in [state : {"never", "there", "gone"}, image : FileIds, thumb : FileIds]
  BY <1>2, <1>3 DEF FilesOf, NoRow, NoFile, CuratorRow, FileIds, GalleryTypeOK
<1>6. /\ AtRest \in CuratorRow /\ AtRest.op = "none" /\ AtRest.at = "thumb"
      /\ AtRest.image = NoFile /\ AtRest.thumb = NoFile /\ AtRest.old = {}
      /\ FilesOf(AtRest) = {} /\ j \in CuratorRow
  BY <1>2, AtRestIs DEF CuratorRow
<1>7. \/ /\ k.op = "remove" /\ j.op = "remove" /\ j.at = "discard" /\ j.item = d
         /\ j.image = k.image /\ j.thumb = k.thumb /\ j.read = k.read /\ j.old = k.old
         /\ FilesOf(j) = FilesOf(k) /\ FilesOf(k) = {}
      \/ k.op # "remove" /\ j = AtRest
  BY <1>2, <1>3 DEF CuratorRow, FilesOf
<1>8. \A f \in FilesOf(design[d]) : f \in shelf =>
         f \in litter' \/ (k.op = "remove" /\ f \in k.old)
  <2>1. CASE k.op = "create"
    BY <1>3, <2>1 DEF FilesOf, NoRow
  <2>2. CASE k.op # "create"
    <3>1. k.old = k.read /\ (k.op = "update" => \A f \in k.old : f \notin shelf)
      BY <1>1, <1>2, <1>3, <2>2 DEF StageOK
    <3> QED BY <1>1, <1>3, <2>2, <3>1
  <2> QED BY <2>1, <2>2
<1>9. litter \subseteq litter' /\ litter' \subseteq litter \cup shelf
  BY <1>1
<1> HIDE DEF new, j
<1>10. GalleryTypeOK'
  <2>1. curating' \in [Curators -> CuratorRow]
    BY <1>1, <1>6 DEF GalleryTypeOK, CuratorRow
  <2> QED BY <1>1, <1>5, <1>9, <2>1 DEF GalleryTypeOK, FileIds, CuratorRow
<1>11. \A e \in Curators : StageOK(e)'
  <2>1. StageOK(c)'
    <3>1. CASE k.op = "remove"
      BY <1>1, <1>2, <1>3, <1>4, <1>5, <1>7, <3>1 DEF StageOK
    <3>2. CASE k.op # "remove"
      BY <1>4, <1>6, <1>7, <3>2 DEF StageOK
    <3> QED BY <3>1, <3>2
  <2>2. ASSUME NEW e \in Curators, e # c PROVE StageOK(e)'
    <3>1. curating[e].op = "create" \/ (curating[e].op = "remove" /\ curating[e].at = "discard")
             => curating[e].item # d
      BY <1>1, <1>3, <2>2 DEF StageOK, OneCreator, There, NoRow
    <3>2. curating[e].op # "none" => curating[e].item \in Designs
      BY DEF StageOK
    <3> QED BY <1>1, <1>4, <2>2, <3>1, <3>2 DEF StageOK
  <2> QED BY <2>1, <2>2
<1>12. OneCreator'
  BY <1>4, <1>6, <1>7 DEF OneCreator
<1>13. OneOwner'
  <2>1. ASSUME NEW e \in Designs, NEW h \in Designs, NEW f \in FilesOf(design'[e]), e # h
        PROVE  f \notin FilesOf(design'[h])
    BY <1>4, <1>5, <2>1 DEF OneOwner
  <2>2. ASSUME NEW e \in Curators, NEW h \in Curators, NEW f \in FilesOf(curating'[e])
        PROVE  (e # h => f \notin FilesOf(curating'[h])) /\ f \notin curating'[h].old
    <3>1. e # c
      BY <1>4, <1>6, <1>7, <2>2
    <3> QED BY <1>4, <1>6, <1>7, <2>2, <3>1 DEF OneOwner
  <2>3. ASSUME NEW e \in Curators, NEW h \in Designs, NEW f \in FilesOf(design'[h])
        PROVE  f \notin FilesOf(curating'[e]) /\ (h # curating'[e].item => f \notin curating'[e].old)
    <3>1. CASE e = c
      BY <1>4, <1>5, <1>6, <1>7, <2>3, <3>1 DEF OneOwner
    <3>2. CASE e # c
      BY <1>4, <1>5, <2>3, <3>2 DEF OneOwner
    <3> QED BY <3>1, <3>2
  <2> QED BY <2>1, <2>2, <2>3 DEF OneOwner
<1>14. Accounted'
  <2> SUFFICES ASSUME NEW f \in shelf
               PROVE  \/ f \in litter'
                      \/ \E e \in Designs : f \in FilesOf(design'[e])
                      \/ \E e \in Curators : f \in FilesOf(curating'[e])
                      \/ \E e \in Curators : f \in curating'[e].old /\ curating'[e].op = "remove"
                                             /\ curating'[e].at = "discard"
    BY <1>1 DEF Accounted
  <2>1. CASE f \in litter
    BY <1>9, <2>1
  <2>2. CASE \E e \in Designs : f \in FilesOf(design[e])
    BY <1>4, <1>7, <1>8, <2>2
  <2>3. CASE \E e \in Curators : f \in FilesOf(curating[e])
    BY <1>3, <1>4, <1>5, <2>3
  <2>4. CASE \E e \in Curators : f \in curating[e].old /\ curating[e].op = "remove"
                                /\ curating[e].at = "discard"
    BY <1>1, <1>4, <2>4
  <2> QED BY <2>1, <2>2, <2>3, <2>4 DEF Accounted
<1>15. Pictured'
  BY <1>1, <1>3, <1>4, <1>5 DEF Pictured, There
<1> QED BY <1>10, <1>11, <1>12, <1>13, <1>14, <1>15

\* Every step of the gallery keeps its invariant.
LEMMA GalleryStep == GalleryInv /\ [GalleryNext]_galleryVars => GalleryInv'
<1> SUFFICES ASSUME GalleryInv, [GalleryNext]_galleryVars PROVE GalleryInv'
  OBVIOUS
<1>1. CASE UNCHANGED galleryVars
  BY <1>1 DEF galleryVars, GalleryInv, GalleryTypeOK, FileIds, StageOK, OneCreator, OneOwner,
     Accounted, Pictured, There
<1>2. CASE GalleryNext
  BY <1>2, AskKeeps, StoreThumbKeeps, ThumbFailsKeeps, StoreImageKeeps, FailuresKeep, DiscardKeeps,
     DiscardFailsKeeps, WriteRowKeeps DEF GalleryNext
<1> QED BY <1>1, <1>2

\* The files of the gallery and its rows match, whatever requests cross, fail or stop:
\* no design shows a missing picture and no file is left over, but for the excuses that
\* FilesMatchRows names.
THEOREM GalleryFilesMatch == GallerySpec => []FilesMatchRows
<1>1. GalleryInv => FilesMatchRows
  <2> SUFFICES ASSUME GalleryInv PROVE FilesMatchRows
    OBVIOUS
  <2> DEFINE named == UNION {FilesOf(design[d]) : d \in Designs}
             handled == UNION {FilesOf(curating[c]) \cup curating[c].old : c \in Curators}
  <2>1. Pictured
    BY DEF GalleryInv
  <2>2. ASSUME NEW f \in shelf PROVE f \in litter \/ f \in named \/ f \in handled
    <3>1. CASE \E d \in Designs : f \in FilesOf(design[d])
      BY <3>1
    <3>2. CASE \E c \in Curators : f \in FilesOf(curating[c]) \cup curating[c].old
      BY <3>2
    <3> QED BY <2>2, <3>1, <3>2 DEF GalleryInv, Accounted
  <2>3. FilesMatchRows <=> Pictured /\ shelf \subseteq litter \cup named \cup handled
    BY Zenon DEF FilesMatchRows, Pictured
  <2>4. shelf \subseteq litter \cup named \cup handled
    <3> HIDE DEF named, handled
    <3> QED BY <2>2
  <2> QED BY <2>1, <2>3, <2>4
<1> QED BY GalleryInitial, GalleryStep, <1>1, PTL DEF GallerySpec

(***************************************************************************)
(* The signing of contracts.                                               *)
(***************************************************************************)

SheetRecords == [mode : Modes, option : BOOLEAN, type : Types, signed : BOOLEAN,
                 marks : SUBSET Marks, loaded : SUBSET Marks]
Errands == [op : {"none", "sign", "edit", "convert", "finalize"}, at : {"sent", "read", "mail"},
            type : Types, signed : BOOLEAN, marks : SUBSET Marks, base : Contracts]
SigningMixes == [at : SUBSET Contracts, calls : Nat, changes : Nat, api : BOOLEAN]

\* A form that is open is open for something.
Sheets == {s \in SheetRecords : s.mode = "away" => s = NoSheet}

ContractTyped ==
    /\ signing \in SigningMixes /\ contract \in Contracts
    /\ sheet \in [Signers -> Sheets] /\ errand \in [Signers -> Errands]
    /\ given \subseteq Marks /\ wiped \subseteq Marks /\ retyped \in BOOLEAN

ContractInv == ContractTyped /\ SignatureKept /\ SignedIsComplete

\* A closed form is a form.
LEMMA NoSheetTyped == NoSheet \in Sheets
  BY DEF NoSheet, Sheets, SheetRecords, Modes, Types

\* No errand is an errand.
LEMMA NoErrandTyped == NoErrand \in Errands /\ NoErrand.at = "sent"
  BY DEF NoErrand, Errands, Contracts, Types, Marks

\* The booking at first.
LEMMA ContractStarts == SigningInit => ContractInv
<1> SUFFICES ASSUME SigningInit PROVE ContractInv
  OBVIOUS
<1>1. signing \in SigningMixes /\ contract \in Contracts
  BY SigningAssumption DEF SigningInit, SigningMixes
<1>2. sheet \in [Signers -> Sheets] /\ errand \in [Signers -> Errands]
  BY NoSheetTyped, NoErrandTyped DEF SigningInit
<1>3. ContractTyped
  BY <1>1, <1>2 DEF SigningInit, ContractTyped, Contracts
<1>4. SignatureKept
  BY DEF SigningInit, SignatureKept
<1>5. SignedIsComplete
  BY SigningAssumption DEF SigningInit, SignedIsComplete, isContractFullySigned
<1> QED BY <1>3, <1>4, <1>5 DEF ContractInv

\* What is taken off a bound.
LEMMA CallSpent ==
    ASSUME NEW k \in SigningMixes
    PROVE  /\ k.calls > 0 => [k EXCEPT !.calls = @ - 1] \in SigningMixes
           /\ k.changes > 0 => [k EXCEPT !.changes = @ - 1] \in SigningMixes
<1>1. k.calls \in Nat /\ k.changes \in Nat
  BY DEF SigningMixes
<1>2. k.calls > 0 => k.calls - 1 \in Nat
  BY <1>1
<1>3. k.changes > 0 => k.changes - 1 \in Nat
  BY <1>1
<1> QED BY <1>2, <1>3 DEF SigningMixes

\* What a form is after an answer.
LEMMA SheetAfterTyped ==
    ASSUME ContractTyped, NEW p \in Signers, NEW e \in Errands
    PROVE  SheetAfter(p, e) \in Sheets
<1> DEFINE flag == SyncedFlag(e)
<1>1. flag \in BOOLEAN
  BY DEF SyncedFlag, Errands
<1>2. sheet[p] \in Sheets
  BY DEF ContractTyped
<1>3. SheetAfter(p, e) \in {sheet[p], NoSheet,
          [sheet[p] EXCEPT !.marks = e.marks, !.loaded = e.marks, !.signed = @ \/ flag]}
  BY DEF SheetAfter
<1>4. CASE sheet[p] # NoSheet
  <2> HIDE DEF flag
  <2>1. sheet[p] \in SheetRecords /\ sheet[p].mode # "away"
    BY <1>2, <1>4 DEF Sheets
  <2>2. (sheet[p].signed \/ flag) \in BOOLEAN
    OBVIOUS
  <2>3. [sheet[p] EXCEPT !.marks = e.marks, !.loaded = e.marks, !.signed = @ \/ flag] \in SheetRecords
    BY <2>1, <2>2 DEF SheetRecords, Errands
  <2>4. [sheet[p] EXCEPT !.marks = e.marks, !.loaded = e.marks, !.signed = @ \/ flag].mode # "away"
    BY <2>1 DEF SheetRecords
  <2> QED BY <1>2, <1>3, <2>3, <2>4, NoSheetTyped DEF Sheets
<1>5. CASE sheet[p] = NoSheet
  BY <1>5, NoSheetTyped DEF SheetAfter
<1> QED BY <1>4, <1>5

\* A step on a form alone.
LEMMA FormKeeps ==
    ASSUME ContractInv, NEW p \in Signers,
           \/ \E mode \in {"edit", "convert"}, asOption \in BOOLEAN : OpenSheet(p, mode, asOption)
           \/ CloseSheet(p) \/ ChangeType(p) \/ Untick(p)
    PROVE  ContractInv'
<1>0. ContractTyped /\ sheet[p] \in Sheets
  BY DEF ContractInv, ContractTyped
<1>1. SignatureKept' /\ SignedIsComplete'
  BY DEF ContractInv, OpenSheet, CloseSheet, ChangeType, Untick, SignatureKept, SignedIsComplete
<1>2. \E s \in Sheets : Sheet(p, s)
  <2>1. ASSUME NEW mode \in {"edit", "convert"}, NEW asOption \in BOOLEAN, OpenSheet(p, mode, asOption)
        PROVE  \E s \in Sheets : Sheet(p, s)
    <3> DEFINE s == [mode |-> mode, option |-> asOption, type |-> contract.type,
                     signed |-> contract.signed, marks |-> contract.marks, loaded |-> contract.marks]
    <3>1. s \in Sheets
      BY <1>0 DEF ContractTyped, Contracts, Modes, Sheets, SheetRecords
    <3> QED BY <2>1, <3>1 DEF OpenSheet
  <2>2. CASE CloseSheet(p)
    BY <2>2, NoSheetTyped DEF CloseSheet
  <2>3. CASE ChangeType(p)
    <3>1. PICK t \in Types \ {sheet[p].type} : Sheet(p, [sheet[p] EXCEPT !.type = t])
      BY <2>3 DEF ChangeType
    <3>2. sheet[p].mode # "away"
      BY <1>0, <2>3 DEF ChangeType, Sheets
    <3>3. [sheet[p] EXCEPT !.type = t] \in Sheets
      BY <1>0, <3>2 DEF Sheets, SheetRecords
    <3> QED BY <3>1, <3>3
  <2>4. CASE Untick(p)
    <3>1. [sheet[p] EXCEPT !.signed = FALSE, !.marks = {}] \in Sheets
      BY <1>0, <2>4 DEF Untick, Sheets, SheetRecords
    <3> QED BY <2>4, <3>1 DEF Untick
  <2> QED BY <2>1, <2>2, <2>3, <2>4
<1>3. sheet' \in [Signers -> Sheets]
  BY <1>0, <1>2 DEF Sheet, ContractTyped
<1>4. signing' \in SigningMixes
  BY <1>0, CallSpent DEF ContractTyped, OpenSheet, CloseSheet, ChangeType, Untick
<1>5. /\ contract' = contract /\ errand' = errand
      /\ given' = given /\ wiped' = wiped /\ retyped' = retyped
  BY DEF OpenSheet, CloseSheet, ChangeType, Untick
<1> QED BY <1>0, <1>1, <1>3, <1>4, <1>5 DEF ContractInv, ContractTyped

\* A request that is sent.
LEMMA CallKeeps ==
    ASSUME ContractInv, NEW p \in Signers, NEW op \in {"sign", "edit", "convert", "finalize"},
           NEW type \in Types, NEW signed \in BOOLEAN, NEW marks \in SUBSET Marks,
           Call(p, op, type, signed, marks)
    PROVE  ContractInv'
<1>1. [NoErrand EXCEPT !.op = op, !.type = type, !.signed = signed, !.marks = marks] \in Errands
  BY NoErrandTyped DEF Errands
<1>2. errand' \in [Signers -> Errands]
  BY <1>1 DEF Call, ContractInv, ContractTyped
<1>3. signing' \in SigningMixes
  BY CallSpent DEF Call, ContractInv, ContractTyped
<1>4. ContractTyped'
  BY <1>2, <1>3 DEF Call, ContractInv, ContractTyped
<1> QED BY <1>4 DEF ContractInv, Call, SignatureKept, SignedIsComplete

\* A form that is sent.
LEMMA RequestKeeps ==
    ASSUME ContractInv, NEW p \in Signers,
           handleSubmit(p) \/ \E m \in SUBSET Marks : handleConfirmSignature(p, m) \/ CallFinalize(p, m)
    PROVE  ContractInv'
<1>0. sheet[p] \in Sheets /\ sheet[p] \in SheetRecords
  BY DEF ContractInv, ContractTyped, Sheets
<1>1. CASE handleSubmit(p)
  <2>1. sheet[p].mode \in {"edit", "convert"}
    BY <1>1, <1>0 DEF handleSubmit, Modes, Sheets, SheetRecords
  <2>2. (sheet[p].marks \cup sheet[p].loaded) \in SUBSET Marks
    BY <1>0 DEF SheetRecords
  <2> QED BY <1>0, <1>1, <2>1, <2>2, CallKeeps DEF handleSubmit, SheetRecords
<1>2. ASSUME NEW m \in SUBSET Marks, handleConfirmSignature(p, m) PROVE ContractInv'
  <2> DEFINE next == (sheet[p].marks \cup m) \cap (IF sheet[p].type = "wedding" THEN Marks ELSE {"A"})
  <2>1. next \in SUBSET Marks
    BY <1>0 DEF SheetRecords
  <2>2. Call(p, "sign", sheet[p].type, TRUE, next)
    BY <1>2 DEF handleConfirmSignature
  <2> HIDE DEF next
  <2> QED BY <1>0, <2>1, <2>2, CallKeeps DEF SheetRecords
<1>3. ASSUME NEW m \in SUBSET Marks, CallFinalize(p, m) PROVE ContractInv'
  BY <1>3, CallKeeps DEF CallFinalize, Types
<1> QED BY <1>1, <1>2, <1>3

\* The server reads the booking.
LEMMA ReadKeeps == ASSUME ContractInv, NEW p \in Signers, ReadBooking(p) PROVE ContractInv'
<1> DEFINE e == [errand[p] EXCEPT !.base = contract, !.at = "read"]
<1>1. e \in Errands
  BY DEF ContractInv, ContractTyped, Errands
<1>2. errand' = [errand EXCEPT ![p] = IF Denied(e) THEN NoErrand ELSE e]
  BY DEF ReadBooking
<1>3. (IF Denied(e) THEN NoErrand ELSE e) \in Errands
  BY <1>1, NoErrandTyped
<1>4. errand' \in [Signers -> Errands]
  BY <1>2, <1>3 DEF ContractInv, ContractTyped
<1> QED BY <1>4 DEF ReadBooking, ContractInv, ContractTyped, SignatureKept, SignedIsComplete

\* The server writes the contract.
LEMMA WriteKeeps == ASSUME ContractInv, NEW p \in Signers, WriteContract(p) PROVE ContractInv'
<1> DEFINE e == errand[p]
           marks == pickSignature(e)
           flag == SyncedFlag(e)
           keeps == contract.option /\ e.op \notin {"convert", "finalize"}
<1>0. ContractTyped
  BY DEF ContractInv
<1>1. e \in Errands /\ [e EXCEPT !.at = "mail"] \in Errands
  BY <1>0 DEF ContractTyped, Errands
<1>2. marks \in SUBSET Marks /\ flag \in BOOLEAN /\ TypeFor(e) \in Types /\ keeps \in BOOLEAN
  BY <1>0, <1>1 DEF ContractTyped, pickSignature, SyncedFlag, TypeFor, Errands, Contracts
<1>3. contract' = [contract EXCEPT !.marks = marks, !.signed = flag,
                       !.type = IF e.op \in {"edit", "convert"} THEN e.type ELSE @,
                       !.option = keeps]
  BY <1>0 DEF WriteContract, ContractTyped, Contracts
<1>4. contract'.marks = marks /\ contract'.signed = flag /\ contract' \in Contracts
      /\ contract'.type = (IF e.op \in {"edit", "convert"} THEN e.type ELSE contract.type)
  <2>1. contract \in Contracts /\ e.type \in Types
    BY <1>0, <1>1 DEF ContractTyped, Errands
  <2> HIDE DEF e, marks, flag, keeps
  <2> QED BY <1>2, <1>3, <2>1 DEF Contracts
<1>5. SignatureKept'
  <2>1. \A x \in contract.marks \ marks : x \in Unknown(e)
    BY <1>0, <1>1 DEF ContractTyped, pickSignature, Unknown, Contracts, Marks
  <2>2. wiped' = (wiped \cup ((contract.marks \ marks) \cap Unknown(e))) \ marks
        /\ given' = given \cup marks
    BY DEF WriteContract
  <2>3. given \subseteq contract.marks \cup wiped
    BY DEF ContractInv, SignatureKept
  <2> HIDE DEF marks, e
  <2> QED BY <1>4, <2>1, <2>2, <2>3 DEF SignatureKept
<1>6. SignedIsComplete'
  <2>1. retyped' = (TypeFor(e) # contract'.type)
    BY DEF WriteContract
  <2> QED BY <1>4, <2>1 DEF SignedIsComplete, SyncedFlag, isContractFullySigned
<1>7. sheet' \in [Signers -> Sheets]
  <2>1. SheetAfter(p, e) \in Sheets
    BY <1>0, <1>1, SheetAfterTyped
  <2>2. sheet' = sheet \/ sheet' = [sheet EXCEPT ![p] = SheetAfter(p, e)]
    BY DEF WriteContract, Sheet
  <2> QED BY <1>0, <2>1, <2>2 DEF ContractTyped
<1>8. errand' \in [Signers -> Errands]
  <2>1. \/ errand' = [errand EXCEPT ![p] = [e EXCEPT !.at = "mail"]]
        \/ errand' = [errand EXCEPT ![p] = NoErrand]
    BY <1>0 DEF WriteContract, ContractTyped
  <2> QED BY <1>0, <1>1, <2>1, NoErrandTyped DEF ContractTyped
<1>9. given' \subseteq Marks /\ wiped' \subseteq Marks /\ retyped' \in BOOLEAN /\ signing' = signing
  <2>1. /\ wiped' = (wiped \cup ((contract.marks \ marks) \cap Unknown(e))) \ marks
        /\ given' = given \cup marks /\ signing' = signing
    BY DEF WriteContract
  <2>2. retyped' = (TypeFor(e) # contract'.type)
    BY DEF WriteContract
  <2>3. contract.marks \subseteq Marks /\ given \subseteq Marks /\ wiped \subseteq Marks
    BY <1>0 DEF ContractTyped, Contracts
  <2> HIDE DEF marks, e
  <2> QED BY <1>2, <2>1, <2>2, <2>3
<1>10. ContractTyped'
  BY <1>0, <1>4, <1>7, <1>8, <1>9 DEF ContractTyped
<1> QED BY <1>5, <1>6, <1>10 DEF ContractInv

\* The contract is mailed.
LEMMA MailKeeps ==
    ASSUME ContractInv, NEW p \in Signers, NEW printed \in BOOLEAN, MailContract(p, printed)
    PROVE  ContractInv'
<1>1. errand[p] \in Errands /\ ContractTyped
  BY DEF ContractInv, ContractTyped
<1>2. sheet' \in [Signers -> Sheets]
  <2>1. SheetAfter(p, errand[p]) \in Sheets
    BY <1>1, SheetAfterTyped
  <2>2. sheet' = sheet \/ sheet' = [sheet EXCEPT ![p] = SheetAfter(p, errand[p])]
    BY DEF MailContract, Sheet
  <2> QED BY <1>1, <2>1, <2>2 DEF ContractTyped
<1>3. errand' \in [Signers -> Errands]
  BY <1>1, NoErrandTyped DEF MailContract, ContractTyped
<1> QED BY <1>2, <1>3 DEF MailContract, ContractInv, ContractTyped, SignatureKept, SignedIsComplete

\* Every step of the signing keeps its invariant.
LEMMA ContractStep == ContractInv /\ [SigningNext]_signingVars => ContractInv'
<1> SUFFICES ASSUME ContractInv, [SigningNext]_signingVars PROVE ContractInv'
  OBVIOUS
<1>1. CASE UNCHANGED signingVars
  BY <1>1 DEF signingVars, ContractInv, ContractTyped, SignatureKept, SignedIsComplete
<1>2. CASE SigningNext
  BY <1>2, FormKeeps, RequestKeeps, ReadKeeps, WriteKeeps, MailKeeps DEF SigningNext
<1> QED BY <1>1, <1>2

\* Whatever is signed, edited, closed and finalized meanwhile, a signature stays on the
\* contract and a contract marked as signed has those that its event requires, but for the
\* excuses that ContractHolds names.
THEOREM SigningContractHolds == SigningSpec => []ContractHolds
<1>1. ContractInv => ContractHolds
  BY DEF ContractInv, ContractHolds
<1> QED BY ContractStarts, ContractStep, <1>1, PTL DEF SigningSpec

(***************************************************************************)
(* The inbox.                                                              *)
(***************************************************************************)

Listings == [by : Agents, of : Threads, at : {"sent", "read", "marked"}, rows : Nat]
Replies == [at : {"none", "sent", "stored"}, of : Threads \cup {NoThread}, place : Nat]
InboxMixes == [arrivals : Nat, opens : Nat, replies : Nat, hands : Nat, faults : Nat]

InboxTyped ==
    /\ inbox \in InboxMixes
    /\ thread \in [Threads -> [status : Statuses, unread : Nat, open : BOOLEAN]]
    /\ log \in [Threads -> Seq({"Inbound", "Outbound"})]
    /\ tallied \in [Threads -> SUBSET Nat]
    /\ selected \in [Agents -> Threads \cup {NoThread}]
    /\ listings \subseteq Listings
    /\ reply \in [Agents -> Replies]
    /\ outrun \subseteq Threads

\* What is counted is a message of the customer.
TalliedInbound ==
    \A t \in Threads : \A i \in tallied[t] : i \in 1..Len(log[t]) /\ log[t][i] = "Inbound"

\* A reply that is stored is in the conversation.
ReplyStored ==
    \A a \in Agents :
        /\ reply[a].at # "none" => reply[a].of \in Threads
        /\ reply[a].at = "stored" => /\ reply[a].place \in 1..Len(log[reply[a].of])
                                     /\ log[reply[a].of][reply[a].place] = "Outbound"

\* The messages of a conversation that no screen has had and none is about to have.
Unseen(t) ==
    {i \in tallied[t] : <<t, i>> \notin shown \cup overlooked
        /\ \A l \in listings : l.of = t /\ l.at = "marked" => <<t, i>> \notin PageOf(l)}

CountsUnseen == \A t \in Threads : Cardinality(Unseen(t)) <= thread[t].unread

InboxInv ==
    /\ InboxTyped /\ TalliedInbound /\ ReplyStored /\ AnswerAwaited /\ CountsUnseen

\* An empty inbox.
LEMMA InboxStarts == InboxInit => InboxInv
<1> SUFFICES ASSUME InboxInit PROVE InboxInv
  OBVIOUS
<1>1. InboxTyped
  BY InboxAssumption DEF InboxInit, InboxTyped, InboxMixes, Statuses, Replies, NoReply
<1>2. TalliedInbound /\ ReplyStored /\ AnswerAwaited
  BY DEF InboxInit, TalliedInbound, ReplyStored, NoReply, AnswerAwaited
<1>3. CountsUnseen
  <2>1. \A t \in Threads : Unseen(t) = {} /\ thread[t].unread = 0
    BY DEF InboxInit, Unseen
  <2> QED BY <2>1, FS_EmptySet DEF CountsUnseen
<1> QED BY <1>1, <1>2, <1>3 DEF InboxInv

\* What nobody has seen is finite.
LEMMA UnseenFinite == ASSUME InboxTyped, TalliedInbound, NEW t \in Threads
                      PROVE  IsFiniteSet(Unseen(t))
<1>1. Unseen(t) \subseteq 1..Len(log[t])
  BY DEF Unseen, TalliedInbound
<1>2. Len(log[t]) \in Nat
  BY DEF InboxTyped
<1>3. IsFiniteSet(1..Len(log[t]))
  BY <1>2, FS_Interval
<1> QED BY <1>1, <1>3, FS_Subset

\* Some of a set that was counted.
LEMMA FewerCounted ==
    ASSUME NEW S, IsFiniteSet(S), NEW T \in SUBSET S, NEW n \in Nat, NEW m \in Nat,
           Cardinality(S) <= n, n <= m
    PROVE  Cardinality(T) <= m
<1>1. IsFiniteSet(T) /\ Cardinality(T) <= Cardinality(S)
  BY FS_Subset
<1>2. Cardinality(T) \in Nat /\ Cardinality(S) \in Nat
  BY <1>1, FS_CardinalityType
<1> QED BY <1>1, <1>2

\* There are as many unseen messages as before, or fewer.
LEMMA UnseenFewer ==
    ASSUME InboxInv, InboxTyped', NEW t \in Threads,
           Unseen(t)' \subseteq Unseen(t), thread[t].unread <= thread'[t].unread
    PROVE  Cardinality(Unseen(t)') <= thread'[t].unread
<1> DEFINE S == Unseen(t)
           T == Unseen(t)'
           n == thread[t].unread
           m == thread'[t].unread
<1>1. IsFiniteSet(S) /\ T \in SUBSET S
  BY UnseenFinite DEF InboxInv
<1>2. n \in Nat /\ m \in Nat /\ Cardinality(S) <= n /\ n <= m
  BY DEF InboxInv, InboxTyped, CountsUnseen
<1> HIDE DEF S, T, n, m
<1>3. Cardinality(T) <= m
  BY <1>1, <1>2, FewerCounted
<1> QED BY <1>3 DEF T, m

\* A message that is added to a conversation.
LEMMA LogGrows ==
    ASSUME InboxTyped, NEW t \in Threads, NEW x \in {"Inbound", "Outbound"},
           log' = [log EXCEPT ![t] = Append(@, x)]
    PROVE  /\ log' \in [Threads -> Seq({"Inbound", "Outbound"})]
           /\ log'[t][Len(log[t]) + 1] = x /\ Len(log[t]) + 1 \in 1..Len(log'[t])
           /\ \A u \in Threads : \A i \in 1..Len(log[u]) :
                 i \in 1..Len(log'[u]) /\ log'[u][i] = log[u][i]
<1>1. log[t] \in Seq({"Inbound", "Outbound"}) /\ log'[t] = Append(log[t], x)
      /\ \A u \in Threads : u # t => log'[u] = log[u]
  BY DEF InboxTyped
<1>2. Len(log'[t]) = Len(log[t]) + 1 /\ Len(log[t]) \in Nat
  BY <1>1
<1> QED BY <1>1, <1>2 DEF InboxTyped

\* A step that adds at most messages to conversations keeps what is said of them.
LEMMA LogKeeps ==
    ASSUME InboxInv, InboxTyped', tallied' = tallied, reply' = reply,
           \A u \in Threads : \A i \in 1..Len(log[u]) :
              i \in 1..Len(log'[u]) /\ log'[u][i] = log[u][i],
           outrun \subseteq outrun' \/ outrun' = outrun,
           \A u \in Threads \ outrun' : thread'[u].status = "WaitingForCustomer"
                                           => thread[u].status = "WaitingForCustomer"
    PROVE  TalliedInbound' /\ ReplyStored' /\ AnswerAwaited'
<1>1. TalliedInbound'
  BY DEF InboxInv, TalliedInbound
<1>2. ReplyStored'
  BY DEF InboxInv, ReplyStored
<1>3. AnswerAwaited'
  <2> SUFFICES ASSUME NEW u \in Threads \ outrun', thread'[u].status = "WaitingForCustomer",
                      NEW i \in tallied[u]
               PROVE  \E j \in DOMAIN log'[u] : j > i /\ log'[u][j] = "Outbound"
    BY DEF AnswerAwaited
  <2>1. PICK j \in DOMAIN log[u] : j > i /\ log[u][j] = "Outbound"
    BY DEF InboxInv, AnswerAwaited
  <2>2. DOMAIN log[u] = 1..Len(log[u]) /\ DOMAIN log'[u] = 1..Len(log'[u])
    BY DEF InboxInv, InboxTyped
  <2> QED BY <2>1, <2>2
<1> QED BY <1>1, <1>2, <1>3

\* A bound that is spent is a bound.
LEMMA SpendTyped ==
    ASSUME inbox \in InboxMixes, NEW what \in {"arrivals", "opens", "replies", "hands", "faults"},
           Spend(what)
    PROVE  inbox' \in InboxMixes
<1>1. inbox[what] \in Nat /\ inbox[what] - 1 \in Nat
  BY DEF InboxMixes, Spend
<1> QED BY <1>1 DEF InboxMixes, Spend

\* A message is inserted.
LEMMA MessageInsertKeeps == ASSUME InboxInv, NEW t \in Threads, InsertMessage(t) PROVE InboxInv'
<1>0. inbox' \in InboxMixes
  BY SpendTyped DEF InboxInv, InboxTyped, InsertMessage
<1>1. /\ log' \in [Threads -> Seq({"Inbound", "Outbound"})]
      /\ \A u \in Threads : \A i \in 1..Len(log[u]) :
            i \in 1..Len(log'[u]) /\ log'[u][i] = log[u][i]
  <2>1. log' = [log EXCEPT ![t] = Append(@, "Inbound")] /\ InboxTyped
    BY DEF InsertMessage, InboxInv
  <2> QED BY <2>1, LogGrows
<1>2. InboxTyped'
  BY <1>0, <1>1 DEF InsertMessage, InboxInv, InboxTyped
<1>3. TalliedInbound' /\ ReplyStored' /\ AnswerAwaited'
  BY <1>1, <1>2, LogKeeps DEF InsertMessage
<1>4. CountsUnseen'
  <2>1. ASSUME NEW u \in Threads PROVE Unseen(u)' = Unseen(u) /\ thread' = thread
    BY DEF InsertMessage, Unseen, PageOf
  <2> QED BY <2>1 DEF InboxInv, CountsUnseen
<1> QED BY <1>2, <1>3, <1>4 DEF InboxInv

\* A message is counted on its conversation.
LEMMA TallyKeeps ==
    ASSUME InboxInv, NEW t \in Threads, NEW i \in DOMAIN log[t], TallyMessage(t, i)
    PROVE  InboxInv'
<1> USE DEF InboxInv
<1>1. i \in 1..Len(log[t]) /\ i \notin tallied[t] /\ log[t][i] = "Inbound" /\ i \in Nat
  BY DEF TallyMessage, InboxTyped
<1>2. /\ tallied'[t] = tallied[t] \cup {i}
      /\ thread'[t] = [status |-> AfterInbound(thread[t].status), unread |-> thread[t].unread + 1,
                       open |-> TRUE]
      /\ \A u \in Threads : u # t => tallied'[u] = tallied[u] /\ thread'[u] = thread[u]
      /\ tallied' \in [Threads -> SUBSET Nat]
      /\ log' = log /\ reply' = reply /\ listings' = listings /\ outrun' = outrun
      /\ shown' = shown /\ overlooked' = overlooked
  BY <1>1 DEF TallyMessage, InboxTyped
<1>3. thread'[t].status = "WaitingForManager" /\ thread'[t].unread = thread[t].unread + 1
  BY <1>2 DEF AfterInbound
<1>4. thread' \in [Threads -> [status : Statuses, unread : Nat, open : BOOLEAN]]
  <2>1. thread[t].unread + 1 \in Nat
    BY DEF InboxTyped
  <2>2. [status |-> AfterInbound(thread[t].status), unread |-> thread[t].unread + 1, open |-> TRUE]
          \in [status : Statuses, unread : Nat, open : BOOLEAN]
    BY <2>1 DEF AfterInbound, Statuses
  <2> QED BY <2>2 DEF TallyMessage, InboxTyped
<1>5. InboxTyped'
  BY <1>2, <1>4 DEF TallyMessage, InboxTyped
<1>6. TalliedInbound' /\ ReplyStored'
  BY <1>1, <1>2 DEF TalliedInbound, ReplyStored
<1>7. AnswerAwaited'
  BY <1>2, <1>3 DEF AnswerAwaited
<1>8. CountsUnseen'
  <2> SUFFICES ASSUME NEW u \in Threads PROVE Cardinality(Unseen(u)') <= thread'[u].unread
    BY DEF CountsUnseen
  <2>1. CASE u # t
    <3>1. Unseen(u)' = Unseen(u)
      BY <1>2, <2>1 DEF Unseen, PageOf
    <3> QED BY <1>2, <2>1, <3>1 DEF CountsUnseen
  <2>2. CASE u = t
    <3> DEFINE S == Unseen(t)
               T == Unseen(t)'
               n == thread[t].unread
    <3>1. T \subseteq S \cup {i}
      BY <1>2 DEF Unseen, PageOf
    <3>2. IsFiniteSet(S) /\ Cardinality(S) <= n /\ n \in Nat
      BY UnseenFinite DEF CountsUnseen, InboxTyped
    <3> HIDE DEF S, T, n
    <3>3. IsFiniteSet(S \cup {i}) /\ Cardinality(S \cup {i}) <= n + 1
      <4>1. Cardinality(S) \in Nat
        BY <3>2, FS_CardinalityType
      <4>2. /\ IsFiniteSet(S \cup {i})
            /\ Cardinality(S \cup {i}) = IF i \in S THEN Cardinality(S) ELSE Cardinality(S) + 1
        BY <3>2, FS_AddElement
      <4> QED BY <3>2, <4>1, <4>2
    <3>4. Cardinality(T) <= n + 1
      BY <3>1, <3>2, <3>3, FewerCounted
    <3> QED BY <2>2, <3>4, <1>3 DEF T, n
  <2> QED BY <2>1, <2>2
<1> QED BY <1>5, <1>6, <1>7, <1>8

\* A status that is set otherwise than by an answer, or another window of care.
LEMMA StatusKeeps ==
    ASSUME InboxInv, NEW t \in Threads,
           CareWindowCloses(t) \/ \E status \in Statuses : SetStatus(t, status)
    PROVE  InboxInv'
<1>1. inbox' \in InboxMixes
  BY SpendTyped DEF InboxInv, InboxTyped, CareWindowCloses, SetStatus
<1>2. /\ thread' \in [Threads -> [status : Statuses, unread : Nat, open : BOOLEAN]]
      /\ \A u \in Threads : thread'[u].unread = thread[u].unread
      /\ outrun' \subseteq Threads /\ outrun \subseteq outrun'
      /\ \A u \in Threads : u \in outrun' \/ thread'[u].status = thread[u].status
  <2>1. CASE CareWindowCloses(t)
    BY <2>1 DEF InboxInv, InboxTyped, CareWindowCloses
  <2>2. ASSUME NEW status \in Statuses, SetStatus(t, status)
        PROVE  /\ thread' = [thread EXCEPT ![t].status = status]
               /\ outrun' = outrun \cup {t}
    BY <2>2 DEF SetStatus
  <2>3. CASE \E status \in Statuses : SetStatus(t, status)
    <3>1. PICK status \in Statuses : /\ thread' = [thread EXCEPT ![t].status = status]
                                    /\ outrun' = outrun \cup {t}
      BY <2>2, <2>3
    <3> QED BY <3>1 DEF InboxInv, InboxTyped
  <2> QED BY <2>1, <2>3
<1>3. /\ log' = log /\ tallied' = tallied /\ selected' = selected /\ listings' = listings
      /\ reply' = reply /\ shown' = shown /\ overlooked' = overlooked
  BY DEF CareWindowCloses, SetStatus
<1>4. InboxTyped'
  BY <1>1, <1>2, <1>3 DEF InboxInv, InboxTyped
<1>5. TalliedInbound' /\ ReplyStored' /\ AnswerAwaited'
  BY <1>2, <1>3, <1>4, LogKeeps
<1>6. CountsUnseen'
  <2>1. ASSUME NEW u \in Threads PROVE Unseen(u)' = Unseen(u)
    BY <1>3 DEF Unseen, PageOf
  <2> QED BY <1>2, <2>1 DEF InboxInv, CountsUnseen
<1> QED BY <1>4, <1>5, <1>6 DEF InboxInv

\* A request of a listing or for a reply that starts, and a reply that fails.
LEMMA AskedKeeps ==
    ASSUME InboxInv, NEW a \in Agents,
           (\E t \in Threads : OpenThread(a, t)) \/ SendReply(a) \/ ReplyFails(a)
    PROVE  InboxInv'
<1>1. inbox' \in InboxMixes
  BY SpendTyped DEF InboxInv, InboxTyped, OpenThread, SendReply, ReplyFails
<1>2. /\ log' = log /\ tallied' = tallied /\ thread' = thread /\ outrun' = outrun
      /\ shown' = shown /\ overlooked' = overlooked
  BY DEF OpenThread, SendReply, ReplyFails
<1>3. /\ listings' \subseteq Listings /\ selected' \in [Agents -> Threads \cup {NoThread}]
      /\ listings \subseteq listings'
  <2>1. ASSUME NEW t \in Threads PROVE Listing(a, t) \in Listings
    BY DEF Listing, Listings
  <2>2. \/ listings' = listings /\ selected' = selected
        \/ \E t \in Threads : /\ listings' = listings \cup {Listing(a, t)}
                              /\ selected' = [selected EXCEPT ![a] = t]
    BY DEF OpenThread, SendReply, ReplyFails
  <2> QED BY <2>1, <2>2 DEF InboxInv, InboxTyped
<1>4. reply' \in [Agents -> Replies] /\ ReplyStored'
  <2>1. CASE reply' = reply
    BY <1>2, <2>1 DEF InboxInv, InboxTyped, ReplyStored
  <2>2. CASE SendReply(a)
    <3>1. selected[a] \in Threads
      BY <2>2 DEF SendReply, InboxInv, InboxTyped
    <3> DEFINE r == [at |-> "sent", of |-> selected[a], place |-> 0]
    <3>2. r \in Replies /\ r.at = "sent" /\ r.of \in Threads
      BY <3>1 DEF Replies
    <3>3. reply' = [reply EXCEPT ![a] = r]
      BY <2>2 DEF SendReply
    <3> HIDE DEF r
    <3> QED BY <1>2, <3>2, <3>3 DEF InboxInv, InboxTyped, ReplyStored
  <2>3. CASE ReplyFails(a)
    <3>1. NoReply \in Replies /\ NoReply.at = "none"
      BY DEF NoReply, Replies
    <3>2. reply' = [reply EXCEPT ![a] = NoReply]
      BY <2>3 DEF ReplyFails
    <3> QED BY <1>2, <3>1, <3>2 DEF InboxInv, InboxTyped, ReplyStored
  <2> QED BY <2>1, <2>2, <2>3 DEF OpenThread
<1>5. InboxTyped'
  BY <1>1, <1>2, <1>3, <1>4 DEF InboxInv, InboxTyped
<1>6. TalliedInbound' /\ AnswerAwaited'
  BY <1>2 DEF InboxInv, TalliedInbound, AnswerAwaited
<1>7. CountsUnseen'
  <2> SUFFICES ASSUME NEW u \in Threads PROVE Cardinality(Unseen(u)') <= thread'[u].unread
    BY DEF CountsUnseen
  <2>1. Unseen(u)' \subseteq Unseen(u)
    BY <1>2, <1>3 DEF Unseen, PageOf
  <2>2. thread[u].unread <= thread'[u].unread
    BY <1>2 DEF InboxInv, InboxTyped
  <2> QED BY <1>5, <2>1, <2>2, UnseenFewer
<1> QED BY <1>4, <1>5, <1>6, <1>7 DEF InboxInv

\* A listing reads the messages.
LEMMA ReadMessagesKeeps ==
    ASSUME InboxInv, NEW l \in listings, ReadMessages(l) PROVE InboxInv'
<1> DEFINE m == [l EXCEPT !.at = "read", !.rows = Len(log[l.of])]
<1>1. l \in Listings /\ l.at = "sent" /\ Len(log[l.of]) \in Nat
  BY DEF InboxInv, InboxTyped, Listings, ReadMessages
<1>2. m \in Listings /\ m.at = "read"
  BY <1>1 DEF Listings
<1>3. listings' = (listings \ {l}) \cup {m}
  BY DEF ReadMessages
<1>4. /\ inbox' = inbox /\ thread' = thread /\ log' = log /\ tallied' = tallied
      /\ selected' = selected /\ reply' = reply /\ shown' = shown /\ overlooked' = overlooked
      /\ outrun' = outrun
  BY DEF ReadMessages
<1> HIDE DEF m
<1>5. InboxTyped'
  BY <1>2, <1>3, <1>4 DEF InboxInv, InboxTyped
<1>6. TalliedInbound' /\ ReplyStored' /\ AnswerAwaited'
  BY <1>4 DEF InboxInv, TalliedInbound, ReplyStored, AnswerAwaited
<1>7. CountsUnseen'
  <2> SUFFICES ASSUME NEW u \in Threads PROVE Cardinality(Unseen(u)') <= thread'[u].unread
    BY DEF CountsUnseen
  <2>1. \A k \in listings : k.at = "marked" => k \in listings'
    BY <1>1, <1>3
  <2>2. Unseen(u)' \subseteq Unseen(u)
    BY <1>4, <2>1 DEF Unseen, PageOf
  <2>3. thread[u].unread <= thread'[u].unread
    BY <1>4 DEF InboxInv, InboxTyped
  <2> QED BY <1>5, <2>2, <2>3, UnseenFewer
<1> QED BY <1>5, <1>6, <1>7 DEF InboxInv

\* Marking a conversation as read puts every message of it on a page or among those
\* overlooked.
LEMMA MarkReadKeeps ==
    ASSUME InboxInv, NEW l \in listings, MarkRead(l) PROVE InboxInv'
<1> DEFINE m == [l EXCEPT !.at = "marked"]
<1>1. l \in Listings /\ l.at = "read" /\ l.of \in Threads /\ l.rows \in Nat
  BY DEF InboxInv, InboxTyped, Listings, MarkRead
<1>2. m \in Listings /\ m.at = "marked" /\ m.of = l.of /\ m.rows = l.rows
  BY <1>1 DEF Listings
<1>3. listings' = (listings \ {l}) \cup {m}
  BY DEF MarkRead
<1>4. /\ inbox' = inbox /\ log' = log /\ tallied' = tallied
      /\ selected' = selected /\ reply' = reply /\ shown' = shown
      /\ outrun' = outrun /\ overlooked \subseteq overlooked'
      /\ \A j \in tallied[l.of] : j > l.rows \/ j + PageLimit <= l.rows
            => <<l.of, j>> \in overlooked'
  BY DEF MarkRead
<1>5. /\ thread' \in [Threads -> [status : Statuses, unread : Nat, open : BOOLEAN]]
      /\ thread'[l.of].unread = 0
      /\ \A u \in Threads : thread'[u].status = thread[u].status
      /\ \A u \in Threads : u # l.of => thread'[u].unread = thread[u].unread
  BY <1>1 DEF MarkRead, InboxInv, InboxTyped
<1> HIDE DEF m
<1>6. InboxTyped'
  BY <1>2, <1>3, <1>4, <1>5 DEF InboxInv, InboxTyped
<1>7. TalliedInbound' /\ ReplyStored' /\ AnswerAwaited'
  BY <1>4, <1>5 DEF InboxInv, TalliedInbound, ReplyStored, AnswerAwaited
<1>8. CountsUnseen'
  <2> SUFFICES ASSUME NEW u \in Threads PROVE Cardinality(Unseen(u)') <= thread'[u].unread
    BY DEF CountsUnseen
  <2>1. CASE u = l.of
    <3>1. ASSUME NEW i \in tallied[u], <<u, i>> \notin overlooked' PROVE <<u, i>> \in PageOf(m)
      <4>1. i \in Nat /\ i \in 1..Len(log[u])
        BY DEF InboxInv, InboxTyped, TalliedInbound
      <4>2. i \in 1..l.rows /\ i > l.rows - PageLimit
        BY <1>1, <1>4, <2>1, <3>1, <4>1, InboxAssumption
      <4> QED BY <1>2, <2>1, <4>2 DEF PageOf
    <3>2. m \in listings'
      BY <1>3
    <3>3. Unseen(u)' = {}
      BY <1>2, <1>4, <2>1, <3>1, <3>2 DEF Unseen, PageOf
    <3> QED BY <1>5, <2>1, <3>3, FS_EmptySet
  <2>2. CASE u # l.of
    <3>1. \A k \in listings : k.at = "marked" => k \in listings'
      BY <1>1, <1>3
    <3>2. Unseen(u)' \subseteq Unseen(u)
      BY <1>4, <3>1 DEF Unseen, PageOf
    <3>3. thread[u].unread <= thread'[u].unread
      BY <1>5, <2>2 DEF InboxInv, InboxTyped
    <3> QED BY <1>6, <3>2, <3>3, UnseenFewer
  <2> QED BY <2>1, <2>2
<1> QED BY <1>6, <1>7, <1>8 DEF InboxInv

\* An answer that arrives or is lost: its page comes to a screen or is overlooked.
LEMMA AnswerKeeps ==
    ASSUME InboxInv, NEW l \in listings, ShowMessages(l) \/ ListingFails(l) PROVE InboxInv'
<1>1. inbox' \in InboxMixes
  BY SpendTyped DEF InboxInv, InboxTyped, ShowMessages, ListingFails
<1>2. /\ thread' = thread /\ log' = log /\ tallied' = tallied /\ selected' = selected
      /\ reply' = reply /\ outrun' = outrun /\ listings' = listings \ {l}
  BY DEF ShowMessages, ListingFails
<1>3. /\ shown \cup overlooked \subseteq shown' \cup overlooked'
      /\ l.at = "marked" => PageOf(l) \subseteq shown' \cup overlooked'
  BY DEF ShowMessages, ListingFails
<1>4. InboxTyped'
  BY <1>1, <1>2 DEF InboxInv, InboxTyped
<1>5. TalliedInbound' /\ ReplyStored' /\ AnswerAwaited'
  BY <1>2 DEF InboxInv, TalliedInbound, ReplyStored, AnswerAwaited
<1>6. CountsUnseen'
  <2> SUFFICES ASSUME NEW u \in Threads PROVE Cardinality(Unseen(u)') <= thread'[u].unread
    BY DEF CountsUnseen
  <2>1. ASSUME NEW i \in Unseen(u)' PROVE i \in Unseen(u)
    <3>1. i \in tallied[u] /\ <<u, i>> \notin shown' \cup overlooked'
      BY <1>2 DEF Unseen
    <3>2. ASSUME NEW k \in listings, k.of = u, k.at = "marked" PROVE <<u, i>> \notin PageOf(k)
      <4>1. CASE k = l
        BY <1>3, <3>1, <3>2, <4>1
      <4>2. CASE k # l
        BY <1>2, <3>2, <4>2 DEF Unseen, PageOf
      <4> QED BY <4>1, <4>2
    <3> QED BY <1>3, <3>1, <3>2 DEF Unseen
  <2>2. thread[u].unread <= thread'[u].unread
    BY <1>2 DEF InboxInv, InboxTyped
  <2> QED BY <1>4, <2>1, <2>2, UnseenFewer
<1> QED BY <1>4, <1>5, <1>6 DEF InboxInv

\* A reply is stored.
LEMMA StoreReplyKeeps ==
    ASSUME InboxInv, NEW a \in Agents, StoreReply(a) PROVE InboxInv'
<1> DEFINE t == reply[a].of
<1>1. t \in Threads /\ reply[a].at = "sent" /\ InboxTyped /\ reply[a] \in Replies
  BY DEF InboxInv, InboxTyped, ReplyStored, StoreReply
<1>2. /\ inbox' = inbox /\ thread' = thread /\ tallied' = tallied /\ selected' = selected
      /\ listings' = listings /\ shown' = shown /\ overlooked' = overlooked /\ outrun' = outrun
  BY DEF StoreReply
<1>3. CASE ~thread[t].open
  <2>1. NoReply \in Replies /\ NoReply.at = "none"
    BY DEF NoReply, Replies
  <2>2. reply' = [reply EXCEPT ![a] = NoReply] /\ log' = log
    BY <1>3 DEF StoreReply
  <2>3. InboxTyped' /\ ReplyStored'
    BY <1>1, <1>2, <2>1, <2>2 DEF InboxInv, InboxTyped, ReplyStored
  <2>4. TalliedInbound' /\ AnswerAwaited'
    BY <1>2, <2>2 DEF InboxInv, TalliedInbound, AnswerAwaited
  <2>5. CountsUnseen'
    <3>1. ASSUME NEW u \in Threads PROVE Unseen(u)' = Unseen(u)
      BY <1>2 DEF Unseen, PageOf
    <3> QED BY <1>2, <3>1 DEF InboxInv, CountsUnseen
  <2> QED BY <2>3, <2>4, <2>5 DEF InboxInv
<1>4. CASE thread[t].open
  <2> DEFINE r == [reply[a] EXCEPT !.at = "stored", !.place = Len(log[t]) + 1]
  <2>1. Len(log[t]) \in Nat
    BY <1>1 DEF InboxTyped
  <2>2. r \in Replies /\ r.at = "stored" /\ r.of = t /\ r.place = Len(log[t]) + 1
    <3>1. Len(log[t]) + 1 \in Nat
      BY <2>1
    <3> HIDE DEF t
    <3>2. r.at = "stored" /\ r.of = reply[a].of /\ r.place = Len(log[t]) + 1
      BY <1>1 DEF Replies
    <3>3. r \in Replies
      BY <1>1, <3>1 DEF Replies
    <3> QED BY <3>2, <3>3 DEF t
  <2>3. log' = [log EXCEPT ![t] = Append(@, "Outbound")]
    BY <1>4 DEF StoreReply
  <2>4. reply' = [reply EXCEPT ![a] = r]
    BY <1>1, <1>4 DEF StoreReply, InboxTyped
  <2>5. /\ log' \in [Threads -> Seq({"Inbound", "Outbound"})]
        /\ log'[t][Len(log[t]) + 1] = "Outbound" /\ Len(log[t]) + 1 \in 1..Len(log'[t])
        /\ \A u \in Threads : \A i \in 1..Len(log[u]) :
              i \in 1..Len(log'[u]) /\ log'[u][i] = log[u][i]
    BY <1>1, <2>3, LogGrows
  <2> HIDE DEF r, t
  <2>6. reply'[a] = r /\ \A b \in Agents : b # a => reply'[b] = reply[b]
    BY <1>1, <2>4 DEF InboxTyped
  <2>7. InboxTyped'
    BY <1>1, <1>2, <2>2, <2>4, <2>5 DEF InboxTyped
  <2>8. TalliedInbound'
    BY <1>2, <2>5 DEF InboxInv, TalliedInbound
  <2>9. ReplyStored'
    <3>1. ASSUME NEW b \in Agents, b # a
          PROVE  /\ reply'[b].at # "none" => reply'[b].of \in Threads
                 /\ reply'[b].at = "stored" => /\ reply'[b].place \in 1..Len(log'[reply'[b].of])
                                               /\ log'[reply'[b].of][reply'[b].place] = "Outbound"
      BY <2>5, <2>6, <3>1 DEF InboxInv, ReplyStored
    <3>2. /\ reply'[a].of \in Threads /\ reply'[a].place \in 1..Len(log'[reply'[a].of])
          /\ log'[reply'[a].of][reply'[a].place] = "Outbound"
      BY <1>1, <2>2, <2>5, <2>6
    <3> QED BY <3>1, <3>2 DEF ReplyStored
  <2>10. AnswerAwaited'
    <3> SUFFICES ASSUME NEW u \in Threads \ outrun', thread'[u].status = "WaitingForCustomer",
                        NEW i \in tallied[u]
                 PROVE  \E j \in DOMAIN log'[u] : j > i /\ log'[u][j] = "Outbound"
      BY <1>2 DEF AnswerAwaited
    <3>1. PICK j \in DOMAIN log[u] : j > i /\ log[u][j] = "Outbound"
      BY <1>2 DEF InboxInv, AnswerAwaited
    <3>2. DOMAIN log[u] = 1..Len(log[u]) /\ DOMAIN log'[u] = 1..Len(log'[u])
      BY <1>1, <2>5 DEF InboxTyped
    <3> QED BY <2>5, <3>1, <3>2
  <2>11. CountsUnseen'
    <3>1. ASSUME NEW u \in Threads PROVE Unseen(u)' = Unseen(u)
      BY <1>2 DEF Unseen, PageOf
    <3> QED BY <1>2, <3>1 DEF InboxInv, CountsUnseen
  <2> QED BY <2>7, <2>8, <2>9, <2>10, <2>11 DEF InboxInv
<1> QED BY <1>3, <1>4

\* The reply stands behind every message that was counted, or the conversation is one of
\* those whose status was written over a message.
LEMMA AwaitKeeps ==
    ASSUME InboxInv, NEW a \in Agents, AwaitCustomer(a) PROVE InboxInv'
<1> DEFINE t == reply[a].of
           p == reply[a].place
<1>1. /\ InboxTyped /\ t \in Threads /\ p \in 1..Len(log[t]) /\ log[t][p] = "Outbound"
      /\ reply[a].at = "stored"
  BY DEF InboxInv, ReplyStored, AwaitCustomer
<1>2. /\ inbox' = inbox /\ log' = log /\ tallied' = tallied /\ selected' = selected
      /\ shown' = shown /\ overlooked' = overlooked
      /\ reply' = [reply EXCEPT ![a] = NoReply] /\ listings' = listings \cup {Listing(a, t)}
      /\ thread' = [thread EXCEPT ![t].status = "WaitingForCustomer"]
      /\ outrun' = IF \E i \in tallied[t] : i > p THEN outrun \cup {t} ELSE outrun \ {t}
  BY DEF AwaitCustomer
<1>3. Listing(a, t) \in Listings /\ NoReply \in Replies /\ NoReply.at = "none"
  BY <1>1 DEF Listing, Listings, NoReply, Replies
<1> HIDE DEF t, p
<1>4. /\ thread' \in [Threads -> [status : Statuses, unread : Nat, open : BOOLEAN]]
      /\ \A u \in Threads : thread'[u].unread = thread[u].unread
      /\ \A u \in Threads : u # t => thread'[u] = thread[u]
  BY <1>1, <1>2 DEF InboxTyped, Statuses
<1>5. InboxTyped' /\ ReplyStored'
  BY <1>1, <1>2, <1>3, <1>4 DEF InboxInv, InboxTyped, ReplyStored
<1>6. TalliedInbound'
  BY <1>2 DEF InboxInv, TalliedInbound
<1>7. AnswerAwaited'
  <2> SUFFICES ASSUME NEW u \in Threads \ outrun', thread'[u].status = "WaitingForCustomer",
                      NEW i \in tallied[u]
               PROVE  \E j \in DOMAIN log[u] : j > i /\ log[u][j] = "Outbound"
    BY <1>2 DEF AnswerAwaited
  <2>1. CASE u # t
    BY <1>2, <1>4, <2>1 DEF InboxInv, AnswerAwaited
  <2>2. CASE u = t
    <3>1. ~(\E k \in tallied[t] : k > p)
      BY <1>2, <2>2
    <3>2. i \in 1..Len(log[t]) /\ log[t][i] = "Inbound" /\ Len(log[t]) \in Nat
      BY <1>1, <2>2 DEF InboxInv, TalliedInbound, InboxTyped
    <3>3. p > i
      BY <1>1, <2>2, <3>1, <3>2
    <3>4. DOMAIN log[t] = 1..Len(log[t])
      BY <1>1 DEF InboxTyped
    <3> QED BY <1>1, <2>2, <3>3, <3>4
  <2> QED BY <2>1, <2>2
<1>8. CountsUnseen'
  <2>1. ASSUME NEW u \in Threads PROVE Cardinality(Unseen(u)') <= thread'[u].unread
    <3>1. Unseen(u)' \subseteq Unseen(u)
      BY <1>2 DEF Unseen, PageOf
    <3>2. thread[u].unread <= thread'[u].unread
      BY <1>1, <1>4 DEF InboxTyped
    <3> QED BY <1>5, <3>1, <3>2, UnseenFewer
  <2> QED BY <2>1 DEF CountsUnseen
<1> QED BY <1>5, <1>6, <1>7, <1>8 DEF InboxInv

\* Every step of the inbox keeps its invariant.
LEMMA InboxStep == InboxInv /\ [InboxNext]_inboxVars => InboxInv'
<1> SUFFICES ASSUME InboxInv, [InboxNext]_inboxVars PROVE InboxInv'
  OBVIOUS
<1>1. CASE UNCHANGED inboxVars
  <2>1. InboxTyped' /\ TalliedInbound' /\ ReplyStored'
    BY <1>1 DEF inboxVars, InboxInv, InboxTyped, TalliedInbound, ReplyStored
  <2>2. AnswerAwaited'
    BY <1>1 DEF inboxVars, InboxInv, AnswerAwaited
  <2>3. CountsUnseen'
    <3>1. ASSUME NEW u \in Threads PROVE Unseen(u)' = Unseen(u) /\ thread' = thread
      BY <1>1 DEF inboxVars, Unseen, PageOf
    <3> QED BY <3>1 DEF InboxInv, CountsUnseen
  <2> QED BY <2>1, <2>2, <2>3 DEF InboxInv
<1>2. CASE InboxNext
  BY <1>2, MessageInsertKeeps, TallyKeeps, StatusKeeps, AskedKeeps, ReadMessagesKeeps, MarkReadKeeps,
     AnswerKeeps, StoreReplyKeeps, AwaitKeeps DEF InboxNext
<1> QED BY <1>1, <1>2

\* What waits for the customer was answered last by the staff, in every interleaving of
\* messages, replies and listings.
THEOREM InboxAnswerAwaited == InboxSpec => []AnswerAwaited
<1>1. InboxInv => AnswerAwaited
  BY DEF InboxInv
<1> QED BY InboxStarts, InboxStep, <1>1, PTL DEF InboxSpec

\* The count of unread messages is at least that of the messages no screen has had, but for
\* the excuses that UnreadIsUnseen names.
THEOREM InboxUnreadIsUnseen == InboxSpec => []UnreadIsUnseen
<1>1. InboxInv => UnreadIsUnseen
  <2> SUFFICES ASSUME InboxInv, NEW t \in Threads
               PROVE  LET unseen == {i \in tallied[t] : <<t, i>> \notin shown \cup overlooked}
                          coming == {l \in listings : l.of = t /\ l.at = "marked"}
                      IN  Cardinality({i \in unseen : \A l \in coming : <<t, i>> \notin PageOf(l)})
                              <= thread[t].unread
    BY Zenon DEF UnreadIsUnseen
  <2> DEFINE unseen == {i \in tallied[t] : <<t, i>> \notin shown \cup overlooked}
             coming == {l \in listings : l.of = t /\ l.at = "marked"}
             missing == {i \in unseen : \A l \in coming : <<t, i>> \notin PageOf(l)}
  <2>1. missing = Unseen(t)
    BY DEF Unseen, PageOf
  <2>2. Cardinality(Unseen(t)) <= thread[t].unread
    BY DEF InboxInv, CountsUnseen
  <2> QED BY <2>1, <2>2
<1> QED BY InboxStarts, InboxStep, <1>1, PTL DEF InboxSpec

(***************************************************************************)
(* The settings and the quotations.                                        *)
(***************************************************************************)

\* A share of an even amount is exact.
LEMMA PercentEven == \A a \in Int : Percent(2 * a, 50) = a /\ Percent(2 * a, 0) = 0
  BY DEF Percent

\* The parts of a total are multiples of four.
LEMMA PortionsOf ==
    ASSUME NEW n \in 0..2, NEW price \in {0, 4}
    PROVE  \E m \in 0..2 : n * price = 4 * m
<1>1. CASE price = 0
  BY <1>1
<1>2. CASE price = 4
  BY <1>2
<1> QED BY <1>1, <1>2

\* What Number() makes of a field.
LEMMA NumOf == /\ \A n \in -1..2 : Num(n) \in 0..2
               /\ \A n \in {Empty, 0, 4} : Num(n) \in {0, 4}
  BY DEF Num, Empty

\* The form and the server come to the same total on papers that say the same.
LEMMA TotalsAgree ==
    ASSUME NEW t \in Tariffs, NEW x \in Papers, NEW d \in Papers,
           d.hallOnly = x.hallOnly, d.vatAdded = x.vatAdded, d.percent = x.percent,
           d.amount = x.amount, d.upgrades = x.upgrades, d.kosher = x.kosher,
           x.hallOnly => Num(d.rental) = Num(x.rental),
           ~x.hallOnly => /\ Num(d.portion) = Num(x.portion)
                          /\ Num(d.guests) = Num(x.guests) /\ Num(d.minimum) = Num(x.minimum)
    PROVE  calculateTotals(x, t) = ServerTotal(d, t)
<1> DEFINE portions == IF Num(x.guests) > Num(x.minimum) THEN Num(x.guests) ELSE Num(x.minimum)
           reception == IF "reception" \in x.upgrades THEN UpgradePrice(t, "reception") ELSE 0
           main == IF x.hallOnly THEN Num(x.rental) ELSE portions * Num(x.portion)
           meals == IF x.hallOnly THEN 0 ELSE portions * KosherExtra[x.kosher]
           discount == Percent(main, x.percent) + x.amount
           rest == IF discount > main THEN 0 ELSE main - discount
           vat(a) == IF x.vatAdded THEN Percent(a, VatRate(t)) ELSE 0
<1>1. portions \in 0..2 /\ Num(x.portion) \in {0, 4} /\ Num(x.rental) \in {0, 4}
      /\ KosherExtra[x.kosher] \in {0, 4}
  BY NumOf DEF Papers, KosherExtra
<1>2. PICK m \in 0..2 : main = 4 * m
  <2>1. CASE x.hallOnly
    BY <1>1, <2>1
  <2>2. CASE ~x.hallOnly
    <3> HIDE DEF portions
    <3>1. \E m \in 0..2 : portions * Num(x.portion) = 4 * m
      BY <1>1, PortionsOf
    <3> QED BY <2>2, <3>1
  <2> QED BY <2>1, <2>2
<1>3. PICK k \in 0..2 : meals = 4 * k
  <2>1. CASE x.hallOnly
    BY <2>1
  <2>2. CASE ~x.hallOnly
    <3> HIDE DEF portions
    <3>1. \E k \in 0..2 : portions * KosherExtra[x.kosher] = 4 * k
      BY <1>1, PortionsOf
    <3> QED BY <2>2, <3>1
  <2> QED BY <2>1, <2>2
<1>4. PICK u \in 0..2 : reception = 4 * u
  <2>1. t.reception \in 0..1
    BY DEF Tariffs
  <2> QED BY <2>1 DEF UpgradePrice
<1>5. \/ \A a, b \in Int : b = 2 * a => vat(b) = 0
      \/ \A a, b \in Int : b = 2 * a => vat(b) = a
  <2>1. VatRate(t) \in {0, 50}
    BY DEF VatRate, Tariffs
  <2>2. CASE ~x.vatAdded
    BY <2>2
  <2>3. CASE x.vatAdded /\ VatRate(t) = 0
    BY <2>3, PercentEven
  <2>4. CASE x.vatAdded /\ VatRate(t) = 50
    BY <2>4, PercentEven
  <2> QED BY <2>1, <2>2, <2>3, <2>4
<1>7. PICK r \in 0..4 : rest = 2 * r
  <2>1. x.percent \in {0, 50} /\ x.amount \in {0, 4}
    BY DEF Papers
  <2>2. Percent(main, x.percent) = 0 \/ Percent(main, x.percent) = 2 * m
    <3>1. main = 2 * (2 * m) /\ 2 * m \in Int
      BY <1>2
    <3> HIDE DEF main
    <3> QED BY <2>1, <3>1, PercentEven
  <2> HIDE DEF main
  <2> QED BY <1>2, <2>1, <2>2
<1>8. calculateTotals(x, t) = rest + vat(rest) + (meals + reception) + vat(meals + reception)
  BY DEF calculateTotals
<1>9. resolveBillablePortions(d) = portions \/ x.hallOnly
  BY NumOf DEF resolveBillablePortions, Papers
<1>10. ServerTotal(d, t) = LET net == (reception + meals) + rest
                           IN  IF x.vatAdded THEN net + Percent(net, VatRate(t)) ELSE net
  <2>1. (IF d.hallOnly THEN Num(d.rental) ELSE resolveBillablePortions(d) * Num(d.portion)) = main
    BY <1>9
  <2>2. (IF d.hallOnly THEN 0 ELSE resolveBillablePortions(d) * KosherExtra[d.kosher]) = meals
    BY <1>9
  <2> DEFINE D == Percent(main, d.percent) + d.amount
  <2>3. (IF main > D THEN main - D ELSE 0) = rest
    <3>1. D = discount
      OBVIOUS
    <3>2. x.percent \in {0, 50} /\ x.amount \in {0, 4}
      BY DEF Papers
    <3>3. discount \in Int
      <4>1. main = 2 * (2 * m) /\ 2 * m \in Int
        BY <1>2
      <4> HIDE DEF main
      <4>2. Percent(main, 50) = 2 * m /\ Percent(main, 0) = 0
        BY <4>1, PercentEven
      <4>3. Percent(main, x.percent) \in Int
        BY <3>2, <4>1, <4>2
      <4> QED BY <3>2, <4>3
    <3>4. main \in Int
      BY <1>2
    <3> HIDE DEF main, discount, D
    <3> QED BY <3>1, <3>3, <3>4
  <2> QED BY <2>1, <2>2, <2>3 DEF ServerTotal
<1> DEFINE extras == reception + meals
<1>11. extras = 2 * (2 * (u + k)) /\ meals + reception = extras /\ 2 * (u + k) \in Int
  BY <1>3, <1>4
<1>12. extras + rest = 2 * (2 * (u + k) + r) /\ 2 * (u + k) + r \in Int
  BY <1>7, <1>11
<1>13. ServerTotal(d, t) = (extras + rest) + vat(extras + rest)
  <2>1. extras + rest \in Int
    BY <1>12
  <2> HIDE DEF extras, rest
  <2> QED BY <1>10, <2>1 DEF extras
<1> HIDE DEF extras, rest, meals, reception, main, vat
<1>14. extras \in Int /\ rest \in Int /\ r \in Int /\ extras + rest \in Int
  BY <1>7, <1>11
<1>15. vat(extras + rest) = vat(extras) + vat(rest) /\ vat(extras) \in Int /\ vat(rest) \in Int
  <2> DEFINE a == 2 * (u + k)
  <2>1. a \in Int /\ a + r \in Int /\ extras = 2 * a /\ extras + rest = 2 * (a + r)
    BY <1>7, <1>11, <1>12
  <2> HIDE DEF a
  <2>2. CASE \A c, b \in Int : b = 2 * c => vat(b) = 0
    <3>1. vat(extras + rest) = 0 /\ vat(extras) = 0 /\ vat(rest) = 0
      BY <1>7, <1>14, <2>1, <2>2
    <3> QED BY <3>1
  <2>3. CASE \A c, b \in Int : b = 2 * c => vat(b) = c
    <3>1. vat(extras + rest) = a + r
      BY <1>14, <2>1, <2>3
    <3>2. vat(extras) = a
      BY <1>14, <2>1, <2>3
    <3>3. vat(rest) = r
      BY <1>7, <1>14, <2>3
    <3> QED BY <1>14, <2>1, <3>1, <3>2, <3>3
  <2> QED BY <1>5, <2>2, <2>3
<1> QED BY <1>8, <1>11, <1>13, <1>14, <1>15

Fields == {"vat", "reception", "terms", "hidden"}
QuoteMixes == [sites : SUBSET {"page", "form"}, changes : Nat, saves : Nat, losses : Nat]

QuoteTyped ==
    /\ quote \in QuoteMixes
    /\ tariff \in Tariffs /\ chosen \in Tariffs
    /\ copy \in [Officers -> Tariffs \cup {NoCopy}]
    /\ awaited \subseteq Officers /\ deaf \subseteq Officers
    /\ window \in [Officers -> Displays]
    /\ priced \in Papers
    /\ overlaid \subseteq Fields

\* A screen that waits for no fetch and has missed no announcement has the price list in
\* force.
CopyFresh ==
    \A o \in Officers : ~At(o, "away") /\ o \notin awaited \cup deaf => copy[o] = tariff

\* The minimum is filled in with the guests, and every booking has one.
MinimumFilled ==
    /\ priced.minimum # Empty
    /\ \A o \in Officers : window[o].paper.minimum = Empty => window[o].paper.guests = Empty

QuoteInv == QuoteTyped /\ CopyFresh /\ SettingKept /\ MinimumFilled

\* The fields of a tariff.
LEMMA TariffFields == \A t \in Tariffs : DOMAIN t = Fields
  BY DEF Tariffs, Fields

\* A new form.
LEMMA PapersNew == NewPaper \in Papers /\ NewPaper.minimum = Empty /\ NewPaper.guests = Empty
  BY DEF NewPaper, Papers, Listed, Empty

\* A closed screen.
LEMMA DisplayClosed == /\ Closed \in Displays /\ Closed.at = "away" /\ Closed.paper = NewPaper
  BY PapersNew DEF Closed, Displays, Prices

\* The settings at first.
LEMMA QuoteStarts == QuoteInit => QuoteInv
<1> SUFFICES ASSUME QuoteInit PROVE QuoteInv
  OBVIOUS
<1>1. DefaultTariff \in Tariffs
  BY DEF DefaultTariff, Tariffs, Listed
<1>2. priced \in Papers /\ priced.minimum # Empty
  <2>1. priced = [NewPaper EXCEPT !.guests = 1, !.minimum = 2, !.upgrades = {"lighting"}]
    BY DEF QuoteInit
  <2>2. {"lighting"} \in SUBSET Listed /\ 1 \in -1..2 /\ 2 \in -1..2
    BY DEF Listed
  <2>3. priced \in Papers /\ priced.minimum = 2
    BY <2>1, <2>2, PapersNew DEF Papers
  <2> QED BY <2>3 DEF Empty
<1>3. QuoteTyped
  BY <1>1, <1>2, DisplayClosed, QuoteAssumption DEF QuoteInit, QuoteTyped, QuoteMixes
<1>4. CopyFresh /\ SettingKept
  BY DisplayClosed DEF QuoteInit, CopyFresh, SettingKept, At
<1>5. MinimumFilled
  BY <1>2, DisplayClosed, PapersNew DEF QuoteInit, MinimumFilled
<1> QED BY <1>3, <1>4, <1>5 DEF QuoteInv

\* What is taken off a bound.
LEMMA QuoteSpent ==
    ASSUME NEW k \in QuoteMixes
    PROVE  /\ k.changes > 0 => [k EXCEPT !.changes = @ - 1] \in QuoteMixes
           /\ k.saves > 0 => [k EXCEPT !.saves = @ - 1] \in QuoteMixes
           /\ \A n \in Nat : k.saves > 0 /\ n <= k.losses
                 => [k EXCEPT !.saves = @ - 1, !.losses = @ - n] \in QuoteMixes
<1>1. k.changes \in Nat /\ k.saves \in Nat /\ k.losses \in Nat
  BY DEF QuoteMixes
<1>2. k.changes > 0 => k.changes - 1 \in Nat
  BY <1>1
<1>3. k.saves > 0 => k.saves - 1 \in Nat
  BY <1>1
<1>4. \A n \in Nat : n <= k.losses => k.losses - n \in Nat
  BY <1>1
<1> QED BY <1>2, <1>3, <1>4 DEF QuoteMixes

\* A window that changes, with the paper in it filled in as it should be.
LEMMA WindowKeeps ==
    ASSUME QuoteInv, NEW o \in Officers, NEW w \in Displays, window' = [window EXCEPT ![o] = w],
           w.paper.minimum = Empty => w.paper.guests = Empty
    PROVE  /\ window' \in [Officers -> Displays] /\ window'[o] = w
           /\ \A q \in Officers : q # o => window'[q] = window[q]
           /\ \A q \in Officers : window'[q].paper.minimum = Empty => window'[q].paper.guests = Empty
  BY DEF QuoteInv, QuoteTyped, MinimumFilled

\* A screen that is opened fetches the settings, one that is closed does not matter.
LEMMA OpenKeeps ==
    ASSUME QuoteInv, NEW o \in Officers,
           OpenPage(o) \/ (\E edited \in BOOLEAN : OpenBookingForm(o, edited)) \/ CloseWindow(o)
    PROVE  QuoteInv'
<1>1. /\ quote' = quote /\ tariff' = tariff /\ copy' = copy /\ priced' = priced
      /\ chosen' = chosen /\ deaf' = deaf /\ overlaid' = overlaid
  BY DEF OpenPage, OpenBookingForm, CloseWindow
<1>2. copy[o] \in Tariffs \cup {NoCopy} /\ priced \in Papers
  BY DEF QuoteInv, QuoteTyped
<1>3. \E w \in Displays :
         /\ window' = [window EXCEPT ![o] = w] /\ (w.paper.minimum = Empty => w.paper.guests = Empty)
         /\ \/ awaited' = awaited \cup {o}
            \/ awaited' = awaited \ {o} /\ w.at = "away"
  <2>1. CASE OpenPage(o)
    <3> DEFINE w == [Closed EXCEPT !.at = "page", !.draft = copy[o],
                        !.tab = IF copy[o] = NoCopy THEN NoCopy ELSE copy[o].terms]
    <3>1. (IF copy[o] = NoCopy THEN NoCopy ELSE copy[o].terms) \in {0, 1, NoCopy}
      BY <1>2 DEF Tariffs
    <3>2. w \in Displays /\ w.paper = NewPaper
      BY <1>2, <3>1, DisplayClosed DEF Displays
    <3>3. window' = [window EXCEPT ![o] = w] /\ awaited' = awaited \cup {o}
      BY <2>1 DEF OpenPage
    <3> HIDE DEF w
    <3> QED BY <3>2, <3>3, PapersNew
  <2>2. ASSUME NEW edited \in BOOLEAN, OpenBookingForm(o, edited)
        PROVE  \E w \in Displays :
                  /\ window' = [window EXCEPT ![o] = w]
                  /\ w.paper.minimum = Empty => w.paper.guests = Empty
                  /\ awaited' = awaited \cup {o}
    <3> DEFINE paper == IF edited THEN LoadedPaper ELSE NewPaper
               w == [Closed EXCEPT !.at = "form", !.edited = edited, !.paper = paper]
    <3>1. paper \in Papers /\ (paper.minimum = Empty => paper.guests = Empty)
      BY <1>2, PapersNew DEF LoadedPaper, Papers, QuoteInv, MinimumFilled
    <3>2. window' = [window EXCEPT ![o] = w] /\ awaited' = awaited \cup {o}
      BY <2>2 DEF OpenBookingForm
    <3> HIDE DEF paper
    <3>3. w \in Displays /\ w.paper = paper
      BY <3>1, DisplayClosed DEF Displays
    <3> HIDE DEF w
    <3> QED BY <3>1, <3>2, <3>3
  <2>3. CASE CloseWindow(o)
    BY <2>3, DisplayClosed, PapersNew DEF CloseWindow
  <2> QED BY <2>1, <2>2, <2>3
<1>4. PICK w \in Displays :
         /\ window' = [window EXCEPT ![o] = w] /\ (w.paper.minimum = Empty => w.paper.guests = Empty)
         /\ \/ awaited' = awaited \cup {o}
            \/ awaited' = awaited \ {o} /\ w.at = "away"
  BY <1>3
<1>5. QuoteTyped'
  BY <1>1, <1>4, WindowKeeps DEF QuoteInv, QuoteTyped
<1>6. CopyFresh'
  BY <1>1, <1>4, WindowKeeps DEF QuoteInv, CopyFresh, At
<1>7. SettingKept'
  BY <1>1 DEF QuoteInv, SettingKept
<1>8. MinimumFilled'
  BY <1>1, <1>4, WindowKeeps DEF QuoteInv, MinimumFilled
<1> QED BY <1>5, <1>6, <1>7, <1>8 DEF QuoteInv

\* A screen fetches the settings again.
LEMMA RefetchKeeps == ASSUME QuoteInv, NEW o \in Officers, Refetch(o) PROVE QuoteInv'
<1>1. /\ quote' = quote /\ tariff' = tariff /\ priced' = priced /\ chosen' = chosen
      /\ overlaid' = overlaid /\ copy' = [copy EXCEPT ![o] = tariff]
      /\ awaited' = awaited \ {o} /\ deaf' = deaf \ {o}
  BY DEF Refetch
<1>2. QuoteTyped
  BY DEF QuoteInv
<1>3. window[o] \in Displays /\ tariff \in Tariffs
  BY <1>2 DEF QuoteTyped
<1>4. \E w \in Displays : /\ window' = [window EXCEPT ![o] = w]
                         /\ w.paper = window[o].paper /\ w.at = window[o].at
  <2>1. CASE At(o, "page")
    <3> DEFINE draft == IF TakesDraft(o) THEN tariff ELSE window[o].draft
               typed == IF TakesDraft(o) THEN window[o].typed \cap {"terms"} ELSE window[o].typed
               tab == IF window[o].tab = NoCopy THEN tariff.terms ELSE window[o].tab
               w == [window[o] EXCEPT !.draft = draft, !.typed = typed, !.tab = tab]
    <3>1. draft \in Tariffs \cup {NoCopy} /\ typed \in SUBSET (Prices \cup {"terms"})
      BY <1>3 DEF Displays
    <3>2. tab \in {0, 1, NoCopy}
      BY <1>3 DEF Displays, Tariffs
    <3>3. window' = [window EXCEPT ![o] = w]
      BY <1>2, <2>1 DEF Refetch, QuoteTyped, Displays
    <3> HIDE DEF draft, typed, tab
    <3>4. w \in Displays /\ w.paper = window[o].paper /\ w.at = window[o].at
      BY <1>3, <3>1, <3>2 DEF Displays
    <3> HIDE DEF w
    <3> QED BY <3>3, <3>4
  <2>2. CASE ~At(o, "page")
    <3>1. window' = [window EXCEPT ![o] = window[o]]
      BY <1>2, <2>2 DEF Refetch, QuoteTyped
    <3> QED BY <1>3, <3>1
  <2> QED BY <2>1, <2>2
<1>5. PICK w \in Displays : /\ window' = [window EXCEPT ![o] = w]
                           /\ w.paper = window[o].paper /\ w.at = window[o].at
  BY <1>4
<1>6. w.paper.minimum = Empty => w.paper.guests = Empty
  BY <1>5 DEF QuoteInv, MinimumFilled
<1>7. QuoteTyped'
  <2>1. window' \in [Officers -> Displays]
    BY <1>5, <1>6, WindowKeeps
  <2>2. copy' \in [Officers -> Tariffs \cup {NoCopy}]
    BY <1>1, <1>3, <1>2 DEF QuoteTyped
  <2> QED BY <1>1, <1>2, <2>1, <2>2 DEF QuoteTyped
<1>8. CopyFresh'
  <2>1. \A q \in Officers : window'[q].at = window[q].at
    BY <1>5, <1>6, WindowKeeps
  <2>2. copy'[o] = tariff /\ \A q \in Officers : q # o => copy'[q] = copy[q]
    BY <1>1, <1>2 DEF QuoteTyped
  <2> QED BY <1>1, <2>1, <2>2 DEF QuoteInv, CopyFresh, At
<1>9. SettingKept'
  BY <1>1 DEF QuoteInv, SettingKept
<1>10. MinimumFilled'
  BY <1>1, <1>5, <1>6, WindowKeeps DEF QuoteInv, MinimumFilled
<1> QED BY <1>7, <1>8, <1>9, <1>10 DEF QuoteInv

\* Something is typed into the settings page.
LEMMA TypeKeeps ==
    ASSUME QuoteInv, NEW o \in Officers,
           TypeTerms(o) \/ \E field \in Prices : TypePrice(o, field)
    PROVE  QuoteInv'
<1>1. /\ tariff' = tariff /\ copy' = copy /\ awaited' = awaited /\ priced' = priced
      /\ chosen' = chosen /\ deaf' = deaf /\ overlaid' = overlaid
  BY DEF TypeTerms, TypePrice
<1>2. QuoteTyped /\ window[o] \in Displays
  BY DEF QuoteInv, QuoteTyped
<1>3. \E w \in Displays : /\ window' = [window EXCEPT ![o] = w]
                         /\ w.paper = window[o].paper /\ w.at = window[o].at
  <2>1. CASE TypeTerms(o)
    <3> DEFINE w == [window[o] EXCEPT !.tab = 1 - @, !.typed = @ \cup {"terms"}]
    <3>1. window' = [window EXCEPT ![o] = w]
      BY <1>2, <2>1 DEF TypeTerms, QuoteTyped, Displays
    <3>2. 1 - window[o].tab \in {0, 1}
      BY <1>2, <2>1 DEF TypeTerms, Displays
    <3>3. w \in Displays /\ w.paper = window[o].paper /\ w.at = window[o].at
      BY <1>2, <3>2 DEF Displays
    <3> HIDE DEF w
    <3> QED BY <3>1, <3>3
  <2>2. ASSUME NEW field \in Prices, TypePrice(o, field)
        PROVE  \E w \in Displays : /\ window' = [window EXCEPT ![o] = w]
                                  /\ w.paper = window[o].paper /\ w.at = window[o].at
    <3> DEFINE draft == [window[o].draft EXCEPT ![field] = 1 - @]
               w == [window[o] EXCEPT !.draft = draft, !.typed = @ \cup {field}]
    <3>1. window[o].draft \in Tariffs
      BY <1>2, <2>2 DEF TypePrice, Displays
    <3>2. draft \in Tariffs
      <4>1. CASE field = "vat"
        BY <3>1, <4>1 DEF Tariffs
      <4>2. CASE field = "reception"
        BY <3>1, <4>2 DEF Tariffs
      <4> QED BY <4>1, <4>2 DEF Prices
    <3>3. window' = [window EXCEPT ![o] = w]
      BY <1>2, <2>2 DEF TypePrice, QuoteTyped, Displays
    <3> HIDE DEF draft
    <3>4. w \in Displays /\ w.paper = window[o].paper /\ w.at = window[o].at
      BY <1>2, <3>2 DEF Displays
    <3> HIDE DEF w
    <3> QED BY <3>3, <3>4
  <2> QED BY <2>1, <2>2
<1>4. PICK w \in Displays : /\ window' = [window EXCEPT ![o] = w]
                           /\ w.paper = window[o].paper /\ w.at = window[o].at
  BY <1>3
<1>5. w.paper.minimum = Empty => w.paper.guests = Empty
  BY <1>4 DEF QuoteInv, MinimumFilled
<1>6. quote' \in QuoteMixes
  BY <1>2, QuoteSpent DEF TypeTerms, TypePrice, Change, QuoteTyped
<1>7. QuoteTyped'
  BY <1>1, <1>2, <1>4, <1>5, <1>6, WindowKeeps DEF QuoteTyped
<1>8. CopyFresh'
  <2>1. \A q \in Officers : window'[q].at = window[q].at
    BY <1>4, <1>5, WindowKeeps
  <2> QED BY <1>1, <2>1 DEF QuoteInv, CopyFresh, At
<1>9. SettingKept'
  BY <1>1 DEF QuoteInv, SettingKept
<1>10. MinimumFilled'
  BY <1>1, <1>4, <1>5, WindowKeeps DEF QuoteInv, MinimumFilled
<1> QED BY <1>7, <1>8, <1>9, <1>10 DEF QuoteInv

\* A PUT: everybody with an open screen hears of it or is deaf, and what is written that
\* was not chosen is either what was there or may have been old.
LEMMA PutKeeps ==
    ASSUME QuoteInv, NEW o \in Officers, NEW next \in Tariffs, NEW choice \in SUBSET Fields,
           NEW old \in SUBSET Fields, NEW own \in SUBSET Officers, NEW missing \in SUBSET Officers,
           PutSettings(next, choice, old, own, missing),
           \A f \in Fields : next[f] = tariff[f] \/ f \in choice \cup old,
           NEW w \in Displays, window' = [window EXCEPT ![o] = w],
           w.paper = window[o].paper, w.at = window[o].at
    PROVE  QuoteInv'
<1>1. w.paper.minimum = Empty => w.paper.guests = Empty
  BY DEF QuoteInv, MinimumFilled
<1>2. /\ tariff' = next /\ copy' = copy /\ priced' = priced
      /\ awaited' = awaited \cup Told(missing) \cup own /\ deaf' = deaf \cup missing
      /\ chosen' = [f \in DOMAIN chosen |-> IF f \in choice THEN next[f] ELSE chosen[f]]
      /\ overlaid' = (overlaid \ choice) \cup {f \in old \ choice : next[f] # tariff[f]}
  BY DEF PutSettings
<1>3. quote' \in QuoteMixes
  <2>1. Cardinality(missing) \in Nat
    BY QuoteAssumption, FS_Subset, FS_CardinalityType
  <2> QED BY <2>1, QuoteSpent DEF PutSettings, QuoteInv, QuoteTyped
<1>4. Told(missing) \subseteq Officers
      /\ \A q \in Officers : ~At(q, "away") => q \in missing \cup Told(missing)
  BY DEF Told
<1>5. DOMAIN chosen = Fields /\ DOMAIN tariff = Fields /\ chosen \in Tariffs /\ tariff \in Tariffs
      /\ DOMAIN next = Fields
  BY TariffFields DEF QuoteInv, QuoteTyped
<1>6. chosen' \in Tariffs
  BY <1>2, <1>5 DEF Tariffs, Fields
<1>7. QuoteTyped'
  BY <1>1, <1>2, <1>3, <1>4, <1>6, WindowKeeps DEF QuoteInv, QuoteTyped
<1>8. CopyFresh'
  <2>1. \A q \in Officers : window'[q].at = window[q].at
    BY <1>1, WindowKeeps
  <2> QED BY <1>2, <1>4, <2>1 DEF CopyFresh, At
<1>9. SettingKept'
  <2> SUFFICES ASSUME NEW f \in Fields, f \notin overlaid' PROVE next[f] = chosen'[f]
    BY <1>2, <1>5 DEF SettingKept
  <2>1. CASE f \in choice
    BY <1>2, <1>5, <2>1
  <2>2. CASE f \notin choice
    <3>1. next[f] = tariff[f] /\ f \notin overlaid
      BY <1>2, <2>2
    <3> QED BY <1>2, <1>5, <2>2, <3>1 DEF QuoteInv, SettingKept
  <2> QED BY <2>1, <2>2
<1>10. MinimumFilled'
  BY <1>1, <1>2, WindowKeeps DEF QuoteInv, MinimumFilled
<1> QED BY <1>7, <1>8, <1>9, <1>10 DEF QuoteInv

\* The whole draft is written: what of it was not typed is what the screen fetched, or old.
LEMMA SaveKeeps ==
    ASSUME QuoteInv, NEW o \in Officers, NEW missing \in SUBSET Officers, SaveSettings(o, missing)
    PROVE  QuoteInv'
<1> DEFINE next == window[o].draft
           choice == window[o].typed \cap Prices
           old == Old(o)
           w == [window[o] EXCEPT !.typed = @ \cap {"terms"}]
<1>1. window[o] \in Displays /\ window \in [Officers -> Displays] /\ tariff \in Tariffs
      /\ DOMAIN tariff = Fields
  BY TariffFields DEF QuoteInv, QuoteTyped
<1>2. next \in Tariffs /\ choice \in SUBSET Fields /\ {o} \in SUBSET Officers
  BY <1>1 DEF SaveSettings, Displays, Prices, Fields
<1>3. old \in SUBSET Fields
  BY <1>1 DEF Old
<1>4. w \in Displays /\ w.paper = window[o].paper /\ w.at = window[o].at
  BY <1>1 DEF Displays
<1>5. window' = [window EXCEPT ![o] = w] /\ PutSettings(next, choice, old, {o}, missing)
  BY <1>1 DEF SaveSettings
<1>6. \A f \in Fields : next[f] = tariff[f] \/ f \in choice \cup old
  <2> SUFFICES ASSUME NEW f \in Fields, f \notin old PROVE next[f] = tariff[f]
    OBVIOUS
  <2>1. o \notin awaited \cup deaf /\ next[f] = copy[o][f]
    BY <1>1 DEF Old
  <2>2. copy[o] = tariff
    BY <2>1 DEF SaveSettings, At, QuoteInv, CopyFresh
  <2> QED BY <2>1, <2>2
<1> HIDE DEF next, choice, old, w
<1> QED BY <1>2, <1>3, <1>4, <1>5, <1>6, PutKeeps

\* A price is hidden or shown.
LEMMA HideKeeps ==
    ASSUME QuoteInv, NEW o \in Officers, NEW key \in Listed, NEW missing \in SUBSET Officers,
           HidePrice(o, key, missing)
    PROVE  QuoteInv'
<1> DEFINE hidden == IF key \in window[o].draft.hidden THEN window[o].draft.hidden \ {key}
                     ELSE window[o].draft.hidden \cup {key}
           next == [tariff EXCEPT !.hidden = hidden]
           choice == {"hidden"} \ Old(o)
           draft == [window[o].draft EXCEPT !.hidden = hidden]
           w == [window[o] EXCEPT !.draft = draft]
<1>1. window[o] \in Displays /\ window \in [Officers -> Displays] /\ tariff \in Tariffs
      /\ window[o].draft \in Tariffs
  BY DEF QuoteInv, QuoteTyped, HidePrice, Displays
<1>2. hidden \in SUBSET Listed
  BY <1>1 DEF Tariffs
<1>3. window' = [window EXCEPT ![o] = w] /\ PutSettings(next, choice, {"hidden"}, {o}, missing)
  BY <1>1 DEF HidePrice, Displays
<1>4. choice \in SUBSET Fields /\ {"hidden"} \in SUBSET Fields /\ {o} \in SUBSET Officers
  BY DEF Fields
<1> HIDE DEF hidden, choice
<1>5. next \in Tariffs /\ draft \in Tariffs
  BY <1>1, <1>2 DEF Tariffs
<1>6. \A f \in Fields : next[f] = tariff[f] \/ f \in choice \cup {"hidden"}
  BY <1>1 DEF Fields, Tariffs
<1> HIDE DEF draft, next
<1>7. w \in Displays /\ w.paper = window[o].paper /\ w.at = window[o].at
  BY <1>1, <1>5 DEF Displays
<1> HIDE DEF w
<1> QED BY <1>3, <1>4, <1>5, <1>6, <1>7, PutKeeps

\* The terms are saved.
LEMMA TermsKeeps ==
    ASSUME QuoteInv, NEW o \in Officers, NEW missing \in SUBSET Officers, SaveTerms(o, missing)
    PROVE  QuoteInv'
<1> DEFINE next == [tariff EXCEPT !.terms = window[o].tab]
           choice == window[o].typed \cap {"terms"}
           w == [window[o] EXCEPT !.typed = @ \ {"terms"}]
<1>1. window[o] \in Displays /\ window \in [Officers -> Displays] /\ tariff \in Tariffs
      /\ window[o].tab \in {0, 1}
  BY DEF QuoteInv, QuoteTyped, SaveTerms, Displays
<1>2. window' = [window EXCEPT ![o] = w] /\ PutSettings(next, choice, {"terms"}, {}, missing)
  BY <1>1 DEF SaveTerms
<1>3. choice \in SUBSET Fields /\ {"terms"} \in SUBSET Fields /\ {} \in SUBSET Officers
  BY DEF Fields
<1>4. next \in Tariffs
  BY <1>1 DEF Tariffs
<1>5. \A f \in Fields : next[f] = tariff[f] \/ f \in choice \cup {"terms"}
  BY <1>1 DEF Fields, Tariffs
<1>6. w \in Displays /\ w.paper = window[o].paper /\ w.at = window[o].at
  BY <1>1 DEF Displays
<1> HIDE DEF next, choice, w
<1> QED BY <1>2, <1>3, <1>4, <1>5, <1>6, PutKeeps

\* A paper that is filled in stays one, and its minimum goes with its guests.
LEMMA TypedPapers ==
    ASSUME NEW p \in Papers, p.minimum = Empty => p.guests = Empty, NEW visible \in SUBSET Listed,
           NEW x \in Typed(p, visible)
    PROVE  x \in Papers /\ (x.minimum = Empty => x.guests = Empty)
<1>1. Empty = -1 /\ Empty \in -1..2
  BY DEF Empty
<1>2. CASE \E n \in {Empty, 1, 2} : x = [p EXCEPT !.guests = n, !.minimum = n]
  <2>1. PICK n \in {Empty, 1, 2} : x = [p EXCEPT !.guests = n, !.minimum = n]
    BY <1>2
  <2>2. n \in -1..2
    BY <1>1
  <2>3. x.guests = n /\ x.minimum = n
    BY <2>1 DEF Papers
  <2> QED BY <2>1, <2>2, <2>3 DEF Papers
<1>3. CASE \E n \in {Empty, 4} : x = [p EXCEPT !.portion = n] \/ x = [p EXCEPT !.rental = n]
  BY <1>3 DEF Papers
<1>4. CASE x = [p EXCEPT !.hallOnly = ~@] \/ x = [p EXCEPT !.vatAdded = ~@]
  BY <1>4 DEF Papers
<1>5. CASE x = [p EXCEPT !.percent = 50 - @] \/ x = [p EXCEPT !.amount = 4 - @]
  <2>1. 50 - p.percent \in {0, 50} /\ 4 - p.amount \in {0, 4}
    BY DEF Papers
  <2> QED BY <1>5, <2>1 DEF Papers
<1>6. CASE \E k \in DOMAIN KosherExtra : x = [p EXCEPT !.kosher = k]
  BY <1>6 DEF Papers, KosherExtra
<1>7. CASE \E k \in visible : x = [p EXCEPT !.upgrades = (@ \ {k}) \cup ({k} \ @)]
  <2>1. PICK k \in visible : x = [p EXCEPT !.upgrades = (p.upgrades \ {k}) \cup ({k} \ p.upgrades)]
    BY <1>7
  <2>2. (p.upgrades \ {k}) \cup ({k} \ p.upgrades) \in SUBSET Listed
    BY DEF Papers
  <2> QED BY <2>1, <2>2 DEF Papers
<1> QED BY <1>2, <1>3, <1>4, <1>5, <1>6, <1>7 DEF Typed

\* The form is filled in.
LEMMA FillKeeps == ASSUME QuoteInv, NEW o \in Officers, FillIn(o) PROVE QuoteInv'
<1>1. QuoteTyped /\ window[o] \in Displays /\ priced \in Papers /\ window[o].paper \in Papers
  BY DEF QuoteInv, QuoteTyped, Displays
<1>2. PICK x \in Typed(window[o].paper, Listed \ Shown(o).hidden) :
         /\ window' = [window EXCEPT ![o].paper = x]
         /\ priced' = IF window[o].edited
                      THEN [priced EXCEPT !.upgrades =
                                @ \cup (x.upgrades \ window[o].paper.upgrades)]
                      ELSE priced
  BY DEF FillIn
<1>3. x \in Papers /\ (x.minimum = Empty => x.guests = Empty)
  <2>1. Listed \ Shown(o).hidden \in SUBSET Listed
    OBVIOUS
  <2>2. window[o].paper.minimum = Empty => window[o].paper.guests = Empty
    BY DEF QuoteInv, MinimumFilled
  <2> QED BY <1>1, <1>2, <2>1, <2>2, TypedPapers
<1> DEFINE w == [window[o] EXCEPT !.paper = x]
<1>4. window' = [window EXCEPT ![o] = w] /\ w \in Displays /\ w.paper = x /\ w.at = window[o].at
  <2>1. window' = [window EXCEPT ![o] = w]
    BY <1>1, <1>2 DEF QuoteTyped
  <2>2. w \in Displays /\ w.paper = x /\ w.at = window[o].at
    BY <1>1, <1>3 DEF Displays
  <2> QED BY <2>1, <2>2
<1> HIDE DEF w
<1>5. priced' \in Papers /\ priced'.minimum = priced.minimum
  <2>1. priced.upgrades \cup (x.upgrades \ window[o].paper.upgrades) \in SUBSET Listed
    BY <1>1, <1>3 DEF Papers
  <2> QED BY <1>1, <1>2, <2>1 DEF Papers
<1>6. /\ tariff' = tariff /\ copy' = copy /\ awaited' = awaited /\ chosen' = chosen
      /\ deaf' = deaf /\ overlaid' = overlaid
  BY DEF FillIn
<1>7. quote' \in QuoteMixes
  BY <1>1, QuoteSpent DEF FillIn, Change, QuoteTyped
<1>8. QuoteTyped'
  BY <1>1, <1>3, <1>4, <1>5, <1>6, <1>7, WindowKeeps DEF QuoteTyped
<1>9. CopyFresh'
  <2>1. \A q \in Officers : window'[q].at = window[q].at
    BY <1>3, <1>4, WindowKeeps
  <2> QED BY <1>6, <2>1 DEF QuoteInv, CopyFresh, At
<1>10. SettingKept'
  BY <1>6 DEF QuoteInv, SettingKept
<1>11. MinimumFilled'
  BY <1>3, <1>4, <1>5, WindowKeeps DEF QuoteInv, MinimumFilled
<1> QED BY <1>8, <1>9, <1>10, <1>11 DEF QuoteInv

\* The body of a request.
LEMMA PayloadPaper ==
    ASSUME NEW x \in Papers
    PROVE  /\ Payload(x) \in Papers /\ Payload(x).hallOnly = x.hallOnly
           /\ Payload(x).vatAdded = x.vatAdded /\ Payload(x).percent = x.percent
           /\ Payload(x).amount = x.amount /\ Payload(x).upgrades = x.upgrades
           /\ Payload(x).kosher = x.kosher /\ Payload(x).minimum = x.minimum
           /\ x.hallOnly => Payload(x).rental = x.rental
           /\ ~x.hallOnly => Payload(x).guests = x.guests /\ Payload(x).portion = x.portion
<1>1. 0 \in -1..2
  OBVIOUS
<1>2. CASE x.hallOnly
  <2>1. Payload(x) = [x EXCEPT !.guests = 0, !.portion = 0]
    BY <1>2 DEF Payload
  <2> QED BY <1>1, <1>2, <2>1 DEF Papers
<1>3. CASE ~x.hallOnly
  <2>1. Payload(x) = [x EXCEPT !.rental = Empty]
    BY <1>3 DEF Payload
  <2> QED BY <1>3, <2>1 DEF Papers
<1> QED BY <1>2, <1>3

\* What is stored of a booking.
LEMMA RecordedPaper ==
    ASSUME NEW x \in Papers, NEW edited \in BOOLEAN, priced \in Papers
    PROVE  Recorded(x, edited) \in Papers /\ Recorded(x, edited).minimum # Empty
<1> DEFINE d == Payload(x)
           guests == Num(d.guests)
           portion == Num(d.portion)
           minimum == IF Num(d.minimum) = 0 THEN Num(d.guests) ELSE d.minimum
           rental == IF edited THEN Or(d.rental, priced.rental) ELSE d.rental
<1>1. d \in Papers
  BY PayloadPaper
<1>2. guests \in 0..2 /\ portion \in {0, 4} /\ minimum \in 0..2
  BY <1>1, NumOf DEF Papers, Num, Empty
<1>3. rental \in {Empty, 0, 4}
  BY <1>1 DEF Papers, Or
<1>4. Recorded(x, edited) = [d EXCEPT !.guests = guests, !.portion = portion,
                                 !.minimum = minimum, !.rental = rental,
                                 !.percent = 0, !.amount = 0]
  BY <1>1 DEF Recorded, Papers
<1> HIDE DEF d, guests, portion, minimum, rental
<1>5. guests \in -1..2 /\ portion \in {Empty, 0, 4} /\ minimum \in -1..2 /\ minimum # Empty
  BY <1>2 DEF Empty
<1>6. [d EXCEPT !.guests = guests, !.portion = portion, !.minimum = minimum, !.rental = rental,
                !.percent = 0, !.amount = 0] \in Papers
  BY <1>1, <1>3, <1>5 DEF Papers
<1>7. [d EXCEPT !.guests = guests, !.portion = portion, !.minimum = minimum, !.rental = rental,
                !.percent = 0, !.amount = 0].minimum = minimum
  BY <1>1 DEF Papers
<1> QED BY <1>4, <1>5, <1>6, <1>7

\* The form is sent.
LEMMA SubmitKeeps == ASSUME QuoteInv, NEW o \in Officers, SubmitForm(o) PROVE QuoteInv'
<1>1. QuoteTyped /\ window[o] \in Displays /\ window[o].paper \in Papers /\ window[o].edited \in BOOLEAN
      /\ priced \in Papers
  BY DEF QuoteInv, QuoteTyped, Displays
<1>2. window' = [window EXCEPT ![o] = Closed] /\ priced' = Recorded(window[o].paper, window[o].edited)
      /\ tariff' = tariff /\ copy' = copy /\ awaited' = awaited \ {o} /\ chosen' = chosen
      /\ deaf' = deaf /\ overlaid' = overlaid
  BY DEF SubmitForm
<1>3. priced' \in Papers /\ priced'.minimum # Empty
  BY <1>1, <1>2, RecordedPaper
<1>4. quote' \in QuoteMixes
  BY <1>1, QuoteSpent DEF SubmitForm, QuoteTyped
<1>5. Closed \in Displays /\ Closed.at = "away" /\ (Closed.paper.minimum = Empty => Closed.paper.guests = Empty)
  BY DisplayClosed, PapersNew
<1>6. /\ window' \in [Officers -> Displays] /\ window'[o] = Closed
      /\ \A q \in Officers : q # o => window'[q] = window[q]
      /\ \A q \in Officers : window'[q].paper.minimum = Empty => window'[q].paper.guests = Empty
  BY <1>2, <1>5, WindowKeeps
<1>7. QuoteTyped'
  BY <1>1, <1>2, <1>3, <1>4, <1>6 DEF QuoteTyped
<1>8. CopyFresh'
  BY <1>2, <1>5, <1>6 DEF QuoteInv, CopyFresh, At
<1>9. SettingKept'
  BY <1>2 DEF QuoteInv, SettingKept
<1>10. MinimumFilled'
  BY <1>3, <1>6 DEF MinimumFilled
<1> QED BY <1>7, <1>8, <1>9, <1>10 DEF QuoteInv

\* Every step of the settings and the forms keeps their invariant.
LEMMA QuoteStep == QuoteInv /\ [QuoteNext]_quoteVars => QuoteInv'
<1> SUFFICES ASSUME QuoteInv, [QuoteNext]_quoteVars PROVE QuoteInv'
  OBVIOUS
<1>1. CASE UNCHANGED quoteVars
  BY <1>1 DEF quoteVars, QuoteInv, QuoteTyped, CopyFresh, SettingKept, MinimumFilled, At
<1>2. CASE QuoteNext
  BY <1>2, OpenKeeps, RefetchKeeps, TypeKeeps, SaveKeeps, HideKeeps, TermsKeeps, FillKeeps,
     SubmitKeeps DEF QuoteNext
<1> QED BY <1>1, <1>2

\* A setting keeps the value chosen last, whichever pages save their drafts meanwhile, but
\* for the excuses that SettingKept names.
THEOREM QuotationSettingKept == QuoteSpec => []SettingKept
<1>1. QuoteInv => SettingKept
  BY DEF QuoteInv
<1> QED BY QuoteStarts, QuoteStep, <1>1, PTL DEF QuoteSpec

\* The server's total for a form is the form's own, for every paper that may be sent and
\* every price list.
THEOREM QuotationQuoteAccepted == QuoteSpec => []QuoteAccepted
<1>1. QuoteInv => QuoteAccepted
  <2> SUFFICES ASSUME QuoteInv, NEW o \in Officers, At(o, "form"), copy[o] = tariff,
                      Fillable(window[o].paper, window[o].edited),
                      window[o].edited => /\ window[o].paper.percent = 0
                                          /\ window[o].paper.amount = 0
                                          /\ \/ window[o].paper.hallOnly
                                             \/ window[o].paper.portion # Empty
               PROVE  calculateTotals(window[o].paper, tariff)
                        = ServerTotal(Priceable(window[o].paper, window[o].edited), tariff)
    BY DEF QuoteAccepted
  <2> DEFINE x == window[o].paper
             edited == window[o].edited
             p == Payload(x)
             d == Priceable(x, edited)
  <2>1. x \in Papers /\ tariff \in Tariffs /\ priced \in Papers /\ edited \in BOOLEAN
    BY DEF QuoteInv, QuoteTyped, Displays
  <2>2. x.minimum = Empty => x.guests = Empty
    BY DEF QuoteInv, MinimumFilled
  <2>3. /\ p \in Papers /\ p.hallOnly = x.hallOnly /\ p.vatAdded = x.vatAdded
        /\ p.percent = x.percent /\ p.amount = x.amount /\ p.upgrades = x.upgrades
        /\ p.kosher = x.kosher /\ p.minimum = x.minimum
        /\ x.hallOnly => p.rental = x.rental
        /\ ~x.hallOnly => p.guests = x.guests /\ p.portion = x.portion
    BY <2>1, PayloadPaper
  <2> HIDE DEF x, p
  <2>4. CASE ~edited
    <3>1. d = p
      BY <2>4 DEF Priceable, p
    <3> HIDE DEF d, edited
    <3>2. calculateTotals(x, tariff) = ServerTotal(d, tariff)
      BY <2>1, <2>3, <3>1, TotalsAgree
    <3> QED BY <3>2 DEF x, d, edited
  <2>5. CASE edited
    <3> DEFINE guests == Or(p.guests, priced.guests)
               minimum == Or(p.minimum, priced.minimum)
               portion == Or(p.portion, priced.portion)
               rental == Or(p.rental, priced.rental)
    <3>1. guests \in -1..2 /\ minimum \in -1..2 /\ portion \in {Empty, 0, 4} /\ rental \in {Empty, 0, 4}
      BY <2>1, <2>3 DEF Papers, Or
    <3>2. d = [p EXCEPT !.guests = guests, !.minimum = minimum, !.portion = portion,
                   !.rental = rental, !.percent = 0, !.amount = 0]
      BY <2>1, <2>3, <2>5 DEF Priceable, Papers, p
    <3>3. x.percent = 0 /\ x.amount = 0 /\ (x.hallOnly \/ x.portion # Empty)
      BY <2>5 DEF x
    <3>4. IF x.hallOnly THEN Num(x.rental) > 0 ELSE Num(x.guests) > 0
      BY <2>5 DEF Fillable, x
    <3>5. x.hallOnly => rental = x.rental
      BY <2>3, <3>4 DEF Or, Num, Empty
    <3>6. ~x.hallOnly => guests = x.guests /\ minimum = x.minimum /\ portion = x.portion
      BY <2>2, <2>3, <3>3, <3>4 DEF Or, Num, Empty
    <3> HIDE DEF d, guests, minimum, portion, rental, edited
    <3>7. /\ d \in Papers /\ d.hallOnly = p.hallOnly /\ d.vatAdded = p.vatAdded /\ d.percent = 0
          /\ d.amount = 0 /\ d.upgrades = p.upgrades /\ d.kosher = p.kosher
          /\ d.guests = guests /\ d.minimum = minimum /\ d.portion = portion /\ d.rental = rental
      BY <2>3, <3>1, <3>2 DEF Papers
    <3>8. calculateTotals(x, tariff) = ServerTotal(d, tariff)
      BY <2>1, <2>3, <3>3, <3>5, <3>6, <3>7, TotalsAgree
    <3> QED BY <3>8 DEF x, d, edited
  <2> QED BY <2>4, <2>5
<1> QED BY QuoteStarts, QuoteStep, <1>1, PTL DEF QuoteSpec

(***************************************************************************)
(* Types.                                                                  *)
(***************************************************************************)

\* Rows, files and requests of the gallery are of their types.
THEOREM GalleryTypes == GallerySpec => []GalleryTypeOK
<1>1. GalleryInv => GalleryTypeOK
  BY DEF GalleryInv
<1> QED BY GalleryInitial, GalleryStep, <1>1, PTL DEF GallerySpec

\* The contract, the forms with its window and the requests are of their types.
THEOREM SigningTypes == SigningSpec => []SigningTypeOK
<1>1. ContractInv => SigningTypeOK
  <2> SUFFICES ASSUME ContractTyped PROVE SigningTypeOK
    BY DEF ContractInv
  <2>1. Sheets \subseteq [mode : Modes, option : BOOLEAN, type : Types, signed : BOOLEAN,
                          marks : SUBSET Marks, loaded : SUBSET Marks]
    BY NoSheetTyped DEF Sheets, SheetRecords, NoSheet, Modes, Types
  <2> QED BY <2>1 DEF ContractTyped, SigningTypeOK, SigningMixes, Errands
<1> QED BY ContractStarts, ContractStep, <1>1, PTL DEF SigningSpec

\* The conversations, the listings and the replies are of their types, and what is
\* counted as unread is a message of the conversation.
THEOREM InboxTypes == InboxSpec => []InboxTypeOK
<1>1. InboxInv => InboxTypeOK
  <2> SUFFICES ASSUME InboxInv PROVE InboxTypeOK
    OBVIOUS
  <2>1. \A t \in Threads : tallied[t] \subseteq DOMAIN log[t]
    BY DEF InboxInv, InboxTyped, TalliedInbound
  <2> QED BY <2>1 DEF InboxInv, InboxTyped, InboxTypeOK, InboxMixes, Listings, Replies
<1> QED BY InboxStarts, InboxStep, <1>1, PTL DEF InboxSpec

\* The settings row, the copies in the browsers and what is typed there are of their
\* types.
THEOREM QuoteTypes == QuoteSpec => []QuoteTypeOK
<1>1. QuoteInv => QuoteTypeOK
  BY TariffFields DEF QuoteInv, QuoteTyped, QuoteTypeOK, QuoteMixes
<1> QED BY QuoteStarts, QuoteStep, <1>1, PTL DEF QuoteSpec
=============================================================================
