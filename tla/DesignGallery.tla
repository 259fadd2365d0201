---------------------------- MODULE DesignGallery ----------------------------
(***************************************************************************)
(* The gallery of designs (designGallery.controller, s3Storage,             *)
(* galleryLocalStorage, DesignGalleryAdmin.tsx): rows in the database, and   *)
(* the two files of each, the picture and its thumbnail, in a store that no  *)
(* transaction covers.  Names, categories and the flag that hides a design   *)
(* are left out.                                                            *)
(***************************************************************************)
EXTENDS Naturals

CONSTANTS
    Curators,   \* people at the gallery, each with one request at a time
    Designs,    \* ids of rows; an id is not used again
    NoDesign,   \* a request that is about no design
    Galleries   \* the traffic mixes: how many requests and how many faults

ASSUME GalleryAssumption == Galleries \subseteq [requests : Nat, faults : Nat]

VARIABLES
    gallery,   \* bounds of this behaviour
    design,    \* the DesignGalleryItem rows
    shelf,     \* the files in the store
    shots,     \* files named so far; a uuid never comes back
    curating,  \* the request of each person
    litter,    \* history: files left by a request that failed, stopped or crossed another
    torn       \* history: rows left without files by a request that failed or stopped

galleryVars == <<gallery, design, shelf, shots, curating, litter, torn>>

NoFile == 0
NoRow == [state |-> "never", image |-> NoFile, thumb |-> NoFile]
AtRest == [op |-> "none", at |-> "thumb", item |-> NoDesign,
               image |-> NoFile, thumb |-> NoFile, read |-> {}, old |-> {}]

GalleryInit ==
    /\ gallery \in Galleries
    /\ design = [d \in Designs |-> NoRow]
    /\ shelf = {} /\ shots = 0
    /\ curating = [c \in Curators |-> AtRest]
    /\ litter = {} /\ torn = {}

There(d) == design[d].state = "there"

FilesOf(row) == {row.image, row.thumb} \ {NoFile}

Works(c, stage) == curating[c].op # "none" /\ curating[c].at = stage
Fault == gallery.faults > 0 /\ gallery' = [gallery EXCEPT !.faults = @ - 1]
Step(c, stage) == curating' = [curating EXCEPT ![c].at = stage]
Ends(c) == curating' = [curating EXCEPT ![c] = AtRest]

(***************************************************************************)
(* Requests.  An update without a new picture touches no file.             *)
(***************************************************************************)

Ask(c, op, d, stage, old) ==
    /\ curating[c].op = "none" /\ gallery.requests > 0
    /\ gallery' = [gallery EXCEPT !.requests = @ - 1]
    /\ curating' = [curating EXCEPT ![c] = [AtRest EXCEPT !.op = op, !.item = d,
                                                !.at = stage, !.old = old,
                                                !.read = FilesOf(design[d])]]
    /\ UNCHANGED <<design, shelf, shots, litter, torn>>

CreateDesign(c, d) ==
    /\ design[d] = NoRow /\ \A k \in Curators : curating[k].op = "create" => curating[k].item # d
    /\ Ask(c, "create", d, "thumb", {})

\* Mutant: the old thumbnail is forgotten.
ReplacePicture(c, d) == There(d) /\ Ask(c, "update", d, "thumb", {design[d].image})

UpdateDesign(c, d) == There(d) /\ Ask(c, "update", d, "thumb", FilesOf(design[d]))

RemoveDesign(c, d) == There(d) /\ Ask(c, "remove", d, "row", FilesOf(design[d]))

\* What a request that ends here leaves behind: files it has stored and no row names,
\* files it was to delete, and a row whose files it has deleted.
BreakOff(c) ==
    LET k == curating[c] IN
    /\ Ends(c)
    /\ litter' = litter \cup ((FilesOf(k) \cup (IF k.op = "remove" /\ k.at = "discard"
                                              THEN k.old ELSE {})) \cap shelf)
    /\ torn' = IF k.op = "update" /\ k.at = "row" THEN torn \cup {k.item} ELSE torn

\* persistImagePair: the thumbnail may fail, the picture may not.
StoreThumb(c) ==
    /\ Works(c, "thumb")
    /\ shots' = shots + 1 /\ shelf' = shelf \cup {shots + 1}
    /\ curating' = [curating EXCEPT ![c].thumb = shots + 1, ![c].at = "image"]
    /\ UNCHANGED <<gallery, design, litter, torn>>

ThumbFails(c) ==
    /\ Works(c, "thumb") /\ Fault /\ Step(c, "image")
    /\ UNCHANGED <<design, shelf, shots, litter, torn>>

StoreImage(c) ==
    /\ Works(c, "image")
    /\ shots' = shots + 1 /\ shelf' = shelf \cup {shots + 1}
    /\ curating' = [curating EXCEPT ![c].image = shots + 1,
                        ![c].at = IF curating[c].op = "update" THEN "discard" ELSE "row"]
    /\ UNCHANGED <<gallery, design, litter, torn>>

ImageFails(c) ==
    /\ Works(c, "image") /\ Fault /\ BreakOff(c)
    /\ UNCHANGED <<design, shelf, shots>>

\* removeStoredImage of both files: S3 may refuse some of them.
Discard(c) ==
    /\ Works(c, "discard")
    /\ shelf' = shelf \ curating[c].old
    /\ IF curating[c].op = "update" THEN Step(c, "row") ELSE Ends(c)
    /\ UNCHANGED <<gallery, design, shots, litter, torn>>

DiscardFails(c) ==
    /\ Works(c, "discard") /\ Fault
    /\ \E kept \in (SUBSET curating[c].old) \ {{}} :
        /\ shelf' = shelf \ (curating[c].old \ kept)
        /\ litter' = (litter \cup kept \cup FilesOf(curating[c])) \cap shelf'
    /\ torn' = IF curating[c].op = "update" THEN torn \cup {curating[c].item} ELSE torn
    /\ Ends(c)
    /\ UNCHANGED <<design, shots>>

\* The statement on the row: if another request has changed it since it was read, the
\* files it names now are left over.
WriteRow(c) ==
    LET k == curating[c]
        row == design[k.item]
    IN  /\ Works(c, "row")
        /\ k.op = "create" \/ There(k.item)
        /\ design' = [design EXCEPT ![k.item] =
               IF k.op = "remove" THEN [NoRow EXCEPT !.state = "gone"]
               ELSE [state |-> "there", image |-> k.image, thumb |-> k.thumb]]
        /\ litter' = IF FilesOf(row) = k.read THEN litter
                     ELSE litter \cup ((FilesOf(row) \ k.old) \cap shelf)
        /\ torn' = torn \ {k.item}
        /\ IF k.op = "remove" THEN Step(c, "discard") ELSE Ends(c)
        /\ UNCHANGED <<gallery, shelf, shots>>

\* There is no such row any more, or the database does not answer.
RowFails(c) ==
    /\ Works(c, "row")
    /\ IF curating[c].op # "create" /\ ~There(curating[c].item) THEN UNCHANGED gallery ELSE Fault
    /\ BreakOff(c)
    /\ UNCHANGED <<design, shelf, shots>>

RequestStops(c) ==
    /\ curating[c].op # "none" /\ Fault /\ BreakOff(c)
    /\ UNCHANGED <<design, shelf, shots>>

GalleryNext ==
    \E c \in Curators :
        \/ \E d \in Designs : CreateDesign(c, d) \/ UpdateDesign(c, d) \/ RemoveDesign(c, d)
        \/ StoreThumb(c) \/ ThumbFails(c) \/ StoreImage(c) \/ ImageFails(c)
        \/ Discard(c) \/ DiscardFails(c) \/ WriteRow(c) \/ RowFails(c) \/ RequestStops(c)

GallerySpec == GalleryInit /\ [][GalleryNext]_galleryVars

FileIds == 0..shots
GalleryTypeOK ==
    /\ gallery \in [requests : Nat, faults : Nat] /\ shots \in Nat
    /\ design \in [Designs -> [state : {"never", "there", "gone"}, image : FileIds, thumb : FileIds]]
    /\ shelf \subseteq FileIds /\ litter \subseteq FileIds /\ torn \subseteq Designs
    /\ curating \in [Curators -> [op : {"none", "create", "update", "remove"},
                                  at : {"thumb", "image", "discard", "row"}, item : Designs \cup {NoDesign},
                                  image : FileIds, thumb : FileIds, read : SUBSET FileIds,
                                  old : SUBSET FileIds]]

\* Every design has a picture and its files are in the store, but while an update replaces
\* them or after one that broke off there; and every file in the store belongs to a design
\* or to a request at work, but for those of requests that broke off or crossed.
FilesMatchRows ==
    /\ \A d \in Designs : There(d) =>
        /\ design[d].image # NoFile
        /\ \/ FilesOf(design[d]) \subseteq shelf
           \/ d \in torn
           \/ \E c \in Curators :
                curating[c].op = "update" /\ curating[c].item = d /\ curating[c].at = "row"
    /\ shelf \subseteq litter \cup (UNION {FilesOf(design[d]) : d \in Designs})
                 \cup (UNION {FilesOf(curating[c]) \cup curating[c].old : c \in Curators})
=============================================================================
