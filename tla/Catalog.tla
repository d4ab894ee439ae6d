------------------------------ MODULE Catalog -------------------------------
(***************************************************************************)
(* Workspaces with their amenities and hubs, and the profile picture a     *)
(* user keeps at the image host.  Every update reads a row, works, and     *)
(* saves its copy: a save writes every column of the copy that differs     *)
(* from the row of that moment.                                            *)
(***************************************************************************)
EXTENDS Naturals, FiniteSets

CONSTANTS
  Workspace,  \* ids of workspaces
  Amenity,    \* ids of amenities
  Name,       \* names of amenities
  Slug,       \* slugs of hubs
  Request,    \* requests under way at once
  MaxAsset,   \* bound: pictures ever uploaded
  None        \* no name, no slug, no asset

CatalogAssumption == MaxAsset \in Nat

VARIABLES
  workspaces,  \* id -> its row, with the amenities of the join table
  amenities,   \* id -> [name, deleted]
  hubs,        \* the slugs in use
  request,     \* per request: what it does and the copy it works on
  picture,     \* profilePicturePublicId of the user
  assets,      \* pictures at the image host
  uploads      \* pictures uploaded so far

tableVars == <<workspaces, amenities, hubs>>
pictureVars == <<picture, assets, uploads>>
vars == <<tableVars, request, pictureVars>>

NoWorkspace == [state |-> "absent", amenities |-> {}]
NoAmenity == [name |-> None, deleted |-> FALSE]
Idle == [op |-> "none", on |-> None, old |-> 0, new |-> 0]

Init ==
  /\ workspaces = [w \in Workspace |-> NoWorkspace]
  /\ amenities = [a \in Amenity |-> NoAmenity]
  /\ hubs = {}
  /\ request = [r \in Request |-> Idle]
  /\ picture = 0
  /\ assets = {}
  /\ uploads = 0

Go(r, state) == request' = [request EXCEPT ![r] = state]

-----------------------------------------------------------------------------
(* Amenities *)

Named(name) == {a \in Amenity : amenities[a].name = name}
Live == {a \in Amenity : amenities[a].name /= None /\ ~amenities[a].deleted}

(* findByIds() leaves out what was removed *)
FindByIds(ids) == ids \intersect Live

(* create(): the column name is unique, and a removed row keeps its name *)
CreateAmenity(a, name) ==
  /\ amenities[a] = NoAmenity /\ Named(name) = {}
  /\ amenities' = [amenities EXCEPT ![a] = [name |-> name, deleted |-> FALSE]]
  /\ UNCHANGED <<workspaces, hubs, request, pictureVars>>

(* remove(): a soft delete; the rows of the join table stay *)
RemoveAmenity(a) ==
  /\ a \in Live
  /\ amenities' = [amenities EXCEPT ![a].deleted = TRUE]
  /\ UNCHANGED <<workspaces, hubs, request, pictureVars>>

-----------------------------------------------------------------------------
(* Workspaces *)

FindById(w) == workspaces[w].state = "live"

CreateWorkspace(w, ids) ==
  /\ workspaces[w] = NoWorkspace
  /\ workspaces' = [workspaces EXCEPT ![w] = [state |-> "live", amenities |-> FindByIds(ids)]]
  /\ UNCHANGED <<amenities, hubs, request, pictureVars>>

(* update(): the row is read *)
LoadWorkspace(r, w) ==
  /\ request[r] = Idle /\ FindById(w)
  /\ Go(r, [Idle EXCEPT !.op = "update", !.on = w])
  /\ UNCHANGED <<tableVars, pictureVars>>

(* and saved with its changes: the copy has no deletedAt, so the save of a *)
(* workspace deleted in between brings it back; the amenities are written  *)
(* only when the request names some.                                       *)
UpdateWorkspace(r, ids) ==
  /\ request[r].op = "update"
  /\ LET w == request[r].on IN
     workspaces' = [workspaces EXCEPT ![w] =
       [state |-> "live",
        amenities |-> IF ids = {} THEN @.amenities ELSE FindByIds(ids)]]
  /\ Go(r, Idle)
  /\ UNCHANGED <<amenities, hubs, pictureVars>>

SoftDelete(w) ==
  /\ FindById(w)
  /\ workspaces' = [workspaces EXCEPT ![w].state = "deleted"]
  /\ UNCHANGED <<amenities, hubs, request, pictureVars>>

(* findAll(): what a workspace is shown with, and the two ways to filter.  *)
(* "any" looks at the amenities joined to the row, "all" at the rows of    *)
(* the join table, removed amenities included.                             *)
JoinedAmenities(w) == workspaces[w].amenities \intersect Live

MatchesAny(w, names) == \E a \in JoinedAmenities(w) : amenities[a].name \in names
MatchesAll(w, names) == \A name \in names : \E a \in workspaces[w].amenities : amenities[a].name = name

FindAll(names, match) ==
  {w \in Workspace : /\ FindById(w)
                     /\ names = {} \/ IF match = "any" THEN MatchesAny(w, names) ELSE MatchesAll(w, names)}

-----------------------------------------------------------------------------
(* Hubs *)

(* create(): the slug is looked up, and inserted later *)
StartHub(r, slug) ==
  /\ request[r] = Idle /\ slug \notin hubs
  /\ Go(r, [Idle EXCEPT !.op = "hub", !.on = slug])
  /\ UNCHANGED <<tableVars, pictureVars>>

(* A slug taken since is refused by the unique column *)
InsertHub(r) ==
  /\ request[r].op = "hub"
  /\ hubs' = hubs \union {request[r].on}
  /\ Go(r, Idle)
  /\ UNCHANGED <<workspaces, amenities, pictureVars>>

-----------------------------------------------------------------------------
(* The profile picture *)

(* uploadProfilePicture(): the new picture is uploaded, the row read *)
UploadPicture(r) ==
  /\ request[r] = Idle /\ uploads < MaxAsset
  /\ uploads' = uploads + 1
  /\ assets' = assets \union {uploads + 1}
  /\ Go(r, [Idle EXCEPT !.op = "uploaded", !.old = picture, !.new = uploads + 1])
  /\ UNCHANGED <<tableVars, picture>>

(* deleteAsset(): the old picture goes; an error other than "not found"    *)
(* ends the request.                                                       *)
DeleteAsset(r, fails) ==
  /\ request[r].op = "uploaded"
  /\ assets' = IF fails THEN assets ELSE assets \ {request[r].old}
  /\ Go(r, IF fails /\ request[r].old /= 0 THEN Idle ELSE [request[r] EXCEPT !.op = "replace"])
  /\ UNCHANGED <<tableVars, picture, uploads>>

(* The row of the user takes the new picture *)

SavePicture(r, fails) ==
  /\ request[r].op = "replace"
  /\ picture' = IF fails THEN picture ELSE request[r].new
  /\ Go(r, Idle)
  /\ UNCHANGED <<tableVars, assets, uploads>>

(* Any other update of the user works on a copy that holds the picture *)
LoadProfile(r) ==
  /\ request[r] = Idle
  /\ Go(r, [Idle EXCEPT !.op = "profile", !.old = picture])
  /\ UNCHANGED <<tableVars, pictureVars>>

SaveProfile(r) ==
  /\ request[r].op = "profile"
  /\ picture' = request[r].old
  /\ Go(r, Idle)
  /\ UNCHANGED <<tableVars, assets, uploads>>

Next ==
  \/ \E a \in Amenity : (\E name \in Name : CreateAmenity(a, name)) \/ RemoveAmenity(a)
  \/ \E w \in Workspace : (\E ids \in SUBSET Amenity : CreateWorkspace(w, ids)) \/ SoftDelete(w)
  \/ \E r \in Request :
       \/ \E w \in Workspace : LoadWorkspace(r, w)
       \/ \E ids \in SUBSET Amenity : UpdateWorkspace(r, ids)
       \/ \E slug \in Slug : StartHub(r, slug)
       \/ InsertHub(r)
       \/ UploadPicture(r)
       \/ \E fails \in BOOLEAN : DeleteAsset(r, fails) \/ SavePicture(r, fails)
       \/ LoadProfile(r)
       \/ SaveProfile(r)

Spec == Init /\ [][Next]_vars

-----------------------------------------------------------------------------
(* Type correctness of the tables and of the pictures *)
TypeOK ==
  /\ \A w \in Workspace : workspaces[w].state \in {"absent", "live", "deleted"} /\ workspaces[w].amenities \subseteq Amenity
  /\ \A a \in Amenity : amenities[a].name \in Name \union {None}
  /\ hubs \subseteq Slug
  /\ picture \in 0..MaxAsset /\ assets \subseteq 1..MaxAsset

(* However uploads and other updates of the user overlap, none deletes the *)
(* picture another one has uploaded and not stored yet.                    *)
UploadSurvives ==
  \A r \in Request : request[r].op \in {"uploaded", "replace"} => request[r].new \in assets

(* upload-profile-picture.provider.ts:16 "Deletes the old profile picture  *)
(* from Cloudinary before storing the new one": once no request works on   *)
(* it, the picture the row shows exists at the image host.  A save that    *)
(* fails after the deletion, or writes an older picture back, loses it.    *)
PictureExists == (\A r \in Request : request[r] = Idle) /\ picture /= 0 => picture \in assets

(* A workspace "must have ALL of these amenities": one that the filter     *)
(* "all" returns for a name, the filter "any" returns too.                 *)
AllWithinAny == \A name \in Name : FindAll({name}, "all") \subseteq FindAll({name}, "any")

(* A deleted workspace stays deleted *)
DeletedStays ==
  [][\A w \in Workspace : workspaces[w].state = "deleted" => workspaces'[w].state = "deleted"]_vars
=============================================================================
