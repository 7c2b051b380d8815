------------------------------- MODULE Images -------------------------------
(***************************************************************************)
(* Locating debug symbols (symsynd/images.py): find_debug_images() looks   *)
(* for files named by a UUID in every search path, then opens the files of *)
(* the paths that are dSYM bundles in whatever order the directory lists   *)
(* them.                                                                   *)
(* The file system does not change while find_debug_images() runs.         *)
(***************************************************************************)
EXTENDS Naturals, FiniteSets, FiniteSetsExt

CONSTANTS
  Uuid,         \* lower case UUIDs of images
  OtherName,    \* file names that are not UUIDs
  PathCount,    \* length of dsym_paths
  NoFile,       \* not found
  Unreadable    \* content of a file DebugInfo.open_path() rejects

Name == Uuid \cup OtherName
SearchPath == 1..PathCount

ASSUME ImagesAssumption ==
  /\ PathCount \in Nat
  /\ \A variants \in SUBSET Uuid : variants # Unreadable
  /\ NoFile \notin SearchPath \X {"named", "bundle"} \X Name

VARIABLES
  binary,    \* the binary images: UUID -> whether its cpu name is known
  named,     \* the (path, UUID) for which such a file exists
  content,   \* the DWARF files of each bundle: path -> file name -> variants
  phase,     \* "fast", "slow", "resolve" or "done"
  wanted,    \* images_to_load
  images,    \* UUID -> file
  todo,      \* UUIDs the first pass, or names the second one, has not seen
  current,   \* the search path the second pass is in
  rv         \* the result: UUIDs whose image address got a file

disk == <<binary, named, content>>
vars == <<disk, phase, wanted, images, todo, current, rv>>

Known == {u \in DOMAIN binary : binary[u]}
Loaded == {u \in Uuid : images[u] # NoFile}
Listing(p) == IF p \in DOMAIN content THEN DOMAIN content[p] ELSE {}

Start ==
  /\ wanted = Known
  /\ todo = wanted
  /\ images = [u \in Uuid |-> NoFile]
  /\ phase = "fast" /\ current = 1 /\ rv = {}

(* Any images and any files; see the instance for a bound.                 *)
Variants == SUBSET Uuid \cup {Unreadable}
Bundle == UNION {[files -> Variants] : files \in SUBSET Name}
Init ==
  /\ binary \in UNION {[known -> BOOLEAN] : known \in SUBSET Uuid}
  /\ named \in SUBSET (SearchPath \X Uuid)
  /\ content \in UNION {[bundles -> Bundle] : bundles \in SUBSET SearchPath}
  /\ Start

(* Mutant: the last search path wins.                                      *)
LastFastPath(u) ==
  /\ phase = "fast" /\ u \in todo
  /\ todo' = todo \ {u}
  /\ LET hits == {p \in SearchPath : <<p, u>> \in named}
     IN IF hits = {} THEN UNCHANGED <<images, wanted>>
        ELSE /\ images' = [images EXCEPT ![u] = <<Max(hits), "named", u>>]
             /\ wanted' = wanted \ {u}
  /\ UNCHANGED <<disk, phase, current, rv>>

FastPath(u) ==
  /\ phase = "fast" /\ u \in todo
  /\ todo' = todo \ {u}
  /\ LET hits == {p \in SearchPath : <<p, u>> \in named}
     IN IF hits = {} THEN UNCHANGED <<images, wanted>>
        ELSE /\ images' = [images EXCEPT ![u] = <<Min(hits), "named", u>>]
             /\ wanted' = wanted \ {u}
  /\ UNCHANGED <<disk, phase, current, rv>>

FastDone ==
  /\ phase = "fast" /\ todo = {}
  /\ IF wanted = {} THEN phase' = "resolve" /\ UNCHANGED todo
     ELSE phase' = "slow" /\ todo' = Listing(1)
  /\ UNCHANGED <<disk, wanted, images, current, rv>>

(* Mutant: variants that are not wanted any more are taken again.          *)
GreedySlowFile(fn) ==
  /\ phase = "slow" /\ fn \in todo
  /\ todo' = todo \ {fn}
  /\ IF fn \in Loaded \/ content[current][fn] = Unreadable
     THEN UNCHANGED <<images, wanted>>
     ELSE /\ images' = [u \in Uuid |-> IF u \in content[current][fn]
                                       THEN <<current, "bundle", fn>> ELSE images[u]]
          /\ wanted' = wanted \ content[current][fn]
  /\ UNCHANGED <<disk, phase, current, rv>>

(* Mutant: a file found by its name ends the search in the bundle.         *)
BreakingSlowFile(fn) ==
  /\ phase = "slow" /\ fn \in todo
  /\ IF fn \in Loaded THEN todo' = {} ELSE todo' = todo \ {fn}
  /\ IF fn \in Loaded \/ content[current][fn] = Unreadable
     THEN UNCHANGED <<images, wanted>>
     ELSE LET hits == content[current][fn] \cap wanted
          IN /\ images' = [u \in Uuid |-> IF u \in hits THEN <<current, "bundle", fn>>
                                          ELSE images[u]]
             /\ wanted' = wanted \ hits
  /\ UNCHANGED <<disk, phase, current, rv>>

(* One file of the bundle: skipped if it is named like a UUID found        *)
(* already, or if it is no debug file.                                     *)
SlowFile(fn) ==
  /\ phase = "slow" /\ fn \in todo
  /\ todo' = todo \ {fn}
  /\ IF fn \in Loaded \/ content[current][fn] = Unreadable
     THEN UNCHANGED <<images, wanted>>
     ELSE LET hits == content[current][fn] \cap wanted
          IN /\ images' = [u \in Uuid |-> IF u \in hits THEN <<current, "bundle", fn>>
                                          ELSE images[u]]
             /\ wanted' = wanted \ hits
  /\ UNCHANGED <<disk, phase, current, rv>>

SlowNext ==
  /\ phase = "slow" /\ todo = {}
  /\ IF current >= PathCount THEN phase' = "resolve" /\ UNCHANGED <<current, todo>>
     ELSE current' = current + 1 /\ todo' = Listing(current + 1) /\ UNCHANGED phase
  /\ UNCHANGED <<disk, wanted, images, rv>>

(* Mutant: images of unknown cpu are resolved too.                         *)
CarelessResolve ==
  /\ phase = "resolve"
  /\ rv' = DOMAIN binary
  /\ phase' = "done"
  /\ UNCHANGED <<disk, wanted, images, todo, current>>

Resolve ==
  /\ phase = "resolve"
  /\ rv' = Known \cap Loaded
  /\ phase' = "done"
  /\ UNCHANGED <<disk, wanted, images, todo, current>>

Next ==
  \/ \E u \in Uuid : FastPath(u)
  \/ \E fn \in Name : SlowFile(fn)
  \/ FastDone \/ SlowNext \/ Resolve

Spec == Init /\ [][Next]_vars

-----------------------------------------------------------------------------
Holds(p, fn, u) == content[p][fn] # Unreadable /\ u \in content[p][fn]

(* Every file handed to the symbolizer is one for that very image: named   *)
(* by its UUID, or with that UUID among its variants; and no image of      *)
(* unknown cpu gets one.                                                   *)
Sound ==
  /\ \A u \in Loaded : images[u][2] = "named" => <<images[u][1], u>> \in named
  /\ \A u \in Loaded : images[u][2] = "bundle" => Holds(images[u][1], images[u][3], u)
  /\ \A u \in rv : images[u] # NoFile /\ binary[u]

(* A file named by the UUID is preferred to any bundle, the first search   *)
(* path to the later ones.                                                 *)
Preference ==
  \A u \in Loaded, p \in SearchPath :
    phase # "fast" /\ <<p, u>> \in named => images[u][2] = "named" /\ images[u][1] <= p

(* Among bundles the first one that has the image serves it, whatever the  *)
(* later ones contain, except for a file skipped because of its name.      *)
FirstBundle ==
  \A u \in Loaded, p \in DOMAIN content :
    images[u][2] = "bundle" /\ p < images[u][1] =>
      \A fn \in Listing(p) : Holds(p, fn, u) => fn \in Loaded

(* An image of known cpu that exists on disk is only missed when every     *)
(* file of a bundle that has it is named by the UUID of another one.       *)
MissedOnlyBySkipping ==
  phase = "done" =>
    \A u \in DOMAIN binary : binary[u] /\ u \notin rv =>
      /\ \A p \in SearchPath : <<p, u>> \notin named
      /\ \A p \in DOMAIN content : \A fn \in Listing(p) :
           Holds(p, fn, u) => fn \in Loaded

-----------------------------------------------------------------------------
(* Why: the inductive invariant.                                           *)

File == SearchPath \X {"named", "bundle"} \X Name
ImagesTypeOK ==
  /\ DOMAIN binary \subseteq Uuid /\ DOMAIN content \subseteq SearchPath
  /\ phase \in {"fast", "slow", "resolve", "done"}
  /\ images \in [Uuid -> File \cup {NoFile}]
  /\ current \in Nat \ {0}
  /\ phase = "fast" => current = 1
  /\ phase = "slow" => todo \subseteq Listing(current)

(* What is still to be found is what is known and was not found.           *)
WantedInv == wanted = Known \ Loaded /\ Loaded \subseteq Known

(* After its turn in the first pass an image is only wanted if no file has *)
(* its name.                                                               *)
NameInv ==
  /\ phase = "fast" => todo \subseteq wanted
  /\ \A u \in wanted, p \in SearchPath :
       <<p, u>> \in named => phase = "fast" /\ u \in todo
  /\ \A u \in Loaded, p \in SearchPath :
       <<p, u>> \in named => images[u][2] = "named" /\ images[u][1] <= p

(* What the second pass has been through without finding an image.         *)
Passed(p, fn) ==
  CASE phase = "fast" -> FALSE
    [] phase = "slow" -> p < current \/ (p = current /\ fn \notin todo)
    [] OTHER -> TRUE
ScanInv ==
  /\ \A u \in wanted, p \in DOMAIN content : \A fn \in Listing(p) :
       Passed(p, fn) /\ Holds(p, fn, u) => fn \in Loaded
  /\ FirstBundle

ResultInv == rv = IF phase = "done" THEN Known \cap Loaded ELSE {}

ImagesInv == ImagesTypeOK /\ WantedInv /\ NameInv /\ ScanInv /\ ResultInv /\ Sound

=============================================================================
