------------------------------ MODULE ImagesProofs -----------------------------
(* The search for debug files over any directories: no image gets a file of      *)
(* another one, and none is missed but for the name of its file.                 *)
EXTENDS Images, Extremes

--------------------------------------------------------------------------------
(* Small facts.                                                                  *)

LEMMA FirstHit ==
    ASSUME NEW hits \in SUBSET SearchPath, hits # {}
    PROVE  Min(hits) \in hits /\ \A p \in hits : Min(hits) <= p
  <1>1. hits \in SUBSET Nat
    BY ImagesAssumption DEF SearchPath
  <1>2. QED
    BY <1>1, MinOfNat

LEMMA FileFound ==
    ASSUME NEW p \in SearchPath, NEW how \in {"named", "bundle"}, NEW fn \in Name
    PROVE  /\ <<p, how, fn>> \in File /\ <<p, how, fn>> # NoFile
           /\ <<p, how, fn>>[1] = p /\ <<p, how, fn>>[2] = how /\ <<p, how, fn>>[3] = fn
  BY ImagesAssumption DEF File

--------------------------------------------------------------------------------
(* The invariant is inductive.                                                   *)

LEMMA InitImages == Init => ImagesInv
  <1> SUFFICES ASSUME Init PROVE ImagesInv
    OBVIOUS
  <1>1. /\ DOMAIN binary \subseteq Uuid /\ DOMAIN content \subseteq SearchPath
        /\ wanted = Known /\ todo = wanted /\ phase = "fast" /\ current = 1 /\ rv = {}
        /\ images = [u \in Uuid |-> NoFile]
    BY DEF Init, Start, Bundle
  <1>2. Loaded = {}
    BY <1>1 DEF Loaded
  <1>3. ImagesTypeOK
    BY <1>1 DEF ImagesTypeOK
  <1>4. WantedInv /\ NameInv
    BY <1>1, <1>2 DEF WantedInv, NameInv
  <1>5. ScanInv /\ ResultInv /\ Sound
    BY <1>1, <1>2 DEF ScanInv, Passed, FirstBundle, ResultInv, Sound
  <1>6. QED
    BY <1>3, <1>4, <1>5 DEF ImagesInv

(* One image of the first pass.                                                  *)
LEMMA StepFastPath ==
    ASSUME ImagesInv, NEW u \in Uuid, FastPath(u)
    PROVE  ImagesInv'
  <1> DEFINE hits == {p \in SearchPath : <<p, u>> \in named}
             file == <<Min(hits), "named", u>>
  <1>a. ImagesTypeOK /\ WantedInv /\ NameInv /\ ScanInv /\ ResultInv /\ Sound
    BY DEF ImagesInv
  <1>b. /\ phase = "fast" /\ phase' = "fast" /\ u \in todo /\ todo' = todo \ {u}
        /\ binary' = binary /\ named' = named /\ content' = content
        /\ current' = current /\ rv' = rv
        /\ IF hits = {} THEN images' = images /\ wanted' = wanted
           ELSE images' = [images EXCEPT ![u] = file] /\ wanted' = wanted \ {u}
    BY DEF FastPath, disk
  <1>c. u \in wanted /\ images[u] = NoFile /\ images \in [Uuid -> File \cup {NoFile}]
    BY <1>a, <1>b DEF NameInv, WantedInv, Loaded, ImagesTypeOK
  <1>d. hits # {} => /\ Min(hits) \in SearchPath /\ <<Min(hits), u>> \in named
                     /\ \A p \in hits : Min(hits) <= p
    BY FirstHit
  <1>e. hits # {} => /\ file \in File /\ file # NoFile
                     /\ file[1] = Min(hits) /\ file[2] = "named"
    BY <1>d, FileFound DEF Name
  <1>f. Known' = Known
    BY <1>b DEF Known
  <1>g. /\ Loaded' = IF hits = {} THEN Loaded ELSE Loaded \cup {u}
        /\ \A v \in Uuid \ {u} : images'[v] = images[v]
        /\ hits # {} => images'[u] = file
    BY <1>b, <1>c, <1>e DEF Loaded
  <1>h. \A p \in SearchPath : <<p, u>> \in named <=> p \in hits
    OBVIOUS
  <1> HIDE DEF hits, file
  <1>1. ImagesTypeOK'
    BY <1>a, <1>b, <1>e DEF ImagesTypeOK
  <1>2. WantedInv'
    BY <1>a, <1>b, <1>c, <1>f, <1>g DEF WantedInv
  <1>3. NameInv'
    <2>1. todo' \subseteq wanted'
      BY <1>a, <1>b DEF NameInv
    <2>2. ASSUME NEW v \in wanted', NEW p \in SearchPath, <<p, v>> \in named
          PROVE  v \in todo'
      <3>1. v # u
        BY <1>b, <1>h, <2>2
      <3>2. v \in wanted
        BY <1>b
      <3>3. QED
        BY <1>a, <1>b, <2>2, <3>1, <3>2 DEF NameInv
    <2>3. ASSUME NEW v \in Loaded', NEW p \in SearchPath, <<p, v>> \in named
          PROVE  images'[v][2] = "named" /\ images'[v][1] <= p
      <3>1. CASE v = u /\ hits # {}
        BY <1>d, <1>e, <1>g, <1>h, <2>3, <3>1
      <3>2. CASE v # u \/ hits = {}
        <4>1. v \in Loaded /\ v # u /\ v \in Uuid
          BY <1>c, <1>g, <3>2 DEF Loaded
        <4>2. QED
          BY <1>a, <1>g, <2>3, <4>1 DEF NameInv
      <3>3. QED
        BY <3>1, <3>2
    <2>4. QED
      BY <1>b, <2>1, <2>2, <2>3 DEF NameInv
  <1>4. ScanInv'
    BY <1>a, <1>b, <1>c, <1>e, <1>g DEF ScanInv, Passed, FirstBundle, Listing, Holds, Loaded
  <1>5. ResultInv'
    BY <1>a, <1>b DEF ResultInv
  <1>6. Sound'
    BY <1>a, <1>b, <1>c, <1>d, <1>e, <1>g DEF Sound, ResultInv, Holds, Loaded
  <1>7. QED
    BY <1>1, <1>2, <1>3, <1>4, <1>5, <1>6 DEF ImagesInv

LEMMA StepFastDone ==
    ASSUME ImagesInv, FastDone
    PROVE  ImagesInv'
  <1>a. ImagesTypeOK /\ WantedInv /\ NameInv /\ ScanInv /\ ResultInv /\ Sound
    BY DEF ImagesInv
  <1>b. /\ phase = "fast" /\ todo = {}
        /\ binary' = binary /\ named' = named /\ content' = content
        /\ wanted' = wanted /\ images' = images /\ current' = current /\ rv' = rv
        /\ IF wanted = {} THEN phase' = "resolve" /\ todo' = todo
           ELSE phase' = "slow" /\ todo' = Listing(1)
    BY DEF FastDone, disk
  <1>c. Known' = Known /\ Loaded' = Loaded
    BY <1>b DEF Known, Loaded
  <1>d. phase = "fast" => current = 1
    BY <1>a DEF ImagesTypeOK
  <1>1. ImagesTypeOK'
    BY <1>a, <1>b, <1>d DEF ImagesTypeOK, Listing
  <1>2. WantedInv' /\ NameInv'
    BY <1>a, <1>b, <1>c DEF WantedInv, NameInv
  <1>3. ScanInv'
    <2>1. ASSUME NEW v \in wanted, NEW p \in DOMAIN content, NEW fn \in Listing(p), Passed(p, fn)'
          PROVE  FALSE
      BY <1>a, <1>b, <1>d, <2>1, ImagesAssumption DEF Passed, ImagesTypeOK, SearchPath, Listing
    <2>2. FirstBundle'
      BY <1>a, <1>b, <1>c DEF ScanInv, FirstBundle, Listing, Holds
    <2>3. QED
      BY <1>b, <2>1, <2>2 DEF ScanInv, Listing
  <1>4. ResultInv' /\ Sound'
    BY <1>a, <1>b, <1>c DEF ResultInv, Sound, Holds
  <1>5. QED
    BY <1>1, <1>2, <1>3, <1>4 DEF ImagesInv

(* One file of the second pass: it serves images that are still wanted, which    *)
(* no file passed before it has.                                                 *)
LEMMA StepSlowFile ==
    ASSUME ImagesInv, NEW fn \in Name, SlowFile(fn)
    PROVE  ImagesInv'
  <1> DEFINE skipped == fn \in Loaded \/ content[current][fn] = Unreadable
             hits == IF skipped THEN {} ELSE content[current][fn] \cap wanted
             file == <<current, "bundle", fn>>
  <1>a. ImagesTypeOK /\ WantedInv /\ NameInv /\ ScanInv /\ ResultInv /\ Sound
    BY DEF ImagesInv
  <1>b. /\ phase = "slow" /\ phase' = "slow" /\ fn \in todo /\ todo' = todo \ {fn}
        /\ binary' = binary /\ named' = named /\ content' = content
        /\ current' = current /\ rv' = rv
    BY DEF SlowFile, disk
  <1>c. /\ images \in [Uuid -> File \cup {NoFile}] /\ wanted \subseteq Uuid
        /\ \A v \in wanted : images[v] = NoFile
    BY <1>a DEF ImagesTypeOK, WantedInv, Loaded, Known
  <1>d. current \in DOMAIN content /\ current \in SearchPath
    BY <1>a, <1>b DEF ImagesTypeOK, Listing
  <1>e. file \in File /\ file # NoFile /\ file[1] = current /\ file[2] = "bundle" /\ file[3] = fn
    BY <1>d, FileFound
  <1>f. /\ images' = [v \in Uuid |-> IF v \in hits THEN file ELSE images[v]]
        /\ wanted' = wanted \ hits
    BY <1>c DEF SlowFile
  <1>g. hits \subseteq wanted /\ \A v \in hits : Holds(current, fn, v)
    BY DEF Holds
  <1>h. \A v \in wanted \ hits : Holds(current, fn, v) => fn \in Loaded
    BY DEF Holds
  <1> HIDE DEF skipped, hits, file
  <1>i. Known' = Known
    BY <1>b DEF Known
  <1>j. Loaded' = Loaded \cup hits
    BY <1>c, <1>e, <1>f, <1>g DEF Loaded
  <1>k. \A v \in Uuid : images'[v] = IF v \in hits THEN file ELSE images[v]
    BY <1>f
  <1>1. ImagesTypeOK'
    BY <1>a, <1>b, <1>e, <1>f DEF ImagesTypeOK, Listing
  <1>2. WantedInv'
    BY <1>a, <1>f, <1>g, <1>i, <1>j DEF WantedInv
  <1>3. NameInv'
    <2>1. \A v \in hits, p \in SearchPath : <<p, v>> \notin named
      BY <1>a, <1>b, <1>g DEF NameInv
    <2>2. \A v \in Loaded : images'[v] = images[v] /\ v \in Uuid
      BY <1>a, <1>g, <1>k DEF WantedInv, Loaded
    <2>3. QED
      BY <1>a, <1>b, <1>f, <1>j, <2>1, <2>2 DEF NameInv
  <1>4. ScanInv'
    <2>1. ASSUME NEW v \in wanted', NEW p \in DOMAIN content, NEW gn \in Listing(p),
                 Passed(p, gn)', Holds(p, gn, v)
          PROVE  gn \in Loaded
      <3>1. v \in wanted \ hits
        BY <1>f
      <3>2. CASE Passed(p, gn)
        BY <1>a, <2>1, <3>1, <3>2 DEF ScanInv
      <3>3. CASE ~Passed(p, gn)
        <4>1. p = current /\ gn = fn
          BY <1>b, <2>1, <3>3 DEF Passed
        <4>2. QED
          BY <1>h, <2>1, <3>1, <4>1
      <3>4. QED
        BY <3>2, <3>3
    <2>2. ASSUME NEW v \in Loaded', NEW p \in DOMAIN content, images'[v][2] = "bundle", p < images'[v][1],
                 NEW gn \in Listing(p), Holds(p, gn, v)
          PROVE  gn \in Loaded
      <3>1. CASE v \in hits
        <4>1. p < current
          BY <1>c, <1>e, <1>g, <1>k, <2>2, <3>1
        <4>2. Passed(p, gn)
          BY <1>b, <4>1 DEF Passed
        <4>3. QED
          BY <1>a, <1>g, <2>2, <3>1, <4>2 DEF ScanInv
      <3>2. CASE v \notin hits
        <4>1. v \in Loaded /\ images'[v] = images[v]
          BY <1>j, <1>k, <2>2, <3>2 DEF Loaded
        <4>2. QED
          BY <1>a, <2>2, <4>1 DEF ScanInv, FirstBundle
      <3>3. QED
        BY <3>1, <3>2
    <2>3. \A p : Listing(p)' = Listing(p) /\ \A gn, v : Holds(p, gn, v)' = Holds(p, gn, v)
      BY <1>b DEF Listing, Holds
    <2>4. FirstBundle'
      BY <1>b, <1>j, <2>2, <2>3 DEF FirstBundle
    <2>5. QED
      BY <1>b, <1>j, <2>1, <2>3, <2>4 DEF ScanInv
  <1>5. ResultInv'
    BY <1>a, <1>b DEF ResultInv
  <1>6. Sound'
    <2>1. \A v \in Loaded : images'[v] = images[v]
      BY <1>a, <1>g, <1>k DEF WantedInv, Loaded
    <2>2. \A v \in hits : images'[v] = file
      BY <1>c, <1>g, <1>k
    <2>3. rv' = {}
      BY <1>a, <1>b DEF ResultInv
    <2>4. QED
      BY <1>a, <1>b, <1>e, <1>g, <1>j, <2>1, <2>2, <2>3 DEF Sound, Holds
  <1>7. QED
    BY <1>1, <1>2, <1>3, <1>4, <1>5, <1>6 DEF ImagesInv

LEMMA StepSlowNext ==
    ASSUME ImagesInv, SlowNext
    PROVE  ImagesInv'
  <1>a. ImagesTypeOK /\ WantedInv /\ NameInv /\ ScanInv /\ ResultInv /\ Sound
    BY DEF ImagesInv
  <1>b. /\ phase = "slow" /\ todo = {}
        /\ binary' = binary /\ named' = named /\ content' = content
        /\ wanted' = wanted /\ images' = images /\ rv' = rv
        /\ IF current >= PathCount THEN phase' = "resolve" /\ current' = current /\ todo' = todo
           ELSE current' = current + 1 /\ todo' = Listing(current + 1) /\ phase' = phase
    BY DEF SlowNext, disk
  <1>c. Known' = Known /\ Loaded' = Loaded /\ current \in Nat
    BY <1>a, <1>b DEF Known, Loaded, ImagesTypeOK
  <1>1. ImagesTypeOK'
    BY <1>a, <1>b DEF ImagesTypeOK, Listing
  <1>2. WantedInv' /\ NameInv'
    BY <1>a, <1>b, <1>c DEF WantedInv, NameInv
  <1>3. ScanInv'
    <2>1. ASSUME NEW p \in DOMAIN content, NEW fn \in Listing(p), Passed(p, fn)' PROVE Passed(p, fn)
      <3>1. p \in 1..PathCount
        BY <1>a DEF ImagesTypeOK, SearchPath
      <3>2. QED
        BY <1>b, <1>c, <2>1, <3>1, ImagesAssumption DEF Passed
    <2>2. FirstBundle'
      BY <1>a, <1>b, <1>c DEF ScanInv, FirstBundle, Listing, Holds
    <2>3. \A p : Listing(p)' = Listing(p) /\ \A gn, v : Holds(p, gn, v)' = Holds(p, gn, v)
      BY <1>b DEF Listing, Holds
    <2>4. QED
      BY <1>a, <1>b, <1>c, <2>1, <2>2, <2>3 DEF ScanInv
  <1>4. ResultInv' /\ Sound'
    BY <1>a, <1>b, <1>c DEF ResultInv, Sound, Holds
  <1>5. QED
    BY <1>1, <1>2, <1>3, <1>4 DEF ImagesInv

LEMMA StepResolve ==
    ASSUME ImagesInv, Resolve
    PROVE  ImagesInv'
  <1>a. ImagesTypeOK /\ WantedInv /\ NameInv /\ ScanInv /\ ResultInv /\ Sound
    BY DEF ImagesInv
  <1>b. /\ phase = "resolve" /\ phase' = "done" /\ rv' = Known \cap Loaded
        /\ binary' = binary /\ named' = named /\ content' = content
        /\ wanted' = wanted /\ images' = images /\ current' = current /\ todo' = todo
    BY DEF Resolve, disk
  <1>c. Known' = Known /\ Loaded' = Loaded
    BY <1>b DEF Known, Loaded
  <1>1. ImagesTypeOK'
    BY <1>a, <1>b DEF ImagesTypeOK
  <1>2. WantedInv' /\ NameInv'
    BY <1>a, <1>b, <1>c DEF WantedInv, NameInv
  <1>3. ScanInv'
    BY <1>a, <1>b, <1>c DEF ScanInv, Passed, FirstBundle, Listing, Holds
  <1>4. ResultInv' /\ Sound'
    BY <1>a, <1>b, <1>c DEF ResultInv, Sound, Holds, Known, Loaded
  <1>5. QED
    BY <1>1, <1>2, <1>3, <1>4 DEF ImagesInv

LEMMA StepImages == ImagesInv /\ [Next]_vars => ImagesInv'
  <1> SUFFICES ASSUME ImagesInv, [Next]_vars PROVE ImagesInv'
    OBVIOUS
  <1>1. CASE UNCHANGED vars
    BY <1>1 DEF vars, disk, ImagesInv, ImagesTypeOK, WantedInv, NameInv, ScanInv, FirstBundle,
                ResultInv, Sound, Holds, Listing, Passed, Known, Loaded
  <1>2. CASE Next
    BY <1>2, StepFastPath, StepFastDone, StepSlowFile, StepSlowNext, StepResolve DEF Next
  <1>3. QED
    BY <1>1, <1>2

THEOREM ImagesInductive == Spec => []ImagesInv
  BY InitImages, StepImages, PTL DEF Spec

--------------------------------------------------------------------------------
(* What follows.                                                                 *)

(* No image gets a file of another image, or one although its cpu is unknown.    *)
THEOREM FilesSound == Spec => []Sound
  <1>1. ImagesInv => Sound
    BY DEF ImagesInv
  <1>2. QED
    BY <1>1, ImagesInductive, PTL

(* Files named by the UUID come first, in the order of the search paths.         *)
THEOREM FilesPreferred == Spec => []Preference
  <1>1. ImagesInv => Preference
    BY DEF ImagesInv, NameInv, Preference
  <1>2. QED
    BY <1>1, ImagesInductive, PTL

(* Of several bundles the first one serves an image.                             *)
THEOREM FirstBundleServes == Spec => []FirstBundle
  <1>1. ImagesInv => FirstBundle
    BY DEF ImagesInv, ScanInv
  <1>2. QED
    BY <1>1, ImagesInductive, PTL

(* An image is missed only if it is nowhere, or hidden in a bundle behind a file *)
(* name that is the UUID of an image found before.                               *)
THEOREM MissedOnlyIfHidden == Spec => []MissedOnlyBySkipping
  <1>1. ImagesInv => MissedOnlyBySkipping
    <2> SUFFICES ASSUME ImagesInv, phase = "done", NEW u \in DOMAIN binary, binary[u], u \notin rv
                 PROVE  /\ \A p \in SearchPath : <<p, u>> \notin named
                        /\ \A p \in DOMAIN content : \A fn \in Listing(p) :
                             Holds(p, fn, u) => fn \in Loaded
      BY DEF MissedOnlyBySkipping
    <2>1. u \in wanted
      BY DEF ImagesInv, ResultInv, WantedInv, Known
    <2>2. QED
      BY <2>1 DEF ImagesInv, NameInv, ScanInv, Passed
  <1>2. QED
    BY <1>1, ImagesInductive, PTL
================================================================================
