----------------------------- MODULE ImageLookup -----------------------------
(***************************************************************************)
(* The image an address belongs to (class ImageLookup of                   *)
(* symsynd/images.py): a table from image addresses to images, in which a  *)
(* later image replaces an earlier one with the same address, searched by  *)
(* bisection of the sorted addresses.                                      *)
(***************************************************************************)
EXTENDS Naturals, Sequences, FiniteSetsExt

CONSTANT NoImage   \* None in place of an image

(* Mutant: the first image with an address keeps it.                       *)
FirstTable(list) ==
  [a \in {list[i].addr : i \in DOMAIN list} |->
     list[Min({i \in DOMAIN list : list[i].addr = a})]]

Table(list) ==
  [a \in {list[i].addr : i \in DOMAIN list} |->
     list[Max({i \in DOMAIN list : list[i].addr = a})]]

(* bisect_left counts the addresses below addr; the image before that      *)
(* position is the answer.                                                 *)
find_image(list, addr) ==
  LET below == {a \in DOMAIN Table(list) : a < addr}
  IN IF below = {} THEN NoImage ELSE Table(list)[Max(below)]

=============================================================================
