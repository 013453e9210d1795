------------------------------- MODULE MCMmu --------------------------------
(***************************************************************************)
(* Three levels of tables with two entries each, four physical pages of    *)
(* two words.  Pages 0, 2 and 3 are the tables of the image; page 1 is a   *)
(* user page, so that a store over its end runs into a table.  The kernel  *)
(* has a direct map of all memory (a superpage at the top level); another  *)
(* superpage, one level down, is open to user programs.  The guest may     *)
(* store over any of it: a User word stored in an upper table is a         *)
(* misaligned superpage, Mid stored in page 3 a table that contains        *)
(* itself.                                                                 *)
(***************************************************************************)
EXTENDS Mmu

Word(ppn, flags) == [ppn |-> ppn, flags |-> flags]
Zero   == Word({}, {})
Top    == Word({1}, {"V"})                      \* table in page 2
Mid    == Word({0, 1}, {"V"})                   \* table in page 3
Direct == Word({}, {"V", "R", "W"})             \* all memory, kernel only
Super  == Word({}, {"V", "R", "W", "U"})        \* pages 0 and 1
User   == Word({0}, {"V", "R", "W", "X", "U"})  \* page 1, for user programs
Text   == Word({0}, {"V", "X"})                 \* page 1, execute only

\* bit 0: word in the page; bits 1 and 2: page number
MCRoot  == {}
MCImage == [pa \in Pa |-> CASE pa = {}     -> Top
                            [] pa = {0}    -> Direct
                            [] pa = {2}    -> Mid
                            [] pa = {0, 2} -> Super
                            [] pa = {1, 2} -> User
                            [] OTHER       -> Zero]
MCStored  == {Zero, Mid, User, Text}
=============================================================================
