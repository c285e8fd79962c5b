------------------------------ MODULE GuestTLS ------------------------------
(***************************************************************************)
(* GuestTLS.c: the thread-local variables of placed images.  An image      *)
(* registers the range of its descriptors and its template; a thread that  *)
(* first touches a variable gets storage of its own, copied from the       *)
(* template, which the key's destructor frees when the thread ends.        *)
(*                                                                         *)
(* Addresses wrap at Space; a descriptor is Entry addresses long (24       *)
(* bytes).  A call is one step: a thread's storage is its own, and images  *)
(* are registered before guest threads run.  malloc, pthread keys and the  *)
(* end of a thread are external.                                           *)
(***************************************************************************)
EXTENDS Integers, Sequences, FiniteSets

CONSTANTS
    Threads,
    Space, Entry,       \* the address space and a descriptor, at small width
    MaxImages, MaxSize, \* bounds: images, and the bytes of a template
    MaxBlocks           \* bound: allocations that are ever made

VARIABLES
    images,             \* guest_tls: [descriptors, extent, size], size 0 without a template
    key,                \* pthread_getspecific: thread and image -> a block, or 0
    blocks,             \* the blocks of memory: id -> [owner, bytes]
    made,               \* how many were allocated
    wrote,              \* what each thread last wrote to a variable: thread, image, offset -> value
    answer              \* the last gt_find

vars == <<images, key, blocks, made, wrote, answer>>

Nowhere == [thread |-> "none", at |-> 0, offset |-> 0, owner |-> 0, block |-> 0, failed |-> FALSE]
Template == 0
Images == 1 .. MaxImages

Init ==
    /\ images = <<>> /\ key = [p \in Threads \X Images |-> 0] /\ blocks = <<>> /\ made = 0
    /\ wrote = [p \in Threads \X Images |-> [o \in 0 .. MaxSize - 1 |-> Template]] /\ answer = Nowhere

-----------------------------------------------------------------------------
\* gt_register and gt_create: whole descriptors that do not wrap; images lie apart.
Register ==
    /\ Len(images) < MaxImages /\ answer = Nowhere /\ UNCHANGED <<key, blocks, made, wrote, answer>>
    /\ \E at \in 0 .. Space - 1, extent \in 0 .. Space - 1, size \in 0 .. MaxSize :
          /\ extent # 0 /\ extent % Entry = 0 /\ extent <= Space - 1 - at
          /\ \A i \in DOMAIN images : at + extent <= images[i].descriptors \/ images[i].descriptors + images[i].extent <= at
          /\ images' = Append(images, [descriptors |-> at, extent |-> extent, size |-> size])

\* One unsigned comparison: an address below the range wraps.
Holds(image, address) == (address - image.descriptors) % Space < image.extent

\* The first image whose descriptors hold the address, or none.
OwnerOf(address) ==
    IF \E i \in DOMAIN images : Holds(images[i], address)
    THEN CHOOSE i \in DOMAIN images : Holds(images[i], address) /\ \A j \in 1 .. i - 1 : ~Holds(images[j], address)
    ELSE 0

Served(i, address, offset) ==
    /\ images[i].size > 0 /\ address >= images[i].descriptors /\ address - images[i].descriptors < images[i].extent
    /\ (address - images[i].descriptors) % Entry = 0 /\ offset < images[i].size

\* Wrong form of Storage: the storage of whichever thread has some.
StorageShared(t, i) ==
    IF \E u \in Threads : key[<<u, i>>] # 0 THEN key[<<CHOOSE u \in Threads : key[<<u, i>>] # 0, i>>] ELSE 0

\* pthread_getspecific.
Storage(t, i) == key[<<t, i>>]

\* Freed before anyone saw it.
GivenBack(id) == UNCHANGED blocks

\* gt_find and gt_address.
Find ==
    \E t \in Threads, at \in 0 .. Space - 1, offset \in 0 .. MaxSize :
      LET i == OwnerOf(at)
          said == [thread |-> t, at |-> at, offset |-> offset, owner |-> i, block |-> 0, failed |-> FALSE]
      IN  /\ answer = Nowhere /\ UNCHANGED <<images, wrote>>
          /\ IF i = 0 \/ ~Served(i, at, offset) THEN answer' = said /\ UNCHANGED <<key, blocks, made>>
             ELSE IF Storage(t, i) # 0 THEN answer' = [said EXCEPT !.block = Storage(t, i)] /\ UNCHANGED <<key, blocks, made>>
             ELSE /\ made < MaxBlocks /\ made' = made + 1
                  /\ \/ /\ answer' = [said EXCEPT !.block = made + 1] /\ key' = [key EXCEPT ![<<t, i>>] = made + 1]
                        /\ blocks' = [k \in DOMAIN blocks \cup {made + 1} |-> IF k = made + 1
                                         THEN [owner |-> i, bytes |-> [o \in 0 .. images[i].size - 1 |-> Template]] ELSE blocks[k]]
                     \/ answer' = [said EXCEPT !.failed = TRUE] /\ UNCHANGED key /\ GivenBack(made + 1)

\* The guest reads, or was given nothing.
Read == answer # Nowhere /\ answer' = Nowhere /\ UNCHANGED <<images, key, blocks, made, wrote>>

\* It writes to the address it was given.
Write ==
    /\ answer.block # 0 /\ UNCHANGED <<images, key, made>> /\ answer' = Nowhere
    /\ wrote' = [wrote EXCEPT ![<<answer.thread, answer.owner>>][answer.offset] = 1]
    /\ blocks' = [blocks EXCEPT ![answer.block].bytes[answer.offset] = 1]

\* A thread ends; another may take its place.
Exit ==
    \E t \in Threads :
        LET own == {key[<<t, i>>] : i \in Images} \ {0}
        IN  /\ own # {} /\ answer = Nowhere /\ blocks' = [k \in DOMAIN blocks \ own |-> blocks[k]]
            /\ key' = [p \in DOMAIN key |-> IF p[1] = t THEN 0 ELSE key[p]]
            /\ wrote' = [p \in DOMAIN wrote |-> IF p[1] = t THEN [o \in 0 .. MaxSize - 1 |-> Template] ELSE wrote[p]]
            /\ UNCHANGED <<images, made, answer>>

Next == Register \/ Find \/ Read \/ Write \/ Exit
Spec == Init /\ [][Next]_vars

-----------------------------------------------------------------------------
(* Properties.                                                             *)

\* A thread reads what it wrote last, or the template if it wrote nothing since it
\* began, whatever other threads did to the same variable.
ThreadsKeepTheirValues ==
    answer.block # 0 => blocks[answer.block].bytes[answer.offset] = wrote[<<answer.thread, answer.owner>>][answer.offset]

\* Every block belongs to one thread and one image: no call that failed half way
\* and no thread that ended left one behind.
BlocksAreOwned ==
    /\ DOMAIN blocks = {key[p] : p \in DOMAIN key} \ {0}
    /\ \A p, q \in DOMAIN key : key[p] # 0 /\ key[p] = key[q] => p = q

\* Storage is answered exactly for the start of a descriptor of an image that has a
\* template, at a place inside it: the image that holds the address is asked.
ServedExactly ==
    answer # Nowhere /\ ~answer.failed =>
        (answer.block # 0) = \E i \in DOMAIN images : /\ \E n \in 0 .. Space : answer.at = images[i].descriptors + n * Entry
                                                      /\ answer.at < images[i].descriptors + images[i].extent
                                                      /\ answer.offset < images[i].size
=============================================================================
