------------------------------- MODULE MCDisk -------------------------------
(***************************************************************************)
(* a.disk is empty at first, or holds the one block of an earlier file.    *)
(***************************************************************************)
EXTENDS DiskImage

MCEntry == [off |-> Header + 1, size |-> 1]
MCOldImage ==
    [b \in Addr |->
        CASE b < Header      -> [t |-> "bitmap", v |-> 0..(Header + 2)]
          [] b = Header      -> [t |-> "dir", v |-> [Zeros EXCEPT ![0] = MCEntry]]
          [] b = Header + 1  -> [t |-> "inode", v |-> <<Header + 2>>]
          [] b = Header + 2  -> [t |-> "data", v |-> 0]
          [] OTHER           -> Hole]
MCEarlier == {[b \in Addr |-> Hole], MCOldImage}
=============================================================================
