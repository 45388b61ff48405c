---------------------------- MODULE PacketMove -----------------------------
(***************************************************************************)
(* What CPacket's move constructor does to the packet it moves from.  A    *)
(* packet is moved on its way from onMessage to the pool, and each packet  *)
(* that was moved from is destroyed there, on the network thread.          *)
(***************************************************************************)

\* CPacket(CPacket &&) clears m_veryfyData[16] of the moved-from packet.  The
\* array has 16 elements and the object is packed, so the byte cleared is the
\* low byte of the pointer in m_strOut, the member that follows.
MovedFromLow(low) == 0

\* That low byte before the move, which depends on the object's address.
PointerLow == {0, 82}

\* m_strOut of a moved-from packet is empty and in its own short-string buffer:
\* with its pointer as it was, its destructor has nothing to free.  A changed
\* one it frees, and the process aborts.
Survives(low) == MovedFromLow(low) = low
=============================================================================
