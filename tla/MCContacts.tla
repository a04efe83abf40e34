--------------------------- MODULE MCContacts ----------------------------
(* An instance of Contacts for TLC: a and b know each other and c is new; a
   hands out codes and keeps the list of contacts, b and c use the codes, and
   b changes their profile.  A name with a quote breaks a hello and comes
   through in a profile_update, a name that ends in a backslash breaks both;
   "Me", the name of a user who has set none, comes through.                *)
EXTENDS Contacts

MCFriends == {<<"a", "b">>, <<"b", "a">>}
MCUses == ({"a"} \X {"GenerateInviteCode", "AddPeer", "RemovePeer"})
          \cup ({"b"} \X {"JoinViaCode", "UpdateProfile"})
          \cup ({"c"} \X {"JoinViaCode"})
MCInHello == [n \in Nicknames |-> IF n = "Me" THEN n ELSE NotJSON]
MCInProfile == [n \in Nicknames |-> IF n = "slashed" THEN NotJSON ELSE n]
==========================================================================
