---------------------------- MODULE MCUploadSlots ----------------------------
(* Instances of UploadSlots for TLC. *)
EXTENDS UploadSlots

CONSTANTS u1, u2, u3, u4, c1, c2, c3, c4, f1, f2, l1, s1

Of(a, b, c) == [x \in Conns |-> CASE x = c1 -> a [] x = c2 -> b [] OTHER -> c]
By(a, b, c) == [u \in Users |-> CASE u = u1 -> a [] u = u2 -> b [] OTHER -> c]
Setup(s, a, m, o, w, p, n) ==
    [slots |-> s, auto |-> a, mcn |-> m, owner |-> o, wants |-> w, perk |-> p, mishaps |-> n]
NoPerks == By("none", "none", "none")

SomeSetups ==
    { \* two users and one slot
      Setup(1, 0, Users, Of(u1, u1, u2), By({f1, f2}, {f1, s1}, {}), NoPerks, 1),
      \* three users and one slot, or two
      Setup(1, 0, Users, Of(u1, u2, u3), By({f1}, {f1}, {f1}), NoPerks, 1),
      Setup(2, 0, Users, Of(u1, u2, u3), By({f1}, {f1}, {f1}), NoPerks, 1),
      \* two slots: a user with two connections has to make room
      Setup(2, 0, Users, Of(u1, u1, u2), By({f1, f2}, {f1}, {}), NoPerks, 1),
      \* slots that the speed opens
      Setup(1, 1, Users, Of(u1, u1, u2), By({f1, f2}, {f1}, {}), NoPerks, 1),
      \* a user without support for several connections
      Setup(1, 0, {}, Of(u1, u1, u1), By({f1, l1, s1}, {}, {}), NoPerks, 0),
      \* users that have something granted
      Setup(1, 0, Users, Of(u1, u2, u3), By({f1}, {f1}, {f1, l1}),
            By("slot", "fileslot", "operator"), 1)}

\* Two slots and four users, one of whom comes back.
FourUsers ==
    {Setup(2, 0, Users, [x \in Conns |-> CASE x = c1 -> u1 [] x = c2 -> u2 [] x = c3 -> u3 [] OTHER -> u4],
           [u \in Users |-> {f1}], [u \in Users |-> "none"], 1)}
==============================================================================
