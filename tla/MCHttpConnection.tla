-------------------------- MODULE MCHttpConnection --------------------------
(* Instances of HttpConnection for TLC: see the .cfg files named after it. *)
EXTENDS HttpConnection

RequestOf(post, headers, body, trailers, error) ==
  [post |-> post, headers |-> headers, body |-> body, trailers |-> trailers, error |-> error]

(* With and without fields and a body, refused, broken off, and followed   *)
(* by something that is no request.                                        *)
PlainShapes ==
  {RequestOf(TRUE, h, b, 0, "none") : h \in {0, 2}, b \in {0, 2}}
    \cup {RequestOf(FALSE, 1, 1, 0, "none"), RequestOf(TRUE, 1, 1, 0, "inside"),
          RequestOf(TRUE, 1, 1, 0, "after")}

TrailerShapes == {RequestOf(TRUE, 1, 2, 1, "none"), RequestOf(TRUE, 1, 2, 0, "none")}
=============================================================================
