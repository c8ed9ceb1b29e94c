--------------------------- MODULE MCSessionRelay ----------------------------
(* Small instances of one session.  The client sends bytes for one frame    *)
(* and a rest that only flush() emits, the server at most one frame.        *)
EXTENDS SessionRelay, TLC

Rest == ("up" :> 2) @@ ("down" :> 0)
RestEnds == ("up" :> {1}) @@ ("down" :> {1})
OneFrame == ("up" :> 1) @@ ("down" :> 1)
TwoFrames == ("up" :> 2) @@ ("down" :> 0)
FrameEnds == ("up" :> {1, 2}) @@ ("down" :> {1})
KeepBoth == ("up" :> TRUE) @@ ("down" :> TRUE)
KeepNone == ("up" :> FALSE) @@ ("down" :> FALSE)
==============================================================================
