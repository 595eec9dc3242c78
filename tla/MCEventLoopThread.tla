------------------------- MODULE MCEventLoopThread -------------------------
(* Small instances of EventLoop, by itself and in an EventLoopThread.       *)
EXTENDS EventLoopThread
=============================================================================
