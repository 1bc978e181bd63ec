----------------------------- MODULE MCThreadPool -----------------------------
(* Bounds: two callers that race in append, three workers, a queue that is   *)
(* full with two entries (m_max_requests = 1), one object and the null       *)
(* pointer.  Larger queues add no new relation between queue, semaphore and  *)
(* threads.                                                                  *)
EXTENDS ThreadPool
=============================================================================
