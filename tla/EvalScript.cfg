\* Three evaluations, two cross-thread posts, four local jobs in all: enough
\* for a script to leave jobs behind, a later one to drain them, and posts
\* to land before, during and after a drain.
CONSTANTS
  MaxEvals = 3
  MaxPosts = 2
  MaxJobs = 4
  MaxScript = 2

SPECIFICATION Spec

INVARIANT TypeOK
PROPERTY DrainTerminates
\* The shell stops once the host has made its evaluations and posts.
CHECK_DEADLOCK FALSE
