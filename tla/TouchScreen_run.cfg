CONSTANTS
  Places = {0, 100}
SPECIFICATION FairSpec
INVARIANT TypeOK NeverStuck Watched
PROPERTY Releases Tracks
