SPECIFICATION Spec
INVARIANTS
  OneOwnerPerResource
  NothingLeaks
  LifetimesNest
  ModesAreTheGrantedOnes
PROPERTY WorkerGoesBeforeLoader
