CONSTANTS
    vert = vert
    frag = frag
    flat = flat
    Shader = {vert, frag, flat}
    Materials <- TwoMaterials
    MaxVersion = 2
SPECIFICATION Spec
INVARIANTS TypeOK FreshCode StartsUnlessCut LoadedMeansCached PipelineCacheHonest
