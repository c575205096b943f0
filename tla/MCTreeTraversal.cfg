CONSTANT MaxDepth <- MCMaxDepth
SPECIFICATION Spec
INVARIANTS TypeOK TraversalsCorrect LevelIsPreorder
